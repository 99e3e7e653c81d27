-------------------------- MODULE UniquePtrProofs --------------------------
(***************************************************************************)
(* For any number of unique_ptrs, objects and deleters and any nesting of  *)
(* destructors: an object is lost only by the two calls that replace a     *)
(* pointer, and, if the client resets what it moved from, no two           *)
(* unique_ptrs hold the same pointer, none holds a pointer to a deleted    *)
(* object unless it is deleting, an object is deleted twice only by a      *)
(* destructor that comes back to the unique_ptr that is deleting; and only *)
(* a swap that throws half way brings a pointer to a deleter that does not *)
(* suit.                                                                   *)
(*                                                                         *)
(* The first needs to know that what is being released has been deleted    *)
(* and stays so until the release ends (StackInv); the others need each    *)
(* other and that what the client has not handed over is not owned         *)
(* (OwnerInv).                                                             *)
(***************************************************************************)
EXTENDS UniquePtr, FiniteSetTheorems, TLAPS

Elems(s) == { s[i] : i \in DOMAIN s }
Distinct(s) == \A i, j \in DOMAIN s : i # j => s[i] # s[j]

(* A call that begins adds itself to the calls in progress. *)
LEMMA PushFacts ==
  ASSUME NEW S, NEW s \in Seq(S), NEW e \in S
  PROVE  /\ Append(s, e) \in Seq(S)
         /\ Elems(Append(s, e)) = Elems(s) \cup {e}
         /\ Distinct(s) /\ e \notin Elems(s) => Distinct(Append(s, e))
  <1>1. /\ Append(s, e) \in Seq(S)
        /\ DOMAIN Append(s, e) = 1 .. Len(s) + 1
        /\ DOMAIN s = 1 .. Len(s)
        /\ Len(s) \in Nat
        /\ \A i \in 1 .. Len(s) : Append(s, e)[i] = s[i]
        /\ Append(s, e)[Len(s) + 1] = e
    OBVIOUS
  <1>. DEFINE t == Append(s, e)
              n == Len(s)
  <1>2. /\ DOMAIN t = 1 .. n + 1
        /\ DOMAIN s = 1 .. n
        /\ n \in Nat
        /\ \A i \in 1 .. n : t[i] = s[i]
        /\ t[n + 1] = e
    BY <1>1
  <1>. HIDE DEF t, n
  <1>3. Elems(t) = Elems(s) \cup {e}
    <2>1. ASSUME NEW x \in Elems(t) PROVE x \in Elems(s) \cup {e}
      <3>. PICK i \in 1 .. n + 1 : x = t[i]
        BY <2>1, <1>2 DEF Elems
      <3>1. CASE i = n + 1
        BY <3>1, <1>2
      <3>2. CASE i \in 1 .. n
        BY <3>2, <1>2 DEF Elems
      <3>. QED
        BY <3>1, <3>2, <1>2
    <2>2. ASSUME NEW x \in Elems(s) PROVE x \in Elems(t)
      <3>. PICK i \in 1 .. n : x = s[i]
        BY <2>2, <1>2 DEF Elems
      <3>1. i \in 1 .. n + 1 /\ x = t[i]
        BY <1>2
      <3>. QED
        BY <3>1, <1>2 DEF Elems
    <2>3. e \in Elems(t)
      <3>1. n + 1 \in 1 .. n + 1
        BY <1>2
      <3>. QED
        BY <3>1, <1>2 DEF Elems
    <2>. QED
      BY <2>1, <2>2, <2>3
  <1>4. ASSUME Distinct(s), e \notin Elems(s) PROVE Distinct(t)
    <2>1. \A i \in 1 .. n : t[i] # e
      BY <1>2, <1>4 DEF Elems
    <2>2. \A i, j \in 1 .. n : i # j => t[i] # t[j]
      BY <1>2, <1>4 DEF Distinct
    <2>3. \A i \in 1 .. n + 1 : i \in 1 .. n \/ i = n + 1
      BY <1>2
    <2>. QED
      BY <2>1, <2>2, <2>3, <1>2 DEF Distinct
  <1>. QED
    BY <1>1, <1>3, <1>4 DEF t

(* A call that ends takes itself, and nobody else, from those in progress. *)
LEMMA PopFacts ==
  ASSUME NEW S, NEW s \in Seq(S), s # <<>>, Distinct(s)
  PROVE  /\ s[Len(s)] \in Elems(s)
         /\ s[Len(s)] \in S
         /\ SubSeq(s, 1, Len(s) - 1) \in Seq(S)
         /\ Elems(SubSeq(s, 1, Len(s) - 1)) = Elems(s) \ {s[Len(s)]}
         /\ Distinct(SubSeq(s, 1, Len(s) - 1))
  <1>. DEFINE n == Len(s)
              t == SubSeq(s, 1, n - 1)
  <1>1. /\ n \in Nat \ {0}
        /\ DOMAIN s = 1 .. n
        /\ t \in Seq(S)
        /\ DOMAIN t = 1 .. n - 1
        /\ \A i \in 1 .. n - 1 : t[i] = s[i]
        /\ \A i \in 1 .. n : s[i] \in S
    OBVIOUS
  <1>. HIDE DEF t, n
  <1>2. n \in 1 .. n /\ s[n] \in S
    BY <1>1
  <1>3. Elems(t) = Elems(s) \ {s[n]}
    <2>1. ASSUME NEW x \in Elems(t) PROVE x \in Elems(s) /\ x # s[n]
      <3>. PICK i \in 1 .. n - 1 : x = t[i]
        BY <2>1, <1>1 DEF Elems
      <3>1. i \in 1 .. n /\ i # n /\ x = s[i]
        BY <1>1
      <3>. QED
        BY <3>1, <1>1, <1>2 DEF Elems, Distinct
    <2>2. ASSUME NEW x \in Elems(s), x # s[n] PROVE x \in Elems(t)
      <3>. PICK i \in 1 .. n : x = s[i]
        BY <2>2, <1>1 DEF Elems
      <3>1. i # n
        BY <2>2
      <3>2. i \in 1 .. n - 1 /\ x = t[i]
        BY <3>1, <1>1
      <3>. QED
        BY <3>2, <1>1 DEF Elems
    <2>. QED
      BY <2>1, <2>2
  <1>4. Distinct(t)
    <2>1. \A i \in 1 .. n - 1 : i \in 1 .. n
      BY <1>1
    <2>. QED
      BY <2>1, <1>1 DEF Distinct
  <1>. QED
    BY <1>1, <1>2, <1>3, <1>4 DEF n, t, Elems

-----------------------------------------------------------------------------
(***************************************************************************)
(* What is being released is a unique_ptr within its lifetime that points  *)
(* to an object whose deletion has begun; and while the program runs it is *)
(* released once, as the second release is the end of it.                  *)
(***************************************************************************)
StackInv ==
  /\ TypeOK
  /\ Busy = Elems(stack)
  /\ Busy \subseteq built
  /\ Running => Distinct(stack)
  /\ \A p \in Busy : ptr_[p] \in Object /\ live[ptr_[p]] = NULL

LEMMA InitStackInv == Init => StackInv
  BY PtrAssumption DEF Init, StackInv, TypeOK, Busy, Elems, Distinct, Fatal, Running

(* The calls in progress and their objects are as they were. *)
LEMMA SameStack ==
  ASSUME StackInv, TypeOK', Running, stack' = stack, Busy \subseteq built',
         \A p \in Busy : ptr_'[p] = ptr_[p] /\ live'[ptr_[p]] = NULL
  PROVE  StackInv'
  BY DEF StackInv, Busy, Elems, Distinct

LEMMA NewStackInv ==
  ASSUME StackInv, NEW o \in Object, NEW d \in Deleter, New(o, d)
  PROVE  StackInv'
  <1>1. TypeOK'
    BY DEF New, StackInv, TypeOK
  <1>2. \A p \in Busy : live'[ptr_[p]] = NULL
    BY DEF New, StackInv, TypeOK
  <1>. QED
    BY <1>1, <1>2, SameStack DEF New, StackInv

LEMMA ConstructStackInv ==
  ASSUME StackInv, NEW p \in Ptr, NEW o \in Object \cup {NULL}, NEW d \in Deleter,
         Construct(p, o, d)
  PROVE  StackInv'
  <1>1. TypeOK'
    BY DEF Construct, StackInv, TypeOK
  <1>2. \A q \in Busy : ptr_'[q] = ptr_[q]
    BY DEF Construct, StackInv, TypeOK
  <1>. QED
    BY <1>1, <1>2, SameStack DEF Construct, StackInv

(* A release or a destruction begins: the deleter is called on the pointer. *)
LEMMA CallStackInv ==
  ASSUME StackInv, Running, NEW p \in Ptr, p \in built, ptr_[p] # NULL,
         CallDeleter(p), stack' = Append(stack, p), built' = built,
         dying' \subseteq Ptr, ptr_' = ptr_, mem_' = mem_
  PROVE  StackInv'
  <1>1. ptr_[p] \in Object
    BY DEF StackInv, TypeOK
  <1>2. /\ stack' \in Seq(Ptr)
        /\ Elems(stack') = Elems(stack) \cup {p}
        /\ p \notin Elems(stack) => Distinct(stack')
    BY PushFacts DEF StackInv, TypeOK
  <1>3. live' \in [Object -> Deleter \cup {NULL}] /\ live'[ptr_[p]] = NULL
    BY <1>1 DEF CallDeleter, StackInv, TypeOK
  <1>4. TypeOK'
    BY <1>2, <1>3 DEF CallDeleter, StackInv, TypeOK, Fatal
  <1>5. Busy' = Elems(stack')
    BY DEF Busy, Elems
  <1>6. \A q \in Busy' : ptr_'[q] \in Object /\ live'[ptr_'[q]] = NULL
    BY <1>1, <1>2, <1>3, <1>5 DEF CallDeleter, StackInv, TypeOK
  <1>7. Running' => Distinct(stack')
    <2>1. p \in Busy => outcome' = "deleted_twice"
      <3>1. mem_[p] # NULL
        BY PtrAssumption DEF StackInv, TypeOK
      <3>. QED
        BY <3>1 DEF CallDeleter, StackInv
    <2>. QED
      BY <1>2, <2>1 DEF StackInv, Running, Fatal
  <1>. QED
    BY <1>1, <1>2, <1>4, <1>5, <1>6, <1>7 DEF StackInv

LEMMA ReleaseStackInv ==
  ASSUME StackInv, NEW p \in Ptr, Release(p) \/ Destroy(p) \/ Dereference(p)
  PROVE  StackInv'
  <1>. Running /\ p \in built /\ ptr_' = ptr_ /\ mem_' = mem_
    BY DEF Release, Destroy, Dereference
  <1>1. CASE ptr_[p] # NULL /\ CallDeleter(p) /\ stack' = Append(stack, p)
             /\ built' = built /\ dying' \subseteq Ptr
    BY <1>1, CallStackInv
  <1>2. CASE /\ stack' = stack /\ live' = live /\ loose' = loose /\ dying' = dying
             /\ built' = built \/ (built' = built \ {p} /\ ptr_[p] = NULL)
             /\ outcome' \in {"none", "runtime_error"}
    <2>1. TypeOK'
      BY <1>2 DEF StackInv, TypeOK
    <2>2. Busy \subseteq built'
      BY <1>2, PtrAssumption DEF StackInv
    <2>. QED
      BY <1>2, <2>1, <2>2, SameStack DEF StackInv
  <1>3. CASE Release(p)
    BY <1>1, <1>2, <1>3 DEF Release, StackInv, TypeOK
  <1>4. CASE Destroy(p)
    BY <1>1, <1>2, <1>4 DEF Destroy, StackInv, TypeOK
  <1>5. CASE Dereference(p)
    BY <1>2, <1>5 DEF Dereference
  <1>. QED
    BY <1>3, <1>4, <1>5

LEMMA ReleaseEndsStackInv ==
  ASSUME StackInv, ReleaseEnds
  PROVE  StackInv'
  <1>. DEFINE p == stack[Len(stack)]
  <1>1. /\ p \in Elems(stack) /\ p \in Ptr
        /\ stack' \in Seq(Ptr)
        /\ Elems(stack') = Elems(stack) \ {p}
        /\ Distinct(stack')
    BY PopFacts DEF StackInv, TypeOK, ReleaseEnds
  <1>2. /\ ptr_' = [ptr_ EXCEPT ![p] = NULL]
        /\ built' \in {built, built \ {p}}
        /\ dying' = dying \ {p}
        /\ mem_' = mem_ /\ live' = live /\ loose' = loose /\ outcome' = "none"
    BY DEF ReleaseEnds
  <1>. HIDE DEF p
  <1>3. TypeOK'
    BY <1>1, <1>2 DEF StackInv, TypeOK
  <1>4. Busy' = Elems(stack')
    BY DEF Busy, Elems
  <1>. QED
    BY <1>1, <1>2, <1>3, <1>4 DEF StackInv, TypeOK

LEMMA ReplaceStackInv ==
  ASSUME StackInv, NEW p \in Ptr,
         \/ \E o \in Object \cup {NULL} : Reset(p, o)
         \/ \E q \in Ptr : Swap(p, q) \/ Move(p, q)
  PROVE  StackInv'
  <1>1. CASE \E o \in Object \cup {NULL} : Reset(p, o)
    <2>. PICK o \in Object \cup {NULL} : Reset(p, o)
      BY <1>1
    <2>1. TypeOK'
      BY DEF Reset, StackInv, TypeOK
    <2>. QED
      BY <2>1, SameStack DEF Reset, Usable, StackInv, TypeOK
  <1>2. CASE \E q \in Ptr : Swap(p, q)
    <2>. PICK q \in Ptr : Swap(p, q)
      BY <1>2
    <2>1. TypeOK'
      BY DEF Swap, StackInv, TypeOK
    <2>. QED
      BY <2>1, SameStack DEF Swap, Usable, StackInv, TypeOK
  <1>3. CASE \E q \in Ptr : Move(p, q)
    <2>. PICK q \in Ptr : Move(p, q)
      BY <1>3
    <2>1. TypeOK'
      BY DEF Move, StackInv, TypeOK
    <2>. QED
      BY <2>1, SameStack DEF Move, Usable, StackInv, TypeOK
  <1>. QED
    BY <1>1, <1>2, <1>3

LEMMA NextStackInv ==
  ASSUME StackInv, [Next]_vars
  PROVE  StackInv'
  <1>1. CASE UNCHANGED vars
    BY <1>1 DEF vars, StackInv, TypeOK, Busy, Running
  <1>2. CASE Next
    BY <1>2, NewStackInv, ConstructStackInv, ReleaseStackInv,
       ReleaseEndsStackInv, ReplaceStackInv DEF Next
  <1>. QED
    BY <1>1, <1>2

LEMMA StackInvariant == Spec => []StackInv
  BY InitStackInv, NextStackInv, PTL DEF Spec

(***************************************************************************)
(* The members of every unique_ptr (ft.hpp:256-258) keep their types,      *)
(* whatever the destructors do.                                            *)
(***************************************************************************)
THEOREM TypeCorrect == Spec => []TypeOK
  <1>1. StackInv => TypeOK
    BY DEF StackInv
  <1>. QED
    BY <1>1, StackInvariant, PTL

-----------------------------------------------------------------------------
(***************************************************************************)
(* What a client that resets what it moved from can rely on.  An object    *)
(* the client has not handed over is alive, and owned by nobody.           *)
(***************************************************************************)
LooseApart ==
  \A o \in loose : live[o] # NULL /\ \A p \in built : ptr_[p] # o

OwnerInv == SoleOwner /\ NoDangling /\ LooseApart

LEMMA InitOwnerInv == Init => OwnerInv
  BY DEF Init, OwnerInv, SoleOwner, NoDangling, LooseApart

LEMMA NewOwnerInv ==
  ASSUME StackInv, OwnerInv, NEW o \in Object, NEW d \in Deleter, New(o, d)
  PROVE  OwnerInv'
  <1>1. \A p \in built : ptr_[p] # o
    BY PtrAssumption DEF New, OwnerInv, NoDangling
  <1>2. Busy' = Busy /\ built' = built /\ ptr_' = ptr_
    BY DEF New, Busy
  <1>3. \A x \in Object : live[x] # NULL => live'[x] # NULL
    BY PtrAssumption DEF New, StackInv, TypeOK
  <1>4. live'[o] # NULL
    BY PtrAssumption DEF New, StackInv, TypeOK
  <1>5. SoleOwner'
    BY <1>2 DEF OwnerInv, SoleOwner
  <1>6. NoDangling'
    BY <1>2, <1>3 DEF OwnerInv, NoDangling, StackInv, TypeOK
  <1>7. LooseApart'
    BY <1>1, <1>2, <1>3, <1>4 DEF New, OwnerInv, LooseApart, StackInv, TypeOK
  <1>. QED
    BY <1>5, <1>6, <1>7 DEF OwnerInv

LEMMA ConstructOwnerInv ==
  ASSUME StackInv, OwnerInv, NEW p \in Ptr, NEW o \in Object \cup {NULL},
         NEW d \in Deleter, Construct(p, o, d)
  PROVE  OwnerInv'
  <1>1. /\ ptr_'[p] = o /\ p \notin built /\ built' = built \cup {p}
        /\ \A q \in Ptr \ {p} : ptr_'[q] = ptr_[q]
        /\ Busy' = Busy /\ live' = live /\ loose' = loose \ {o}
        /\ built \subseteq Ptr
    BY DEF Construct, Busy, StackInv, TypeOK
  <1>2. o # NULL => live[o] # NULL /\ \A q \in built : ptr_[q] # o
    BY DEF Construct, Handed, OwnerInv, LooseApart
  <1>3. SoleOwner'
    BY <1>1, <1>2 DEF OwnerInv, SoleOwner
  <1>4. NoDangling'
    BY <1>1, <1>2 DEF OwnerInv, NoDangling
  <1>5. LooseApart'
    BY <1>1 DEF OwnerInv, LooseApart
  <1>. QED
    BY <1>3, <1>4, <1>5 DEF OwnerInv

(* What is deleted by a unique_ptr that is not deleting was alive. *)
LEMMA CallOwnerInv ==
  ASSUME StackInv, OwnerInv, NEW p \in Ptr, p \in built, ptr_[p] # NULL,
         CallDeleter(p), stack' = Append(stack, p), built' = built, ptr_' = ptr_
  PROVE  OwnerInv'
  <1>1. ptr_[p] \in Object
    BY DEF StackInv, TypeOK
  <1>2. Busy' = Busy \cup {p}
    <2>1. Elems(stack') = Elems(stack) \cup {p}
      BY PushFacts DEF StackInv, TypeOK
    <2>. QED
      BY <2>1 DEF Busy, Elems
  <1>3. \A o \in Object \ {ptr_[p]} : live'[o] = live[o]
    BY <1>1 DEF CallDeleter, StackInv, TypeOK
  <1>4. NoDangling'
    <2>. SUFFICES ASSUME NEW q \in built \ Busy, q # p, ptr_[q] # NULL
                  PROVE  live'[ptr_[q]] # NULL
      BY <1>2 DEF NoDangling
    <2>1. ptr_[q] # ptr_[p] /\ ptr_[q] \in Object
      BY <1>1 DEF OwnerInv, SoleOwner, StackInv, TypeOK
    <2>. QED
      BY <1>3, <2>1 DEF OwnerInv, NoDangling
  <1>5. LooseApart'
    BY <1>3 DEF CallDeleter, OwnerInv, LooseApart, StackInv, TypeOK
  <1>. QED
    BY <1>4, <1>5 DEF OwnerInv, SoleOwner

LEMMA ReleaseOwnerInv ==
  ASSUME StackInv, OwnerInv, NEW p \in Ptr, Release(p) \/ Destroy(p) \/ Dereference(p)
  PROVE  OwnerInv'
  <1>. p \in built /\ ptr_' = ptr_
    BY DEF Release, Destroy, Dereference
  <1>1. CASE ptr_[p] # NULL /\ CallDeleter(p) /\ stack' = Append(stack, p)
             /\ built' = built
    BY <1>1, CallOwnerInv
  <1>2. CASE /\ stack' = stack /\ live' = live /\ loose' = loose
             /\ built' \subseteq built
             /\ outcome' \in {"none", "runtime_error"}
    BY <1>2 DEF OwnerInv, SoleOwner, NoDangling, LooseApart, Busy
  <1>. QED
    BY <1>1, <1>2 DEF Release, Destroy, Dereference

LEMMA ReleaseEndsOwnerInv ==
  ASSUME StackInv, OwnerInv, ReleaseEnds
  PROVE  OwnerInv'
  <1>. DEFINE p == stack[Len(stack)]
  <1>1. p \in Elems(stack) /\ p \in Ptr /\ Elems(stack') = Elems(stack) \ {p}
    BY PopFacts DEF StackInv, TypeOK, ReleaseEnds
  <1>2. /\ ptr_' = [ptr_ EXCEPT ![p] = NULL]
        /\ built' \subseteq built
        /\ live' = live /\ loose' = loose /\ outcome' = "none"
    BY DEF ReleaseEnds
  <1>. HIDE DEF p
  <1>3. Busy' = Busy \ {p}
    BY <1>1 DEF Busy, Elems
  <1>4. ptr_'[p] = NULL /\ \A q \in Ptr \ {p} : ptr_'[q] = ptr_[q]
    BY <1>1, <1>2 DEF StackInv, TypeOK
  <1>5. built \subseteq Ptr /\ loose \subseteq Object
    BY DEF StackInv, TypeOK
  <1>6. SoleOwner'
    BY <1>2, <1>4, <1>5 DEF OwnerInv, SoleOwner
  <1>7. NoDangling'
    BY <1>2, <1>3, <1>4, <1>5 DEF OwnerInv, NoDangling
  <1>8. LooseApart'
    BY <1>2, <1>4, <1>5, PtrAssumption DEF OwnerInv, LooseApart
  <1>. QED
    BY <1>6, <1>7, <1>8 DEF OwnerInv

LEMMA ResetOwnerInv ==
  ASSUME StackInv, OwnerInv, NEW p \in Ptr, NEW o \in Object \cup {NULL}, Reset(p, o)
  PROVE  OwnerInv'
  <1>1. /\ ptr_'[p] = o /\ p \in built /\ built' = built
        /\ \A q \in Ptr \ {p} : ptr_'[q] = ptr_[q]
        /\ Busy' = Busy /\ live' = live /\ loose' = loose \ {o}
        /\ built \subseteq Ptr
    BY DEF Reset, Usable, Busy, StackInv, TypeOK
  <1>2. o # NULL => live[o] # NULL /\ \A q \in built : ptr_[q] # o
    BY DEF Reset, Handed, OwnerInv, LooseApart
  <1>3. SoleOwner'
    BY <1>1, <1>2 DEF OwnerInv, SoleOwner
  <1>4. NoDangling'
    BY <1>1, <1>2 DEF OwnerInv, NoDangling
  <1>5. LooseApart'
    BY <1>1 DEF OwnerInv, LooseApart
  <1>. QED
    BY <1>3, <1>4, <1>5 DEF OwnerInv

LEMMA SwapOwnerInv ==
  ASSUME StackInv, OwnerInv, NEW p \in Ptr, NEW q \in Ptr, Swap(p, q)
  PROVE  OwnerInv'
  <1>1. /\ ptr_'[p] = ptr_[q] /\ ptr_'[q] = ptr_[p] /\ p # q
        /\ \A r \in Ptr \ {p, q} : ptr_'[r] = ptr_[r]
        /\ {p, q} \subseteq built \ Busy
        /\ Busy' = Busy /\ live' = live /\ loose' = loose /\ built' = built
        /\ built \subseteq Ptr
    BY DEF Swap, Usable, Busy, StackInv, TypeOK
  <1>2. SoleOwner'
    BY <1>1 DEF OwnerInv, SoleOwner
  <1>3. NoDangling'
    BY <1>1 DEF OwnerInv, NoDangling
  <1>4. LooseApart'
    BY <1>1 DEF OwnerInv, LooseApart
  <1>. QED
    BY <1>2, <1>3, <1>4 DEF OwnerInv

LEMMA MoveOwnerInv ==
  ASSUME Careful, StackInv, OwnerInv, NEW p \in Ptr, NEW q \in Ptr, Move(p, q)
  PROVE  OwnerInv'
  <1>1. /\ ptr_'[q] = ptr_[p] /\ ptr_'[p] = NULL /\ p # q
        /\ \A r \in Ptr \ {p, q} : ptr_'[r] = ptr_[r]
        /\ p \in built \ Busy /\ q \notin Busy
        /\ Busy' = Busy /\ live' = live /\ loose' = loose /\ built' = built \cup {q}
        /\ built \subseteq Ptr /\ loose \subseteq Object
    BY DEF Move, Usable, Busy, StackInv, TypeOK
  <1>2. SoleOwner'
    BY <1>1 DEF OwnerInv, SoleOwner
  <1>3. NoDangling'
    BY <1>1 DEF OwnerInv, NoDangling
  <1>4. LooseApart'
    BY <1>1, PtrAssumption DEF OwnerInv, LooseApart
  <1>. QED
    BY <1>2, <1>3, <1>4 DEF OwnerInv

LEMMA NextOwnerInv ==
  ASSUME Careful, StackInv, OwnerInv, [Next]_vars
  PROVE  OwnerInv'
  <1>1. CASE UNCHANGED vars
    BY <1>1 DEF vars, OwnerInv, SoleOwner, NoDangling, LooseApart, Busy
  <1>2. CASE Next
    BY <1>2, NewOwnerInv, ConstructOwnerInv, ReleaseOwnerInv, ReleaseEndsOwnerInv,
       ResetOwnerInv, SwapOwnerInv, MoveOwnerInv DEF Next
  <1>. QED
    BY <1>1, <1>2

LEMMA OwnerInvariant == Careful => (Spec => []OwnerInv)
  <1>. SUFFICES ASSUME Careful PROVE Spec => []OwnerInv
    OBVIOUS
  <1>1. StackInv /\ OwnerInv /\ [Next]_vars => OwnerInv'
    BY NextOwnerInv
  <1>. QED
    BY <1>1, InitOwnerInv, StackInvariant, PTL DEF Spec

(***************************************************************************)
(* An object is deleted twice only where a destructor releases or destroys *)
(* the unique_ptr that is deleting (ft.hpp:239 before 240), through any    *)
(* nesting of destructors and any swaps that throw, if the client resets   *)
(* what it moved from (ft.hpp:216, 222).                                   *)
(***************************************************************************)
THEOREM DeletedTwiceSafe == Careful => (Spec => DeletedTwiceOnlyReentrant)
  <1>. DEFINE Reentrant == \E p \in Busy : Release(p) \/ Destroy(p)
  <1>. SUFFICES ASSUME Careful PROVE Spec => DeletedTwiceOnlyReentrant
    OBVIOUS
  <1>1. OwnerInv /\ Next /\ outcome' = "deleted_twice" => Reentrant
    <2>. SUFFICES ASSUME OwnerInv, Next, outcome' = "deleted_twice"
                  PROVE  Reentrant
      OBVIOUS
    <2>1. PICK p \in Ptr : Release(p) \/ Destroy(p)
      BY Zenon DEF Next, New, Construct, Dereference, ReleaseEnds, Reset, Swap, Move
    <2>2. p \in built /\ ptr_[p] # NULL /\ live[ptr_[p]] = NULL
      BY <2>1 DEF Release, Destroy, CallDeleter
    <2>3. p \in Busy
      BY <2>2 DEF OwnerInv, NoDangling
    <2>. QED
      BY <2>1, <2>3
  <1>2. OwnerInv /\ [Next]_vars => [outcome' = "deleted_twice" => Reentrant]_vars
    BY <1>1
  <1>. QED
    BY <1>2, OwnerInvariant, PTL DEF Spec, DeletedTwiceOnlyReentrant

(* No two unique_ptrs ever hold the same pointer (ft.hpp:208-259). *)
THEOREM SoleOwnerSafe == Careful => (Spec => []SoleOwner)
  <1>. SUFFICES ASSUME Careful PROVE Spec => []SoleOwner
    OBVIOUS
  <1>1. OwnerInv => SoleOwner
    BY DEF OwnerInv
  <1>. QED
    BY <1>1, OwnerInvariant, PTL

(***************************************************************************)
(* Nor does a unique_ptr hold a pointer to a deleted object, unless its    *)
(* release is between lines 239 and 240 of ft.hpp.                         *)
(***************************************************************************)
THEOREM NoDanglingSafe == Careful => (Spec => []NoDangling)
  <1>. SUFFICES ASSUME Careful PROVE Spec => []NoDangling
    OBVIOUS
  <1>1. OwnerInv => NoDangling
    BY DEF OwnerInv
  <1>. QED
    BY <1>1, OwnerInvariant, PTL

-----------------------------------------------------------------------------
LEMMA LostStep ==
  ASSUME StackInv, [Next]_vars, NEW o \in Object, Lost(o)
  PROVE  Replaced(o)
  <1>. PICK r \in built : ptr_[r] = o
    BY DEF Lost, Owned
  <1>1. r \in Ptr /\ o # NULL
    BY PtrAssumption DEF StackInv, TypeOK
  <1>2. live[o] # NULL /\ live'[o] # NULL /\ (r \notin built' \/ ptr_'[r] # o)
    BY DEF Lost, Owned
  <1>3. CASE r \in built' /\ ptr_' = ptr_
    BY <1>2, <1>3
  <1>4. CASE \E p \in Ptr, x \in Object \cup {NULL}, d \in Deleter : Construct(p, x, d)
    BY <1>1, <1>2, <1>4 DEF Construct, StackInv, TypeOK
  <1>5. CASE \E p \in Ptr : Destroy(p)
    <2>. PICK p \in Ptr : Destroy(p)
      BY <1>5
    <2>1. r # p
      BY <1>1, <1>2 DEF Destroy, CallDeleter, StackInv, TypeOK
    <2>. QED
      BY <2>1, <1>2 DEF Destroy
  <1>6. CASE ReleaseEnds
    <2>1. stack[Len(stack)] \in Busy
      BY <1>6, PopFacts DEF ReleaseEnds, StackInv, TypeOK
    <2>2. r # stack[Len(stack)]
      BY <2>1, <1>2 DEF StackInv
    <2>. QED
      BY <2>2, <1>1, <1>2, <1>6 DEF ReleaseEnds, StackInv, TypeOK
  <1>7. CASE \E p \in Ptr, n \in Object \cup {NULL} : Reset(p, n)
    <2>. PICK p \in Ptr, n \in Object \cup {NULL} : Reset(p, n)
      BY <1>7
    <2>1. r = p
      BY <1>1, <1>2 DEF Reset, StackInv, TypeOK
    <2>. QED
      BY <2>1 DEF Replaced
  <1>8. CASE \E p, q \in Ptr : Swap(p, q)
    <2>. PICK p \in Ptr, q \in Ptr : Swap(p, q)
      BY <1>8
    <2>1. /\ {p, q} \subseteq built /\ built' = built
          /\ ptr_'[p] = ptr_[q] /\ ptr_'[q] = ptr_[p]
          /\ \A x \in Ptr \ {p, q} : ptr_'[x] = ptr_[x]
      BY DEF Swap, Usable, StackInv, TypeOK
    <2>2. o \in Owned'
      BY <2>1, <1>1 DEF Owned
    <2>. QED
      BY <2>2 DEF Lost
  <1>9. CASE \E p, q \in Ptr : Move(p, q)
    <2>. PICK p \in Ptr, q \in Ptr : Move(p, q)
      BY <1>9
    <2>1. /\ p \in built /\ built' = built \cup {q} /\ p # q
          /\ ptr_'[q] = ptr_[p]
          /\ \A x \in Ptr \ {p, q} : ptr_'[x] = ptr_[x]
      BY DEF Move, Usable, StackInv, TypeOK
    <2>2. CASE r = q
      BY <2>2 DEF Replaced
    <2>3. CASE r # q
      <3>1. o \in Owned'
        BY <2>1, <2>3, <1>1 DEF Owned
      <3>. QED
        BY <3>1 DEF Lost
    <2>. QED
      BY <2>2, <2>3
  <1>. QED
    BY <1>3, <1>4, <1>5, <1>6, <1>7, <1>8, <1>9
       DEF Next, vars, New, Release, Dereference

(***************************************************************************)
(* A live object that was owned is lost only by reset (ft.hpp:245) and by  *)
(* move assignment (ft.hpp:222), whatever the client does with what it     *)
(* moved from.                                                             *)
(***************************************************************************)
THEOREM LostOnlyWhenReplacedSafe == Spec => LostOnlyWhenReplaced
  <1>1. StackInv /\ [Next]_vars => [ \A o \in Object : Lost(o) => Replaced(o) ]_vars
    BY LostStep
  <1>. QED
    BY <1>1, StackInvariant, PTL DEF Spec, LostOnlyWhenReplaced

-----------------------------------------------------------------------------
(***************************************************************************)
(* What release() returns (ft.hpp:242) is a pointer to nothing, at every   *)
(* depth of nesting and for every client.                                  *)
(***************************************************************************)
THEOREM ReturnedIsDeletedSafe == Spec => ReturnedIsDeleted
  <1>. DEFINE o == ptr_[stack[Len(stack)]]
  <1>1. StackInv /\ ReleaseEnds => o # NULL /\ live'[o] = NULL
    <2>. SUFFICES ASSUME StackInv, ReleaseEnds
                  PROVE  o # NULL /\ live'[o] = NULL
      OBVIOUS
    <2>1. stack[Len(stack)] \in Busy
      BY PopFacts DEF StackInv, TypeOK, ReleaseEnds
    <2>2. o \in Object /\ live[o] = NULL
      BY <2>1 DEF StackInv
    <2>. QED
      BY <2>2, PtrAssumption DEF ReleaseEnds
  <1>2. StackInv /\ [Next]_vars => [ReleaseEnds => o # NULL /\ live'[o] = NULL]_vars
    BY <1>1
  <1>. QED
    BY <1>2, StackInvariant, PTL DEF Spec, ReturnedIsDeleted

-----------------------------------------------------------------------------
(* The unique_ptrs within their lifetime are finitely many. *)
LEMMA FiniteBuilt == Spec => []IsFiniteSet(built)
  <1>1. Init => IsFiniteSet(built)
    BY FS_EmptySet DEF Init
  <1>2. IsFiniteSet(built) /\ [Next]_vars => IsFiniteSet(built)'
    <2>. SUFFICES ASSUME IsFiniteSet(built), [Next]_vars
                  PROVE  IsFiniteSet(built')
      OBVIOUS
    <2>1. built' \subseteq built \/ \E p : built' \subseteq built \cup {p}
      BY DEF Next, vars, New, Construct, Release, Destroy, Dereference,
             ReleaseEnds, Reset, Swap, Move
    <2>2. \A p : IsFiniteSet(built \cup {p})
      BY FS_AddElement
    <2>. QED
      BY <2>1, <2>2, FS_Subset
  <1>. QED
    BY <1>1, <1>2, PTL DEF Spec

(* Where two elements stand for each other, or drop out, there are no more. *)
LEMMA Exchanged ==
  ASSUME NEW S, NEW T, IsFiniteSet(S), NEW p, NEW q,
         \A x \in T : x # p /\ x # q => x \in S,
         p \in T => q \in S, q \in T => p \in S
  PROVE  ~ (Cardinality(T) > Cardinality(S))
  <1>. DEFINE f == [x \in T |-> IF x = p THEN q ELSE IF x = q THEN p ELSE x]
  <1>1. f \in Injection(T, S)
    BY DEF Injection, IsInjective
  <1>2. IsFiniteSet(T) /\ Cardinality(T) <= Cardinality(S)
    BY <1>1, FS_Injection
  <1>3. Cardinality(T) \in Nat /\ Cardinality(S) \in Nat
    BY <1>2, FS_CardinalityType
  <1>. QED
    BY <1>2, <1>3

LEMMA Fewer ==
  ASSUME NEW S, NEW T, IsFiniteSet(S), T \subseteq S
  PROVE  ~ (Cardinality(T) > Cardinality(S))
  <1>1. IsFiniteSet(T) /\ Cardinality(T) <= Cardinality(S)
    BY FS_Subset
  <1>2. Cardinality(T) \in Nat /\ Cardinality(S) \in Nat
    BY <1>1, FS_CardinalityType
  <1>. QED
    BY <1>1, <1>2

(* What a call leaves alone it does not mispair. *)
LEMMA MispairedFewer ==
  ASSUME StackInv, OwnerInv, NEW p \in Ptr,
         \/ \E o \in Object, d \in Deleter : New(o, d)
         \/ \E o \in Object \cup {NULL}, d \in Deleter : Construct(p, o, d)
         \/ Release(p) \/ Destroy(p) \/ Dereference(p)
         \/ ReleaseEnds
         \/ \E o \in Object \cup {NULL} : Reset(p, o)
  PROVE  Mispaired' \subseteq Mispaired
  <1>. SUFFICES ASSUME NEW x \in Mispaired' PROVE x \in Mispaired
    OBVIOUS
  <1>0. /\ x \in built' /\ x \notin Busy' /\ ptr_'[x] # NULL
        /\ live'[ptr_'[x]] # mem_'[x]
    BY DEF Mispaired
  <1>t. /\ built \subseteq Ptr /\ ptr_ \in [Ptr -> Object \cup {NULL}]
        /\ mem_ \in [Ptr -> Deleter] /\ live \in [Object -> Deleter \cup {NULL}]
    BY DEF StackInv, TypeOK
  <1>1. CASE \E o \in Object, d \in Deleter : New(o, d)
    <2>. PICK o \in Object, d \in Deleter : New(o, d)
      BY <1>1
    <2>1. /\ built' = built /\ Busy' = Busy /\ ptr_' = ptr_ /\ mem_' = mem_
          /\ live[o] = NULL /\ live' = [live EXCEPT ![o] = d]
      BY DEF New, Busy
    <2>2. x \in Ptr /\ ptr_[x] \in Object /\ mem_[x] # NULL
      BY <1>0, <1>t, <2>1, PtrAssumption
    <2>3. live[ptr_[x]] # mem_[x]
      BY <1>0, <1>t, <2>1, <2>2
    <2>. QED
      BY <1>0, <2>1, <2>3 DEF Mispaired
  <1>2. CASE \E o \in Object \cup {NULL}, d \in Deleter : Construct(p, o, d)
    <2>. PICK o \in Object \cup {NULL}, d \in Deleter : Construct(p, o, d)
      BY <1>2
    <2>1. /\ built' = built \cup {p} /\ Busy' = Busy /\ live' = live
          /\ ptr_'[p] = o /\ mem_'[p] = d
          /\ \A q \in Ptr \ {p} : ptr_'[q] = ptr_[q] /\ mem_'[q] = mem_[q]
          /\ o = NULL \/ live[o] = d
      BY <1>t DEF Construct, Handed, Busy
    <2>2. x # p
      BY <1>0, <2>1
    <2>. QED
      BY <1>0, <1>t, <2>1, <2>2 DEF Mispaired
  <1>3. CASE Release(p) \/ Destroy(p)
    <2>1. /\ built' \subseteq built /\ ptr_' = ptr_ /\ mem_' = mem_
          /\ p \in built
      BY <1>3 DEF Release, Destroy
    <2>2. CASE live' = live /\ stack' = stack
      BY <1>0, <2>1, <2>2 DEF Mispaired, Busy
    <2>3. CASE /\ live' = [live EXCEPT ![ptr_[p]] = NULL]
               /\ stack' = Append(stack, p) /\ ptr_[p] # NULL
      <3>1. Busy' = Busy \cup {p}
        <4>1. Elems(stack') = Elems(stack) \cup {p}
          BY <2>3, PushFacts DEF StackInv, TypeOK
        <4>. QED
          BY <4>1 DEF Busy, Elems
      <3>2. x # p /\ x \in built /\ x \notin Busy
        BY <1>0, <2>1, <3>1
      <3>3. ptr_[x] # ptr_[p]
        BY <1>0, <2>1, <3>2 DEF OwnerInv, SoleOwner
      <3>4. ptr_[x] \in Object /\ live'[ptr_[x]] = live[ptr_[x]]
        BY <1>0, <1>t, <2>1, <2>3, <3>2, <3>3
      <3>. QED
        BY <1>0, <2>1, <3>2, <3>4 DEF Mispaired
    <2>. QED
      BY <1>3, <2>2, <2>3 DEF Release, Destroy, CallDeleter
  <1>4. CASE Dereference(p)
    BY <1>4, <1>0 DEF Dereference, Mispaired, Busy
  <1>5. CASE ReleaseEnds
    <2>. DEFINE q == stack[Len(stack)]
    <2>1. /\ q \in Ptr /\ Elems(stack') = Elems(stack) \ {q}
      BY <1>5, PopFacts DEF StackInv, TypeOK, ReleaseEnds
    <2>2. /\ built' \subseteq built /\ live' = live /\ mem_' = mem_
          /\ ptr_' = [ptr_ EXCEPT ![q] = NULL]
      BY <1>5 DEF ReleaseEnds
    <2>3. x # q
      BY <1>0, <1>t, <2>1, <2>2
    <2>4. x \notin Busy
      BY <1>0, <2>1, <2>3 DEF Busy, Elems
    <2>. HIDE DEF q
    <2>. QED
      BY <1>0, <1>t, <2>2, <2>3, <2>4 DEF Mispaired
  <1>6. CASE \E o \in Object \cup {NULL} : Reset(p, o)
    <2>. PICK o \in Object \cup {NULL} : Reset(p, o)
      BY <1>6
    <2>1. /\ built' = built /\ Busy' = Busy /\ live' = live /\ mem_' = mem_
          /\ ptr_'[p] = o /\ \A q \in Ptr \ {p} : ptr_'[q] = ptr_[q]
          /\ o = NULL \/ live[o] = mem_[p]
      BY <1>t DEF Reset, Handed, Busy
    <2>2. x # p
      BY <1>0, <2>1
    <2>. QED
      BY <1>0, <1>t, <2>1, <2>2 DEF Mispaired
  <1>. QED
    BY <1>1, <1>2, <1>3, <1>4, <1>5, <1>6

(* The pairs change places, or one moves and its source is left empty. *)
LEMMA MispairedExchanged ==
  ASSUME Careful, StackInv, IsFiniteSet(Mispaired), NEW p \in Ptr, NEW q \in Ptr,
         \/ Swap(p, q) /\ outcome' = "none"
         \/ Move(p, q)
  PROVE  ~ (Cardinality(Mispaired') > Cardinality(Mispaired))
  <1>t. /\ built \subseteq Ptr /\ ptr_ \in [Ptr -> Object \cup {NULL}]
        /\ mem_ \in [Ptr -> Deleter]
    BY DEF StackInv, TypeOK
  <1>1. /\ Busy' = Busy /\ live' = live /\ p # q /\ built' = built \cup {q}
        /\ p \in built /\ p \notin Busy
        /\ ptr_'[q] = ptr_[p] /\ mem_'[q] = mem_[p]
        /\ \A x \in Ptr \ {p, q} : ptr_'[x] = ptr_[x] /\ mem_'[x] = mem_[x]
    BY <1>t DEF Swap, Move, Usable, Busy
  <1>2. \/ ptr_'[p] = NULL
        \/ q \in built /\ q \notin Busy /\ ptr_'[p] = ptr_[q] /\ mem_'[p] = mem_[q]
    BY <1>t DEF Swap, Move, Usable
  <1>3. \A x \in Mispaired' : x # p /\ x # q => x \in Mispaired
    BY <1>t, <1>1 DEF Mispaired
  <1>4. p \in Mispaired' => q \in Mispaired
    BY <1>1, <1>2 DEF Mispaired
  <1>5. q \in Mispaired' => p \in Mispaired
    BY <1>1 DEF Mispaired
  <1>. HIDE DEF Mispaired
  <1>. QED
    BY <1>3, <1>4, <1>5, Exchanged

(***************************************************************************)
(* A pointer comes to a deleter that does not suit it only in a swap that  *)
(* throws half way (ft.hpp:249), if the client resets what it moved from:  *)
(* every other call leaves no more such pairs than there were.             *)
(***************************************************************************)
THEOREM MispairedSafe == Careful => (Spec => MispairedOnlyByFailedSwap)
  <1>. SUFFICES ASSUME Careful PROVE Spec => MispairedOnlyByFailedSwap
    OBVIOUS
  <1>. DEFINE Fails == Cardinality(Mispaired') > Cardinality(Mispaired) => outcome' = "moved"
  <1>1. ASSUME StackInv, OwnerInv, IsFiniteSet(built), Next
        PROVE  Fails
    <2>1. IsFiniteSet(Mispaired)
      <3>1. Mispaired \subseteq built
        BY DEF Mispaired
      <3>. QED
        BY <1>1, <3>1, FS_Subset
    <2>2. ASSUME Mispaired' \subseteq Mispaired
          PROVE  Fails
      BY <2>1, <2>2, Fewer
    <2>3. CASE \E p, q \in Ptr : Swap(p, q) \/ Move(p, q)
      <3>. PICK p \in Ptr, q \in Ptr : Swap(p, q) \/ Move(p, q)
        BY <2>3
      <3>1. \/ outcome' = "moved"
            \/ Swap(p, q) /\ outcome' = "none"
            \/ Move(p, q)
        BY DEF Swap
      <3>. QED
        BY <1>1, <2>1, <3>1, MispairedExchanged
    <2>4. CASE \E p \in Ptr, o \in Object \cup {NULL}, d \in Deleter : Construct(p, o, d)
      BY <1>1, <2>2, <2>4, MispairedFewer
    <2>5. CASE \E p \in Ptr : Release(p) \/ Destroy(p) \/ Dereference(p)
      BY <1>1, <2>2, <2>5, MispairedFewer
    <2>6. CASE \E p \in Ptr, o \in Object \cup {NULL} : Reset(p, o)
      BY <1>1, <2>2, <2>6, MispairedFewer
    <2>7. CASE ReleaseEnds
      <3>1. stack[Len(stack)] \in Ptr
        BY <1>1, <2>7, PopFacts DEF StackInv, TypeOK, ReleaseEnds
      <3>. QED
        BY <1>1, <2>2, <2>7, <3>1, MispairedFewer
    <2>8. CASE \E o \in Object, d \in Deleter : New(o, d)
      <3>1. CASE Ptr = {}
        <4>1. built' = {}
          BY <1>1, <2>8, <3>1 DEF StackInv, TypeOK, New
        <4>2. Mispaired' = {}
          BY <4>1 DEF Mispaired
        <4>. QED
          BY <2>2, <4>2
      <3>2. CASE \E p : p \in Ptr
        BY <1>1, <2>2, <2>8, <3>2, MispairedFewer
      <3>. QED
        BY <3>1, <3>2
    <2>. QED
      BY <1>1, <2>3, <2>4, <2>5, <2>6, <2>7, <2>8 DEF Next
  <1>2. StackInv /\ OwnerInv /\ IsFiniteSet(built) /\ [Next]_vars =>
          [Cardinality(Mispaired') > Cardinality(Mispaired) => outcome' = "moved"]_vars
    BY <1>1
  <1>. QED
    BY <1>2, StackInvariant, OwnerInvariant, FiniteBuilt, PTL
       DEF Spec, MispairedOnlyByFailedSwap
=============================================================================
