---------------------------- MODULE VectorAsSeq ----------------------------
(***************************************************************************)
(* ft::vector implements SeqContainer: whatever the buffer does, a client  *)
(* that looks only through size(), operator[] and the like sees sequences. *)
(* This is so as long as no assignment throws and no call is given an      *)
(* element of its own vector by reference.                                 *)
(***************************************************************************)
EXTENDS Vector

(* What can be read of a vector: the elements below size_ *)
Elements(v) == [i \in 1 .. size_[v] |-> Element(v, i - 1)]

Contents == [v \in Vec |-> Elements(v)]

Abstract == INSTANCE SeqContainer WITH content <- Contents

(* Every step of the vector is a step of the sequence, or invisible. *)
IsSequence == Abstract!Spec
=============================================================================
