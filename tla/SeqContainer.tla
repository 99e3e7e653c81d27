---------------------------- MODULE SeqContainer ----------------------------
(***************************************************************************)
(* What ft::vector promises to somebody who cannot see its buffer: every   *)
(* vector is a sequence of values, and every call is one of the steps      *)
(* below or, when it throws or changes nothing, no step at all.            *)
(*                                                                         *)
(* Two steps are weaker than their names in the standard library suggest,  *)
(* because the code is: Extend may add more than it was asked for          *)
(* (include/vector.hpp:224 fills up to the capacity) and Overwrite does    *)
(* not change the length (include/vector.hpp:107-110).                     *)
(***************************************************************************)
EXTENDS Integers, SequencesExt

CONSTANTS
  Vec,    \* the vectors
  Value,  \* the values an element can have
  Count,  \* the element counts a client passes
  MaxLen  \* the most elements a vector can have

VARIABLES
  alive,   \* the vectors within their lifetime
  content  \* the elements of each vector; empty outside its lifetime

seqVars == <<alive, content>>

Copies(n, x) == [i \in 1 .. n |-> x]

Init ==
  /\ alive = {}
  /\ content = [v \in Vec |-> <<>>]

Build(v, s) ==
  /\ v \notin alive
  /\ alive' = alive \cup {v}
  /\ content' = [content EXCEPT ![v] = s]

Unbuild(v) ==
  /\ v \in alive
  /\ alive' = alive \ {v}
  /\ content' = [content EXCEPT ![v] = <<>>]

(* Every other step gives a vector a new sequence. *)
Becomes(v, s) ==
  /\ v \in alive
  /\ content' = [content EXCEPT ![v] = s]
  /\ UNCHANGED alive

Append1(v, x) == Becomes(v, Append(content[v], x))

DropLast(v) == content[v] # <<>> /\ Becomes(v, Front(content[v]))

Truncate(v, n) == n <= Len(content[v]) /\ Becomes(v, SubSeq(content[v], 1, n))

(* At least up to n elements; how many more is not said. *)
Extend(v, n, x) ==
  \E more \in 1 .. MaxLen :
    /\ Len(content[v]) + more >= n
    /\ Becomes(v, content[v] \o Copies(more, x))

Refill(v, n, x) == Becomes(v, Copies(n, x))

Overwrite(v, x) == Becomes(v, Copies(Len(content[v]), x))

Update(v, i, x) == i \in DOMAIN content[v] /\ Becomes(v, ReplaceAt(content[v], i, x))

Exchange(v, w) ==
  /\ {v, w} \subseteq alive
  /\ content' = [content EXCEPT ![v] = content[w], ![w] = content[v]]
  /\ UNCHANGED alive

Next ==
  \E v \in Vec :
    \/ \E n \in Count \cup {0} : \E s \in [1 .. n -> Value] : Build(v, s)
    \/ Unbuild(v)
    \/ \E x \in Value : Append1(v, x)
    \/ DropLast(v)
    \/ \E n \in Count \cup {0} : Truncate(v, n)
    \/ \E n \in Count, x \in Value : Extend(v, n, x) \/ Refill(v, n, x)
    \/ \E x \in Value : Overwrite(v, x)
    \/ \E x \in Value : \E i \in DOMAIN content[v] : Update(v, i, x)
    \/ \E w \in Vec : Exchange(v, w)

Spec == Init /\ [][Next]_seqVars
=============================================================================
