------------------------------ MODULE Picking ------------------------------
(* Picking elements out of a sequence by their places.                     *)
EXTENDS Integers, Sequences, FiniteSets

\* What s has at the places S, in order: at k what is at the place with k of
\* them up to it.
Picked(s, S) ==
  [k \in 1..Cardinality(S) |->
     s[CHOOSE i \in S : Cardinality({j \in S : j <= i}) = k]]
=============================================================================
