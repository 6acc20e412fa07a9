----------------------------- MODULE Selections -----------------------------
(***************************************************************************)
(* Parts of sequences by their places.                                     *)
(***************************************************************************)
EXTENDS Naturals, FiniteSets, Sequences

\* What is at the places I of s, in its order.
Keep(s, I) ==
    LET rank == [i \in I |-> Cardinality({j \in I : j <= i})]
    IN  [k \in 1..Cardinality(I) |-> s[CHOOSE i \in I : rank[i] = k]]
=============================================================================
