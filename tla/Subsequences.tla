----------------------------- MODULE Subsequences -----------------------------
(***************************************************************************)
(* What a list comprehension with a condition makes of a list: the         *)
(* elements at some of its places, in their order.  It is stated by the    *)
(* enumeration of the places, which a proof can reason about; for a test   *)
(* of the elements SelectSeq is the same.                                  *)
(***************************************************************************)
EXTENDS Integers, Sequences, FiniteSets

\* The enumeration of a finite set of numbers from the least to the greatest.
InOrder(places) ==
    {f \in [1..Cardinality(places) -> places] :
        /\ \A j, k \in DOMAIN f : j < k => f[j] < f[k]
        /\ \A i \in places : \E k \in DOMAIN f : f[k] = i}

\* The sequence of what s has at these places.  It is given as a set of one.
Selections(s, places) == {[k \in DOMAIN f |-> s[f[k]]] : f \in InOrder(places)}

=============================================================================
