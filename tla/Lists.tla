------------------------------- MODULE Lists -------------------------------
(***************************************************************************)
(* What arrays do in the browser and in the server: filter, and sort by an *)
(* order in which no two elements are alike.                               *)
(***************************************************************************)
EXTENDS Integers, FiniteSets, Sequences, SequencesExt

\* The elements of the list at the given places, in their order.
KeepPlaces(list, places) ==
    FlattenSeq([k \in DOMAIN list |-> IF k \in places THEN <<list[k]>> ELSE <<>>])

\* The elements of the list that are in S, in their order.
Only(list, S) == KeepPlaces(list, {k \in DOMAIN list : list[k] \in S})

\* The list has each element of S once, in the order of the set of pairs R.
Arranges(list, S, R) ==
    /\ \A k \in DOMAIN list : list[k] \in S
    /\ \A x \in S : \E k \in DOMAIN list : list[k] = x
    /\ \A i, j \in DOMAIN list : i < j => <<list[i], list[j]>> \in R

Sorted(S, R) == CHOOSE list \in [1 .. Cardinality(S) -> S] : Arranges(list, S, R)
=============================================================================
