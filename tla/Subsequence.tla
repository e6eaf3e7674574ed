------------------------------ MODULE Subsequence ------------------------------
(***************************************************************************)
(* Python's "[x for x in queue if ...]" as an operator that the provers    *)
(* can expand, which SelectSeq is not.                                     *)
(***************************************************************************)
EXTENDS Integers, Sequences, FiniteSets

\* The elements of s at the positions in chosen, in their order.
Subsequence(s, chosen) ==
    LET Rank(i) == Cardinality({j \in chosen : j <= i})
    IN [k \in 1 .. Cardinality(chosen) |-> s[CHOOSE i \in chosen : Rank(i) = k]]
=============================================================================
