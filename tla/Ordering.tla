-------------------------------- MODULE Ordering --------------------------------
(***************************************************************************)
(* Sorting and filtering by rank: the sequences that ORDER BY, WHERE and    *)
(* LIMIT make of a set or of a sequence, defined without recursion.         *)
(***************************************************************************)
EXTENDS Naturals, FiniteSets, Sequences

(* The place of x among S, when R holds <<y, x>> for every y before x.     *)
Place(S, R, x) == Cardinality({y \in S : y = x \/ <<y, x>> \in R})

(* S as a sequence, in the order R.                                        *)
Ordered(S, R) == [n \in 1..Cardinality(S) |-> CHOOSE x \in S : Place(S, R, x) = n]

(* The nth of a set of numbers, the least first.                           *)
Nth(K, n) == CHOOSE k \in K : Cardinality({j \in K : j <= k}) = n

(* The elements of s at the positions K, in the order of s.                *)
At(s, K) == [n \in 1..Cardinality(K) |-> s[Nth(K, n)]]

(* The first n elements of s, or all.                                      *)
Top(s, n) == SubSeq(s, 1, IF n < Len(s) THEN n ELSE Len(s))
=================================================================================
