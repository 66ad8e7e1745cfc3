-------------------------------- MODULE Ranks --------------------------------
(***************************************************************************)
(* What stays of a sequence when a pass keeps some of its positions: the   *)
(* positions close ranks, in order.  The linker copies the items that are  *)
(* new this way, dead code elimination the ones that are used.             *)
(***************************************************************************)
EXTENDS Integers, Sequences, FiniteSets

\* The place that position i takes among the positions kept.
Rank(keep, i) == Cardinality({j \in keep : j <= i})

\* The elements of s at the positions kept.
Kept(s, keep) ==
    [n \in 1..Cardinality(keep) |-> s[CHOOSE i \in keep : Rank(keep, i) = n]]
=============================================================================
