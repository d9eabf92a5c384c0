----------------------------- MODULE Subsequences -----------------------------
(***************************************************************************)
(* The elements of a sequence at some of its positions, in their order.    *)
(* It computes what SelectSeq does, without its recursion, so that it can  *)
(* be reasoned about: the k-th element is the one whose position has k     *)
(* chosen positions up to and including itself.                            *)
(***************************************************************************)
EXTENDS Naturals, Sequences, FiniteSets

Rank(positions, i) == Cardinality({j \in positions : j <= i})

Subsequence(s, positions) ==
  [k \in 1..Cardinality(positions) |-> s[CHOOSE i \in positions : Rank(positions, i) = k]]
===============================================================================
