------------------------------- MODULE Places -------------------------------
(***************************************************************************)
(* The part of a sequence at some of its places, for the definitions that  *)
(* say what the passes over a line, a path or a list of paths yield.        *)
(***************************************************************************)
EXTENDS Naturals, FiniteSets

Nth(S, n) == CHOOSE k \in S : Cardinality({l \in S : l < k}) = n - 1

\* What s has at the places in S, in their order.
At(s, S) == [n \in 1 .. Cardinality(S) |-> s[Nth(S, n)]]
=============================================================================
