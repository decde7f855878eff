------------------------------ MODULE Selection ------------------------------
(***************************************************************************)
(* The members of a sequence at some of its positions, in order. The       *)
(* positions are given as a set, so that facts about them are facts about  *)
(* finite sets.                                                            *)
(***************************************************************************)
EXTENDS Naturals, FiniteSets

\* Which one of the positions i is.
Rank(positions, i) == Cardinality({j \in positions : j <= i})

Select(s, positions) ==
  [n \in 1..Cardinality(positions) |-> s[CHOOSE i \in positions : Rank(positions, i) = n]]
=============================================================================
