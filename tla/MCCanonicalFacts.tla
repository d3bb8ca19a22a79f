--------------------------- MODULE MCCanonicalFacts ---------------------------
(* CanonicalFacts with calls and values that TLC may permute.              *)
EXTENDS CanonicalFacts, TLC

CONSTANTS c1, c2, c3, c4, home, away

Alike == Permutations(Calls) \cup Permutations(Values)

=============================================================================
