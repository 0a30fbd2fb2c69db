----------------------------- MODULE MCPipeline -----------------------------
(* Instances of TickPipeline for TLC.                                      *)
EXTENDS TickPipeline, TLC

CONSTANTS c1, c2

OneCombination == {c1}
TwoCombinations == {c1, c2}

(* Two combinations are checked and collected alike.                       *)
Symmetry == Permutations(Combinations)
=============================================================================
