----------------------------- MODULE MCPipeline -----------------------------
(* Model-checking instance of Pipeline: interchangeable model values.      *)
EXTENDS Pipeline, TLC

Symmetry == Permutations(Reports) \cup Permutations(Reporters)
=============================================================================
