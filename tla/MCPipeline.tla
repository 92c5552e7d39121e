----------------------------- MODULE MCPipeline -----------------------------
(* Instances of Pipeline for TLC.                                          *)
EXTENDS Pipeline, TLC

Interchangeable == Permutations(Attempts) \cup Permutations(Owners)
=============================================================================
