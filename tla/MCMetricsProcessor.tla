------------------------ MODULE MCMetricsProcessor ------------------------
(* MetricsProcessor for TLC: the workers are interchangeable, and so are the *)
(* controllers.                                                              *)
EXTENDS MetricsProcessor, TLC

GoroutineSymmetry == Permutations(Workers) \union Permutations(Controllers)
=============================================================================
