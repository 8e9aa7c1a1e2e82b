-------------------------- MODULE MCDerivedMetrics --------------------------
(* DerivedMetrics for TLC: the derived metrics of the instances; the setters *)
(* are interchangeable, and so are the workers.                              *)
EXTENDS DerivedMetrics, TLC

MeanAndMax == <<"mean", "max">>
NoList == {<<>>}
AllKinds == {MeanAndMax, <<"percentile">>, <<"latest">>, <<"min">>}

GoroutineSymmetry == Permutations(Setters) \union Permutations(Workers)
=============================================================================
