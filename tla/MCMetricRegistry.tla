--------------------------- MODULE MCMetricRegistry ---------------------------
(***************************************************************************)
(* Constants of MetricRegistry that a .cfg cannot write.                   *)
(***************************************************************************)
EXTENDS MetricRegistry, TLC

CONSTANTS map, mode, v

Symmetry == Permutations(App)

SomeTags == {map :> v}

\* Two tags at once, both valid, so that SetTags may be half done; or one that
\* ends the call, before or after it has set the other.
SomeArgs == {(map :> v) @@ (mode :> v), (map :> v) @@ (mode :> Invalid)}

=============================================================================
