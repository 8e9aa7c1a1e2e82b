\* Two setters and two workers: what an emission accounts for.
SPECIFICATION Spec
CONSTANTS
    Setters = {s1, s2}
    Workers = {w1, w2}
    Nobody = Nobody
    Nil = Nil
    Type = "counter"
    Values = {0, 4}
    Sampler = "fraction"
    Lists <- AllKinds
    Percentiles = {0, 300, 999, 1000}
    MaxSets = 3
INVARIANTS TypeOK CountedOnce EmissionIsExact
SYMMETRY GoroutineSymmetry
CHECK_DEADLOCK FALSE
