\* One metric and variants of it, tags that change meanwhile, a worker.
SPECIFICATION Spec
CONSTANTS
    App = {a1, a2}
    Workers = {w1}
    map = map
    mode = mode
    v = v
    TagKeys = {map, mode}
    MetricValues = {v}
    Invalid = invalid
    GlobalValues = {g}
    None = none
    NewTags <- SomeTags
    TagArgs <- SomeArgs
    MaxMetrics = 2
    MaxValues = 2
    MaxChanges = 1
INVARIANTS
    TypeOK
    ReportedTagsAreSettled
    StatisticsKeepApart
    SentIsCounted
SYMMETRY Symmetry
CHECK_DEADLOCK FALSE
