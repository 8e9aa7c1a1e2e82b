\* Two calls of InitMetrics, two lives of the SDK, one handler at a time.
SPECIFICATION Spec
CONSTANTS
    Inits = {i1, i2}
    Handlers = {h1}
    None = none
    MaxLives = 2
    MaxSessions = 2
INVARIANTS
    TypeOK
    WinnerOwnsProcessor
    SessionIsReported
    ProcessorFollowsFactory
CHECK_DEADLOCK FALSE
