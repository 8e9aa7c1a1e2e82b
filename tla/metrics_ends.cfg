\* One worker, a restart: messages are settled in their order, Stop returns.
SPECIFICATION FairSpec
CONSTANTS
    Callers = {c1}
    Controllers = {k1}
    Workers = {w1}
    NoOne = NoOne
    NoMessage = NoMessage
    IngressSize = 2
    BufferSize = 1
    BatchCap = 2
    MaxMessages = 3
    MaxStarts = 2
    Cancellable = TRUE
INVARIANT OneWorkerKeepsOrder
PROPERTIES StopReturns EveryMessageSettles
CHECK_DEADLOCK FALSE
