\* Two workers, two controllers, a restart: what becomes of a message.
SPECIFICATION Spec
CONSTANTS
    Callers = {c1}
    Controllers = {k1, k2}
    Workers = {w1, w2}
    NoOne = NoOne
    NoMessage = NoMessage
    IngressSize = 1
    BufferSize = 1
    BatchCap = 1
    MaxMessages = 3
    MaxStarts = 2
    Cancellable = TRUE
INVARIANTS TypeOK NothingVanishes NothingTwice StoppedIsReusable
CHECK_DEADLOCK FALSE
SYMMETRY GoroutineSymmetry
