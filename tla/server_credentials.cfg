\* Two lives of the SDK on and off a container, two calls that overlap.
SPECIFICATION Spec
CONSTANTS
    Parameters <- SomeParameters
    Environments <- SomeEnvironments
    ComputeTypes = {"EC2", "CONTAINER"}
    Credentials <- SomeCredentials
    Jitters = {"default", "zero"}
    MaxInits = 2
    Callers = {c1, c2}
    Roles = {"r1"}
    SessionNames = {"", "s1", "invalid"}
    TTL = 1
    Lifetimes = {3}
    MaxTime = 2
    MaxCalls = 2
SYMMETRY CallerSymmetry
INVARIANTS TypeOK ConnectionIsOfOneInit ValidatedCanBeSigned
PROPERTY GoodEntriesAreNotDeleted
CHECK_DEADLOCK FALSE
