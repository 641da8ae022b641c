SPECIFICATION Spec
CONSTANTS
    Conns = {"c1", "c2"}
    MayStall = {"c2"}
    Calls <- MCCalls
    PoolSize = 1
    Pieces = 1
CHECK_DEADLOCK FALSE
INVARIANT OwnBytes
PROPERTY StallIsLocal
