SPECIFICATION BroadcastSpec
CONSTANTS
    Sockets = {s1, s2, s3}
    MaxInt32 = 2
INVARIANTS FrameAlive OneFrees
PROPERTY FramesFreed
