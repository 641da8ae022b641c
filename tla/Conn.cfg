\* An application goroutine, writeQueue's worker and a sequential ReadLoop.
SPECIFICATION Spec
CONSTANTS
    Callers = {a}
    Worker = w
    ReadLoop = r
    Handlers = {}
    Nobody = nobody
    NoErr = noErr
    Ops = {"message", "file", "close", "deadline", "broadcast"}
    Reasons = {2, 24}
    WriteMaxPayloadSize = 16
    MaxCalls = 3
    MaxReads = 1
    MaxSegments = 3
INVARIANTS TypeOK CloseIsLast OneCloser GracefulClose OnCloseError SegmentsContiguous TornIsClosed
PROPERTY EvStoredOnce
CHECK_DEADLOCK FALSE
