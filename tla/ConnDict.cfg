\* ReadLoop ends while a writer is inside the mutex.
SPECIFICATION Spec
CONSTANTS
    Callers = {a}
    Worker = w
    ReadLoop = r
    Handlers = {}
    Nobody = nobody
    NoErr = noErr
    Ops = {"message", "close"}
    Reasons = {2}
    WriteMaxPayloadSize = 125
    MaxCalls = 2
    MaxReads = 1
    MaxSegments = 2
INVARIANT DictNotShared
CHECK_DEADLOCK FALSE
