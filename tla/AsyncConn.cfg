\* Two asynchronous writes and a broadcast job against a caller that closes.
SPECIFICATION AsyncSpec
CONSTANTS
    Callers = {a}
    Worker = w
    ReadLoop = r
    Handlers = {}
    Nobody = nobody
    NoErr = noErr
    Ops = {"close"}
    Reasons = {200}
    WriteMaxPayloadSize = 125
    MaxCalls = 1
    MaxReads = 0
    MaxSegments = 1
    Jobs = {j1, j2, b1}
    maxConcurrency = 1
    Writes = {j1, j2}
    Broadcasts = {b1}
INVARIANTS FIFO CounterExact NoStrandedJob AsyncPrefix

PROPERTIES CallbackRuns ImplementsExecutor
CHECK_DEADLOCK FALSE
