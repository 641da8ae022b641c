\* Parallel OnMessage with one slot; every operation, under the full fairness.
SPECIFICATION Spec
CONSTANTS
    Callers = {}
    Worker = w
    ReadLoop = r
    Handlers = {h}
    Nobody = nobody
    NoErr = noErr
    Ops = {"message", "file", "broadcast", "close", "deadline"}
    Reasons = {24}
    WriteMaxPayloadSize = 16
    MaxCalls = 2
    MaxReads = 2
    MaxSegments = 2
PROPERTIES CloseCompletes CallsReturn
CHECK_DEADLOCK FALSE
