\* Pings with a payload, every broadcast frame compressed.
SPECIFICATION Spec
CONSTANTS
    Bytes = {0, 1}
    Payloads <- SmallPayloads
    PingPayloads <- SmallPayloads
    size = 2
    Threshold = 2
    BroadcastThreshold = 0
    MaxWrites = 2
INVARIANT DictMaintained
CHECK_DEADLOCK FALSE
