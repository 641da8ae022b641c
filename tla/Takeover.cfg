\* With and without context takeover; pings with a payload; the frame of a
\* broadcast may come from a socket without takeover.
SPECIFICATION Spec
CONSTANTS
    Bytes = {0, 1}
    Payloads <- SmallPayloads
    PingPayloads <- SmallPayloads
    size = 3
    Threshold = 2
    BroadcastThreshold = 2
    MaxWrites = 3
INVARIANTS WindowIsTail DictInSync Decodable
CHECK_DEADLOCK FALSE
