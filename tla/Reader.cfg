SPECIFICATION Spec
CONSTANTS
    isServer = TRUE
    Enabled = TRUE
    CheckUtf8Enabled = TRUE
    Byte = 12
    ReadMaxPayloadSize = 144
    Inputs <- AllFrames
    MaxFrames = 4
INVARIANTS Reassembly InSync TextIsValid WithinLimit CloseCodeSendable
CHECK_DEADLOCK FALSE
