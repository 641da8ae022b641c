SPECIFICATION Spec
CONSTANTS
    Buf = {1, 2, 3, 4, 5, 6}
    Width = 6
    Left = 2
    Right = 16
    SegmentSize = 8
    HeaderSize = 2
    WriteMaxPayloadSize = 7
    ChunkSizes = {0, 3, 7, 8}
    PieceSizes = {3, 4}
    ReadSizes = {6, 32}
    MaxBytes = 14
INVARIANTS FileIntact OneMessage Exclusive RoomToRead TwoSegments
