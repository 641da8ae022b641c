---------------------------- MODULE MCFileWriter ----------------------------
(* FileWriter with the size classes of its pool checked against the bits:  *)
(* BufferPool's BinaryCeil is what binaryCeil computes, for every uint32.  *)
EXTENDS FileWriter

Bits == INSTANCE BinaryCeil

ASSUME CeilAssumption == \A v \in 0..(2^Width - 1) : BinaryCeil(v) = Bits!binaryCeil(v)
=============================================================================
