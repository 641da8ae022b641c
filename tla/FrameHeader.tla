---------------------------- MODULE FrameHeader ----------------------------
(***************************************************************************)
(* The frame header on the wire (types.go: frameHeader with its getters,   *)
(* SetLength, GenerateHeader, Parse), masking (internal/utils.go: MaskXOR) *)
(* and the frame genFrame puts together from both (writer.go).             *)
(*                                                                         *)
(* A header is the array of 14 bytes of the code, indexed from 1.  The     *)
(* first byte has its eight bits; the bytes that hold the mask bit and the *)
(* length have Byte values, 256 in the code, and everything the code       *)
(* derives from 256 is derived from Byte here, so that a small Byte brings *)
(* the long lengths within reach of short frames.  One bit stands for the  *)
(* byte of a payload or of a mask key: XOR treats each bit alike.          *)
(***************************************************************************)
EXTENDS Integers, Sequences

CONSTANT Byte       \* number of values of a byte: 256

ASSUME ByteAssumption == Byte \in Nat /\ Byte >= 8 /\ Byte % 2 = 0

Bit7        == Byte \div 2          \* the mask bit: 128
ThresholdV1 == Bit7 - 3             \* the longest length in the second byte: 125
Code16      == Bit7 - 2             \* the length is in the next 2 bytes: 126
Code64      == Bit7 - 1             \* or in the next 8: 127
ThresholdV2 == Byte * Byte - 1      \* 65535

Bits   == 0..1
Keys   == [1..4 -> Bits]
Header == [1..14 -> 0..255]
ZeroHeader == [i \in 1..14 |-> 0]

(* The lengths that an int holds: half of the values of eight bytes. *)
IntLength(n) == n \in Nat /\ n < Bit7 * Byte * Byte * Byte * Byte * Byte * Byte * Byte

-----------------------------------------------------------------------------
(* The getters. *)
GetFIN(h)    == h[1] \div 128 = 1
GetRSV1(h)   == (h[1] % 128) \div 64 = 1
GetRSV2(h)   == (h[1] % 64) \div 32 = 1
GetRSV3(h)   == (h[1] % 32) \div 16 = 1
GetOpcode(h) == h[1] % 16
GetMask(h)   == h[2] \div Bit7 = 1
GetLengthCode(h) == h[2] % Bit7
GetMaskKey(h) == [i \in 1..4 |-> h[10 + i]]

(* binary.BigEndian on the bytes after the second. *)
PutUint16(h, n) ==
    [i \in 1..14 |-> CASE i = 3 -> (n \div Byte) % Byte [] i = 4 -> n % Byte [] OTHER -> h[i]]

PutUint64(h, n) ==
    LET n1 == n  \div Byte
        n2 == n1 \div Byte
        n3 == n2 \div Byte
        n4 == n3 \div Byte
        n5 == n4 \div Byte
        n6 == n5 \div Byte
        n7 == n6 \div Byte
        digits == <<n7 % Byte, n6 % Byte, n5 % Byte, n4 % Byte, n3 % Byte, n2 % Byte, n1 % Byte, n % Byte>>
    IN  [i \in 1..14 |-> IF i \in 3..10 THEN digits[i - 2] ELSE h[i]]

Uint16(h) == h[3] * Byte + h[4]

(* int of a uint64: the top bit of the first byte is the sign. *)
Signed(b) == IF b < Bit7 THEN b ELSE b - Byte
IntOfUint64(h) ==
    ((((((Signed(h[3]) * Byte + h[4]) * Byte + h[5]) * Byte + h[6]) * Byte
        + h[7]) * Byte + h[8]) * Byte + h[9]) * Byte + h[10]

(* SetLength adds to the second byte, which is still zero, and returns the *)
(* number of bytes it used beyond it.                                      *)
SetLength_OffByOne(h, n) ==
    CASE n <= ThresholdV1 + 1 -> [header |-> [h EXCEPT ![2] = @ + n], offset |-> 0]
      [] n > ThresholdV1 + 1 /\ n <= ThresholdV2 ->
            [header |-> PutUint16([h EXCEPT ![2] = @ + Code16], n), offset |-> 2]
      [] OTHER -> [header |-> PutUint64([h EXCEPT ![2] = @ + Code64], n), offset |-> 8]

SetLength(h, n) ==
    CASE n <= ThresholdV1 -> [header |-> [h EXCEPT ![2] = @ + n], offset |-> 0]
      [] n > ThresholdV1 /\ n <= ThresholdV2 ->
            [header |-> PutUint16([h EXCEPT ![2] = @ + Code16], n), offset |-> 2]
      [] OTHER -> [header |-> PutUint64([h EXCEPT ![2] = @ + Code64], n), offset |-> 8]

(* GenerateHeader of an end with the given role, on a zeroed header; key   *)
(* is the random mask key of a client.  The bytes it is to send.           *)
GenerateHeader(isServer, fin, compress, opcode, length, key) ==
    LET b0 == opcode + (IF fin THEN 128 ELSE 0) + (IF compress THEN 64 ELSE 0)
        l  == SetLength([ZeroHeader EXCEPT ![1] = b0], length)
        n  == 2 + l.offset
    IN  IF isServer
        THEN [i \in 1..n |-> l.header[i]]
        ELSE [i \in 1..(n + 4) |->
                 IF i = 2 THEN l.header[2] + Bit7 ELSE IF i <= n THEN l.header[i] ELSE key[i - n]]

(* Parse: overwrite the header with what the reader yields, the key always *)
(* in the last four bytes; return the payload length as an int and how     *)
(* many bytes were read.  The other bytes keep what the last frame left.   *)
Parse(h, stream) ==
    LET code == stream[2] % Bit7
        ext  == CASE code = Code16 -> 2 [] code = Code64 -> 8 [] OTHER -> 0
        mask == stream[2] \div Bit7 = 1
        fh   == [i \in 1..14 |->
                    IF i <= 2 + ext THEN stream[i]
                    ELSE IF mask /\ i > 10 THEN stream[2 + ext + i - 10]
                    ELSE h[i]]
    IN  [header |-> fh,
         length |-> CASE code = Code16 -> Uint16(fh) [] code = Code64 -> IntOfUint64(fh) [] OTHER -> code,
         read   |-> 2 + ext + IF mask THEN 4 ELSE 0]

-----------------------------------------------------------------------------
Xor(a, b) == (a + b) % 2

(* MaskXOR: blocks of 8 bytes against the key twice (key64), then the rest *)
(* byte by byte from the start of the key.                                 *)
MaskXOR(b, key) ==
    LET m == 8 * (Len(b) \div 8)
    IN  [i \in 1..Len(b) |->
            Xor(b[i], key[1 + (IF i <= m THEN ((i - 1) % 8) % 4 ELSE (i - 1 - m) % 4)])]

(* MaskByByte, the reference the tests compare it with. *)
MaskByByte(b, key) == [i \in 1..Len(b) |-> Xor(b[i], key[1 + ((i - 1) % 4)])]

(* genFrame: header, then the content, masked by a client. *)
GenFrame(isServer, fin, compress, opcode, content, key) ==
    GenerateHeader(isServer, fin, compress, opcode, Len(content), key)
      \o (IF isServer THEN content ELSE MaskXOR(content, key))
=============================================================================
