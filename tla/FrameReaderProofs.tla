-------------------------- MODULE FrameReaderProofs --------------------------
(***************************************************************************)
(* Proofs about frames and the reader, for frames of any length an int     *)
(* holds, any number of them, either role and every configuration: what    *)
(* Parse and the getters read from a header is what GenerateHeader was     *)
(* given, whatever c.fh holds, and masking in blocks is masking byte by    *)
(* byte; so a frame is decoded as what was sent; and what readMessage      *)
(* makes of it, message by message.                                        *)
(***************************************************************************)
EXTENDS FrameReader, FiniteSetTheorems, WellFoundedInduction, TLAPS

(* Division with rest, and what it does to a bound. *)
LEMMA DivMod ==
    ASSUME NEW n \in Nat, NEW b \in Nat, b > 0
    PROVE  /\ n \div b \in Nat
           /\ n % b \in Nat /\ n % b < b
           /\ ((n \div b) * b) + (n % b) = n
  BY SMT

LEMMA DivLess ==
    ASSUME NEW n \in Nat, NEW b \in Nat, b > 0, NEW a \in Nat, n < a * b
    PROVE  n \div b < a
<1>1. n \div b \in Nat /\ (n \div b) * b <= n
  BY DivMod
<1>2. SUFFICES ASSUME n \div b >= a PROVE FALSE
  BY <1>1
<1>3. (n \div b) * b >= a * b
  BY <1>1, <1>2
<1> QED BY <1>1, <1>3

-----------------------------------------------------------------------------
(* MaskXOR, which works on blocks, is MaskByByte: blocks are a whole       *)
(* number of keys long, so the index into the key is the same.             *)
THEOREM MaskIsByByte ==
    \A b \in Seq(Bits), key \in Keys : MaskXOR(b, key) = MaskByByte(b, key)
<1> SUFFICES ASSUME NEW b \in Seq(Bits), NEW key \in Keys
             PROVE  MaskXOR(b, key) = MaskByByte(b, key)
  OBVIOUS
<1> DEFINE m == 8 * (Len(b) \div 8)
<1>1. \A i \in 1..Len(b) :
        (IF i <= m THEN ((i - 1) % 8) % 4 ELSE (i - 1 - m) % 4) = (i - 1) % 4
  BY SMT
<1> QED
  BY <1>1 DEF MaskXOR, MaskByByte

(* Masking twice with one key gives the payload back: the receiver's       *)
(* MaskXOR undoes the sender's.                                            *)
THEOREM MaskUndoesItself ==
    \A b \in Seq(Bits), key \in Keys : MaskXOR(MaskXOR(b, key), key) = b
<1> SUFFICES ASSUME NEW b \in Seq(Bits), NEW key \in Keys
             PROVE  MaskXOR(MaskXOR(b, key), key) = b
  OBVIOUS
<1> DEFINE c == MaskByByte(b, key)
<1>1. \A i \in 1..Len(b) : 1 + ((i - 1) % 4) \in 1..4
  BY SMT
<1>2. /\ c \in Seq(Bits) /\ Len(c) = Len(b)
      /\ \A i \in 1..Len(b) : c[i] = (b[i] + key[1 + ((i - 1) % 4)]) % 2
  BY <1>1 DEF MaskByByte, Xor, Bits, Keys
<1>3. \A i \in 1..Len(b) : (c[i] + key[1 + ((i - 1) % 4)]) % 2 = b[i]
  <2> TAKE i \in 1..Len(b)
  <2>1. b[i] \in 0..1 /\ key[1 + ((i - 1) % 4)] \in 0..1
    BY <1>1 DEF Bits, Keys
  <2> QED
    BY <1>2, <2>1
<1>4. MaskByByte(c, key) = b
  BY <1>2, <1>3 DEF MaskByByte, Xor
<1> QED
  BY <1>2, <1>4, MaskIsByByte

-----------------------------------------------------------------------------
LEMMA ByteFacts ==
    /\ Byte \in Nat /\ Byte >= 8
    /\ Bit7 \in Nat /\ Bit7 >= 4 /\ Bit7 + Bit7 = Byte
  BY ByteAssumption DEF Bit7

(* Two bytes hold what SetLength puts there. *)
LEMMA Uint16RoundTrip ==
    ASSUME NEW h, NEW n \in Nat, n <= ThresholdV2,
           h[3] = (n \div Byte) % Byte, h[4] = n % Byte
    PROVE  Uint16(h) = n
<1>1. n < Byte * Byte
  BY ByteFacts DEF ThresholdV2
<1>2. n \div Byte < Byte
  BY <1>1, ByteFacts, DivLess
<1>3. (n \div Byte) % Byte = n \div Byte
  BY <1>2, ByteFacts, DivMod
<1> QED
  BY <1>3, ByteFacts, DivMod DEF Uint16

(* Eight bytes hold every int that is not negative: PutUint64 and the      *)
(* conversion to int after Uint64 undo each other.                         *)
LEMMA Uint64RoundTrip ==
    ASSUME NEW h, NEW n \in Nat, IntLength(n),
           NEW g, g = PutUint64(h, n), h \in [1..14 -> Nat]
    PROVE  IntOfUint64(g) = n
<1> DEFINE n1 == n \div Byte
           n2 == n1 \div Byte
           n3 == n2 \div Byte
           n4 == n3 \div Byte
           n5 == n4 \div Byte
           n6 == n5 \div Byte
           n7 == n6 \div Byte
<1>1. /\ g[3] = n7 % Byte /\ g[4] = n6 % Byte /\ g[5] = n5 % Byte /\ g[6] = n4 % Byte
      /\ g[7] = n3 % Byte /\ g[8] = n2 % Byte /\ g[9] = n1 % Byte /\ g[10] = n % Byte
  BY DEF PutUint64
<1> DEFINE p1 == Bit7 * Byte
           p2 == p1 * Byte
           p3 == p2 * Byte
           p4 == p3 * Byte
           p5 == p4 * Byte
           p6 == p5 * Byte
<1>2. p1 \in Nat /\ p2 \in Nat /\ p3 \in Nat /\ p4 \in Nat /\ p5 \in Nat /\ p6 \in Nat
  <2>1. p1 \in Nat  BY ByteFacts
  <2>2. p2 \in Nat  BY <2>1, ByteFacts
  <2>3. p3 \in Nat  BY <2>2, ByteFacts
  <2>4. p4 \in Nat  BY <2>3, ByteFacts
  <2>5. p5 \in Nat  BY <2>4, ByteFacts
  <2>6. p6 \in Nat  BY <2>5, ByteFacts
  <2> QED BY <2>1, <2>2, <2>3, <2>4, <2>5, <2>6
<1>3. n < p6 * Byte
  BY DEF IntLength
<1> HIDE DEF p1, p2, p3, p4, p5, p6, n1, n2, n3, n4, n5, n6, n7
<1>4. n1 \in Nat /\ n1 < p6 /\ n1 * Byte + (n % Byte) = n
  BY <1>2, <1>3, ByteFacts, DivMod, DivLess DEF n1
<1>5. n2 \in Nat /\ n2 < p5 /\ n2 * Byte + (n1 % Byte) = n1
  BY <1>2, <1>4, ByteFacts, DivMod, DivLess DEF n2, p6
<1>6. n3 \in Nat /\ n3 < p4 /\ n3 * Byte + (n2 % Byte) = n2
  BY <1>2, <1>5, ByteFacts, DivMod, DivLess DEF n3, p5
<1>7. n4 \in Nat /\ n4 < p3 /\ n4 * Byte + (n3 % Byte) = n3
  BY <1>2, <1>6, ByteFacts, DivMod, DivLess DEF n4, p4
<1>8. n5 \in Nat /\ n5 < p2 /\ n5 * Byte + (n4 % Byte) = n4
  BY <1>2, <1>7, ByteFacts, DivMod, DivLess DEF n5, p3
<1>9. n6 \in Nat /\ n6 < p1 /\ n6 * Byte + (n5 % Byte) = n5
  BY <1>2, <1>8, ByteFacts, DivMod, DivLess DEF n6, p2
<1>10. n7 \in Nat /\ n7 < Bit7 /\ n7 * Byte + (n6 % Byte) = n6
  BY <1>2, <1>9, ByteFacts, DivMod, DivLess DEF n7, p1
<1>11. n7 % Byte = n7 /\ Signed(n7) = n7
  BY <1>10, ByteFacts, DivMod DEF Signed
<1> QED
  BY <1>1, <1>4, <1>5, <1>6, <1>7, <1>8, <1>9, <1>10, <1>11 DEF IntOfUint64

LEMMA PutUint64Bytes ==
    ASSUME NEW h \in [1..14 -> Nat], NEW n \in Nat
    PROVE  /\ PutUint64(h, n) \in [1..14 -> Nat]
           /\ PutUint64(h, n)[1] = h[1] /\ PutUint64(h, n)[2] = h[2]
<1> DEFINE n1 == n \div Byte
           n2 == n1 \div Byte
           n3 == n2 \div Byte
           n4 == n3 \div Byte
           n5 == n4 \div Byte
           n6 == n5 \div Byte
           n7 == n6 \div Byte
<1>1. \A k \in Nat : k \div Byte \in Nat /\ k % Byte \in Nat
  BY ByteFacts, DivMod
<1>2. n1 \in Nat /\ n2 \in Nat /\ n3 \in Nat /\ n4 \in Nat /\ n5 \in Nat /\ n6 \in Nat /\ n7 \in Nat
  BY <1>1
<1> DEFINE digits == <<n7 % Byte, n6 % Byte, n5 % Byte, n4 % Byte, n3 % Byte, n2 % Byte, n1 % Byte, n % Byte>>
<1> HIDE DEF n1, n2, n3, n4, n5, n6, n7
<1>3. digits \in [1..8 -> Nat]
  BY <1>1, <1>2
<1> HIDE DEF digits
<1>4. PutUint64(h, n) = [i \in 1..14 |-> IF i \in 3..10 THEN digits[i - 2] ELSE h[i]]
  BY DEF PutUint64, digits, n1, n2, n3, n4, n5, n6, n7
<1> QED
  BY <1>3, <1>4

(* What SetLength leaves in the second byte, how many bytes it uses and    *)
(* what Parse makes of them.                                               *)
LEMMA SetLengthFacts ==
    ASSUME NEW b0 \in Nat, NEW n \in Nat, IntLength(n),
           NEW l, l = SetLength([ZeroHeader EXCEPT ![1] = b0], n)
    PROVE  /\ l.header \in [1..14 -> Nat] /\ l.header[1] = b0
           /\ l.header[2] \in Nat /\ l.header[2] < Bit7
           /\ \/ l.header[2] = n /\ l.offset = 0 /\ n <= ThresholdV1
              \/ l.header[2] = Code16 /\ l.offset = 2 /\ Uint16(l.header) = n
              \/ l.header[2] = Code64 /\ l.offset = 8 /\ IntOfUint64(l.header) = n
<1> DEFINE z == [ZeroHeader EXCEPT ![1] = b0]
<1>1. z \in [1..14 -> Nat] /\ z[1] = b0 /\ z[2] = 0
  BY DEF ZeroHeader
<1>2. ThresholdV1 \in Nat /\ Code16 \in Nat /\ Code64 \in Nat /\ ThresholdV2 \in Nat
        /\ ThresholdV1 < Bit7 /\ Code16 < Bit7 /\ Code64 < Bit7 /\ ThresholdV1 < ThresholdV2
  <2>1. Byte * Byte \in Nat /\ Byte * Byte > Byte
    BY ByteFacts
  <2> QED
    BY <2>1, ByteFacts DEF ThresholdV1, Code16, Code64, ThresholdV2
<1> HIDE DEF z
<1>3. CASE n <= ThresholdV1
  <2> DEFINE y == [z EXCEPT ![2] = @ + n]
  <2>1. l = [header |-> y, offset |-> 0]
    BY <1>2, <1>3 DEF SetLength, z
  <2>2. y \in [1..14 -> Nat] /\ y[1] = b0 /\ y[2] = n
    BY <1>1
  <2> HIDE DEF y
  <2>3. l.header = y /\ l.offset = 0
    BY <2>1
  <2>4. l.header \in [1..14 -> Nat] /\ l.header[1] = b0 /\ l.header[2] = n
    BY <2>2, <2>3
  <2>5. n < Bit7
    BY <1>2, <1>3, ByteFacts
  <2> QED
    BY <1>3, <2>3, <2>4, <2>5
<1>4. CASE n > ThresholdV1 /\ n <= ThresholdV2
  <2> DEFINE y == [z EXCEPT ![2] = @ + Code16]
  <2>1. l = [header |-> PutUint16(y, n), offset |-> 2]
    BY <1>2, <1>4 DEF SetLength, z
  <2>2. y \in [1..14 -> Nat] /\ y[1] = b0 /\ y[2] = Code16
    BY <1>1, <1>2
  <2>3. (n \div Byte) % Byte \in Nat /\ n % Byte \in Nat
    BY ByteFacts, DivMod
  <2> HIDE DEF y
  <2>4. /\ l.header \in [1..14 -> Nat] /\ l.header[1] = b0 /\ l.header[2] = Code16
        /\ l.header[3] = (n \div Byte) % Byte /\ l.header[4] = n % Byte
    <3>1. l.header = PutUint16(y, n)
      BY <2>1
    <3> QED
      BY <2>2, <2>3, <3>1 DEF PutUint16
  <2>5. Uint16(l.header) = n
    BY <1>4, <2>4, Uint16RoundTrip
  <2> QED
    BY <1>2, <2>1, <2>4, <2>5
<1>5. CASE n > ThresholdV2
  <2> DEFINE y == [z EXCEPT ![2] = @ + Code64]
  <2>1. l = [header |-> PutUint64(y, n), offset |-> 8]
    BY <1>2, <1>5 DEF SetLength, z
  <2>2. y \in [1..14 -> Nat] /\ y[1] = b0 /\ y[2] = Code64
    BY <1>1, <1>2
  <2> HIDE DEF y
  <2>3. IntOfUint64(l.header) = n
    BY <2>1, <2>2, Uint64RoundTrip
  <2>4. l.header \in [1..14 -> Nat] /\ l.header[1] = b0 /\ l.header[2] = Code64
    <3>1. l.header = PutUint64(y, n)
      BY <2>1
    <3>2. /\ PutUint64(y, n) \in [1..14 -> Nat]
          /\ PutUint64(y, n)[1] = y[1] /\ PutUint64(y, n)[2] = y[2]
      BY <2>2, PutUint64Bytes
    <3> QED
      BY <2>2, <3>1, <3>2
  <2> QED
    BY <1>2, <2>1, <2>3, <2>4
<1> QED
  BY <1>2, <1>3, <1>4, <1>5

-----------------------------------------------------------------------------
(* hd holds the length n, in off bytes beyond the second. *)
LengthIn(hd, off, n) ==
    /\ hd[2] < Bit7
    /\ \/ hd[2] = n /\ off = 0 /\ n <= ThresholdV1
       \/ hd[2] = Code16 /\ off = 2 /\ Uint16(hd) = n
       \/ hd[2] = Code64 /\ off = 8 /\ IntOfUint64(hd) = n

(* The bytes that leave for such a header; masked is 1 for a client. *)
Sent(hd, off, masked, key) ==
    [i \in 1..(2 + off + 4 * masked) |->
        IF i = 2 THEN hd[2] + masked * Bit7
        ELSE IF i <= 2 + off THEN hd[i] ELSE key[i - (2 + off)]]

StreamHas(stream, hd, off, masked, key) ==
    /\ stream[1] = hd[1] /\ stream[2] = hd[2] + masked * Bit7
    /\ \A i \in 3..(2 + off) : stream[i] = hd[i]
    /\ masked = 1 => \A i \in 1..4 : stream[2 + off + i] = key[i]

(* The first byte and the mask bit of a frame. *)
Byte0(opcode, fin, compress) == opcode + (IF fin THEN 128 ELSE 0) + (IF compress THEN 64 ELSE 0)
MaskBit(server) == IF server THEN 0 ELSE 1

(* What Parse is to return for it. *)
ReadBack(p, hd, off, n, masked, key) ==
    /\ p.length = n
    /\ p.read = 2 + off + 4 * masked
    /\ p.header \in [1..14 -> Nat]
    /\ p.header[1] = hd[1]
    /\ p.header[2] \div Bit7 = masked
    /\ masked = 1 => \A i \in 1..4 : p.header[10 + i] = key[i]

(* Parse of a stream that starts with the bytes of a header. *)
LEMMA ParseReadsBack ==
    ASSUME NEW masked \in {0, 1}, NEW key \in Keys, NEW n \in Nat,
           NEW hd \in [1..14 -> Nat], NEW off \in {0, 2, 8}, LengthIn(hd, off, n),
           NEW h \in [1..14 -> Nat], NEW stream, StreamHas(stream, hd, off, masked, key)
    PROVE  ReadBack(Parse(h, stream), hd, off, n, masked, key)
<1> USE DEF LengthIn, StreamHas
<1> DEFINE code == stream[2] % Bit7
           ext == CASE code = Code16 -> 2 [] code = Code64 -> 8 [] OTHER -> 0
           mask == stream[2] \div Bit7 = 1
           hdr == [i \in 1..14 |->
                    IF i <= 2 + ext THEN stream[i]
                    ELSE IF mask /\ i > 10 THEN stream[2 + ext + i - 10]
                    ELSE h[i]]
           length == CASE code = Code16 -> Uint16(hdr) [] code = Code64 -> IntOfUint64(hdr) [] OTHER -> code
           read == 2 + ext + IF mask THEN 4 ELSE 0
<1>1. Parse(h, stream) = [header |-> hdr, length |-> length, read |-> read]
  BY DEF Parse
<1>2. code = hd[2] /\ stream[2] \div Bit7 = masked
  <2>1. \A c \in Nat : c < Bit7 => (c % Bit7 = c /\ c \div Bit7 = 0
                                   /\ (c + Bit7) % Bit7 = c /\ (c + Bit7) \div Bit7 = 1)
    BY ByteFacts
  <2> QED
    BY <2>1, ByteFacts
<1>3. ext = off
  BY <1>2, ByteFacts DEF ThresholdV1, Code16, Code64
<1>4. mask <=> masked = 1
  BY <1>2
<1> HIDE DEF code, ext, mask
<1>5. /\ hdr[1] = hd[1] /\ hdr[2] = stream[2] /\ \A i \in 3..(2 + off) : hdr[i] = hd[i]
  BY <1>3
<1>6. masked = 1 => \A i \in 1..4 : hdr[10 + i] = key[i]
  BY <1>3, <1>4
<1>61. hdr \in [1..14 -> Nat]
  <2>1. stream[1] \in Nat /\ stream[2] \in Nat /\ \A i \in 3..(2 + off) : stream[i] \in Nat
    BY ByteFacts
  <2>2. mask => \A i \in 11..14 : stream[2 + ext + i - 10] \in Nat
    BY <1>3, <1>4 DEF Keys, Bits
  <2> QED
    BY <1>3, <2>1, <2>2
<1> HIDE DEF hdr
<1>7. length = n
  <2>1. CASE off = 0
    BY <1>2, <2>1, ByteFacts DEF ThresholdV1, Code16, Code64
  <2>2. CASE off = 2
    <3>1. hdr[3] = hd[3] /\ hdr[4] = hd[4]
      BY <1>5, <2>2
    <3> QED
      BY <1>2, <2>2, <3>1, ByteFacts DEF Uint16, Code16, Code64
  <2>3. CASE off = 8
    <3>1. /\ hdr[3] = hd[3] /\ hdr[4] = hd[4] /\ hdr[5] = hd[5] /\ hdr[6] = hd[6]
          /\ hdr[7] = hd[7] /\ hdr[8] = hd[8] /\ hdr[9] = hd[9] /\ hdr[10] = hd[10]
      BY <1>5, <2>3
    <3>2. IntOfUint64(hdr) = IntOfUint64(hd)
      BY <3>1 DEF IntOfUint64
    <3> QED
      BY <1>2, <2>3, <3>2, ByteFacts DEF Code16, Code64
  <2> QED
    BY <2>1, <2>2, <2>3
<1>8. read = 2 + off + 4 * masked
  BY <1>3, <1>4
<1> HIDE DEF length, read
<1> QED
  BY <1>1, <1>2, <1>5, <1>6, <1>61, <1>7, <1>8 DEF ReadBack

(* GenerateHeader in terms of what SetLength leaves. *)
Generated(g, b0, n, masked, key) ==
    \E hd \in [1..14 -> Nat], off \in {0, 2, 8} :
        /\ hd[1] = b0
        /\ LengthIn(hd, off, n)
        /\ g = Sent(hd, off, masked, key)

LEMMA GeneratedBytes ==
    ASSUME NEW server \in BOOLEAN, NEW fin \in BOOLEAN, NEW compress \in BOOLEAN,
           NEW opcode \in 0..15, NEW n \in Nat, IntLength(n), NEW key \in Keys
    PROVE  Generated(GenerateHeader(server, fin, compress, opcode, n, key),
                     Byte0(opcode, fin, compress), n, MaskBit(server), key)
<1> DEFINE b0 == opcode + (IF fin THEN 128 ELSE 0) + (IF compress THEN 64 ELSE 0)
           z == [ZeroHeader EXCEPT ![1] = b0]
           G == GenerateHeader(server, fin, compress, opcode, n, key)
<1>1. b0 \in Nat
  OBVIOUS
<1>2. \A l : l = SetLength(z, n) =>
        G = IF server
            THEN [i \in 1..(2 + l.offset) |-> l.header[i]]
            ELSE [i \in 1..(2 + l.offset + 4) |->
                    IF i = 2 THEN l.header[2] + Bit7
                    ELSE IF i <= 2 + l.offset THEN l.header[i] ELSE key[i - (2 + l.offset)]]
  BY DEF GenerateHeader
<1> HIDE DEF b0, G
<1>3. PICK l : l = SetLength(z, n)
  OBVIOUS
<1>4. /\ l.header \in [1..14 -> Nat] /\ l.header[1] = b0
      /\ l.header[2] \in Nat /\ l.header[2] < Bit7
      /\ \/ l.header[2] = n /\ l.offset = 0 /\ n <= ThresholdV1
         \/ l.header[2] = Code16 /\ l.offset = 2 /\ Uint16(l.header) = n
         \/ l.header[2] = Code64 /\ l.offset = 8 /\ IntOfUint64(l.header) = n
  BY <1>1, <1>3, SetLengthFacts
<1>5. l.header \in [1..14 -> Nat] /\ l.offset \in {0, 2, 8}
  BY <1>4, Zenon
<1>6. \A hd \in [1..14 -> Nat], off \in {0, 2, 8} :
        /\ Sent(hd, off, 0, key) = [i \in 1..(2 + off) |-> hd[i]]
        /\ Sent(hd, off, 1, key) =
             [i \in 1..(2 + off + 4) |->
                IF i = 2 THEN hd[2] + Bit7 ELSE IF i <= 2 + off THEN hd[i] ELSE key[i - (2 + off)]]
  BY ByteFacts DEF Sent
<1>7. G = Sent(l.header, l.offset, MaskBit(server), key)
  <2>1. CASE server
    <3>1. G = [i \in 1..(2 + l.offset) |-> l.header[i]]
      BY <1>2, <1>3, <2>1
    <3>2. MaskBit(server) = 0
      BY <2>1 DEF MaskBit
    <3>3. G = Sent(l.header, l.offset, 0, key)
      BY <1>5, <1>6, <3>1
    <3> QED
      BY <3>2, <3>3, Zenon
  <2>2. CASE ~server
    <3>1. G = [i \in 1..(2 + l.offset + 4) |->
                  IF i = 2 THEN l.header[2] + Bit7
                  ELSE IF i <= 2 + l.offset THEN l.header[i] ELSE key[i - (2 + l.offset)]]
      <4>1. G = IF server
                THEN [i \in 1..(2 + l.offset) |-> l.header[i]]
                ELSE [i \in 1..(2 + l.offset + 4) |->
                        IF i = 2 THEN l.header[2] + Bit7
                        ELSE IF i <= 2 + l.offset THEN l.header[i] ELSE key[i - (2 + l.offset)]]
        BY <1>2, <1>3, Zenon
      <4> QED BY <2>2, <4>1, Zenon
    <3>2. MaskBit(server) = 1
      BY <2>2 DEF MaskBit
    <3>3. G = Sent(l.header, l.offset, 1, key)
      BY <1>5, <1>6, <3>1
    <3> QED
      BY <3>2, <3>3, Zenon
  <2> QED BY <2>1, <2>2
<1> QED
  BY <1>4, <1>5, <1>7, Zenon DEF b0, G, LengthIn, Byte0, Generated

LEMMA SentLength ==
    ASSUME NEW hd, NEW off \in {0, 2, 8}, NEW masked \in {0, 1}, NEW key
    PROVE  Len(Sent(hd, off, masked, key)) = 2 + off + 4 * masked
<1>1. 2 + off + 4 * masked \in Nat
  OBVIOUS
<1> QED
  BY <1>1 DEF Sent

(* A stream that starts with those bytes has them. *)
LEMMA SentOnStream ==
    ASSUME NEW hd \in [1..14 -> Nat], NEW off \in {0, 2, 8}, NEW masked \in {0, 1}, NEW key \in Keys,
           NEW stream, \A i \in 1..(2 + off + 4 * masked) : stream[i] = Sent(hd, off, masked, key)[i]
    PROVE  StreamHas(stream, hd, off, masked, key)
<1>1. \A i \in 1..(2 + off + 4 * masked) :
        Sent(hd, off, masked, key)[i] =
          IF i = 2 THEN hd[2] + masked * Bit7
          ELSE IF i <= 2 + off THEN hd[i] ELSE key[i - (2 + off)]
  BY DEF Sent
<1> QED
  BY <1>1 DEF StreamHas

(* The bits of the first byte. *)
LEMMA FirstByte ==
    ASSUME NEW opcode \in 0..15, NEW fin \in BOOLEAN, NEW compress \in BOOLEAN,
           NEW h, h[1] = Byte0(opcode, fin, compress)
    PROVE  /\ GetFIN(h) <=> fin
           /\ GetRSV1(h) <=> compress
           /\ ~GetRSV2(h) /\ ~GetRSV3(h)
           /\ GetOpcode(h) = opcode
<1>1. CASE fin /\ compress
  BY <1>1 DEF Byte0, GetFIN, GetRSV1, GetRSV2, GetRSV3, GetOpcode
<1>2. CASE fin /\ ~compress
  BY <1>2 DEF Byte0, GetFIN, GetRSV1, GetRSV2, GetRSV3, GetOpcode
<1>3. CASE ~fin /\ compress
  BY <1>3 DEF Byte0, GetFIN, GetRSV1, GetRSV2, GetRSV3, GetOpcode
<1>4. CASE ~fin /\ ~compress
  BY <1>4 DEF Byte0, GetFIN, GetRSV1, GetRSV2, GetRSV3, GetOpcode
<1> QED
  BY <1>1, <1>2, <1>3, <1>4

(* What an end sends is what the other end reads: for every length an int  *)
(* holds, either role, every opcode and key, and whatever the header held  *)
(* before, Parse of a stream that starts with the bytes of GenerateHeader  *)
(* reads exactly those bytes and returns the length, and the getters then  *)
(* return the bits and the key the sender chose.                           *)
THEOREM HeaderRoundTrip ==
    \A server \in BOOLEAN, fin \in BOOLEAN, compress \in BOOLEAN, opcode \in 0..15, n \in Nat,
       key \in Keys, h \in [1..14 -> Nat], stream \in Seq(Nat) :
      LET g == GenerateHeader(server, fin, compress, opcode, n, key)
          p == Parse(h, stream)
      IN  IntLength(n) /\ Len(stream) >= Len(g) /\ (\A i \in 1..Len(g) : stream[i] = g[i])
            => /\ p.length = n /\ p.read = Len(g)
               /\ (GetFIN(p.header) <=> fin) /\ (GetRSV1(p.header) <=> compress)
               /\ ~GetRSV2(p.header) /\ ~GetRSV3(p.header)
               /\ GetOpcode(p.header) = opcode
               /\ (GetMask(p.header) <=> ~server)
               /\ ~server => GetMaskKey(p.header) = key
<1> TAKE server \in BOOLEAN, fin \in BOOLEAN, compress \in BOOLEAN, opcode \in 0..15, n \in Nat,
         key \in Keys, h \in [1..14 -> Nat], stream \in Seq(Nat)
<1> DEFINE g == GenerateHeader(server, fin, compress, opcode, n, key)
           p == Parse(h, stream)
           masked == MaskBit(server)
<1>0. SUFFICES ASSUME IntLength(n), Len(stream) >= Len(g), \A i \in 1..Len(g) : stream[i] = g[i]
               PROVE  /\ p.length = n /\ p.read = Len(g)
                      /\ (GetFIN(p.header) <=> fin) /\ (GetRSV1(p.header) <=> compress)
                      /\ ~GetRSV2(p.header) /\ ~GetRSV3(p.header)
                      /\ GetOpcode(p.header) = opcode
                      /\ (GetMask(p.header) <=> ~server)
                      /\ ~server => GetMaskKey(p.header) = key
  OBVIOUS
<1>1. PICK hd \in [1..14 -> Nat], off \in {0, 2, 8} :
        /\ hd[1] = Byte0(opcode, fin, compress)
        /\ LengthIn(hd, off, n)
        /\ g = Sent(hd, off, masked, key)
  <2>1. IntLength(n)
    BY <1>0
  <2>2. Generated(g, Byte0(opcode, fin, compress), n, masked, key)
    BY <2>1, GeneratedBytes
  <2> QED
    BY <2>2, Zenon DEF Generated
<1>2. masked \in {0, 1} /\ (masked = 1 <=> ~server)
  BY DEF MaskBit
<1> HIDE DEF p, g, masked
<1>3. Len(g) = 2 + off + 4 * masked
  BY <1>1, <1>2, SentLength, Zenon
<1>4. StreamHas(stream, hd, off, masked, key)
  BY <1>0, <1>1, <1>2, <1>3, SentOnStream, Zenon
<1>5. /\ p.length = n
      /\ p.read = 2 + off + 4 * masked
      /\ p.header[1] = hd[1]
      /\ p.header[2] \div Bit7 = masked
      /\ masked = 1 => \A i \in 1..4 : p.header[10 + i] = key[i]
  <2>1. ReadBack(Parse(h, stream), hd, off, n, masked, key)
    BY <1>1, <1>2, <1>4, ParseReadsBack
  <2> QED
    BY <2>1, Zenon DEF ReadBack, p
<1>6. /\ GetFIN(p.header) <=> fin
      /\ GetRSV1(p.header) <=> compress
      /\ ~GetRSV2(p.header) /\ ~GetRSV3(p.header)
      /\ GetOpcode(p.header) = opcode
  BY <1>1, <1>5, FirstByte, Zenon
<1>7. GetMask(p.header) <=> ~server
  BY <1>2, <1>5, Zenon DEF GetMask
<1>8. ~server => GetMaskKey(p.header) = key
  <2>1. ~server => \A i \in 1..4 : p.header[10 + i] = key[i]
    BY <1>2, <1>5, Zenon
  <2> QED
    BY <2>1 DEF GetMaskKey, Keys
<1>9. p.read = Len(g)
  BY <1>3, <1>5, Zenon
<1> QED
  BY <1>5, <1>6, <1>7, <1>8, <1>9, Zenon

-----------------------------------------------------------------------------
(* Frames and their bytes. *)

LEMMA InputTyped ==
    ASSUME NEW f \in Inputs
    PROVE  /\ f.fin \in BOOLEAN /\ f.rsv1 \in BOOLEAN /\ f.rsv23 \in BOOLEAN
           /\ f.opcode \in 0..15 /\ f.mask \in BOOLEAN /\ f.key \in Keys
           /\ f.code \in Int /\ f.code >= NoCode /\ f.payload \in Seq(Bits)
           /\ IntLength(Len(f.payload) + 2)
<1>1. NoCode \in Int
  BY DEF NoCode
<1> QED BY <1>1, ReaderAssumption DEF Lead, Trail, Bits

LEMMA IntBound == Bit7 * Byte * Byte * Byte * Byte * Byte * Byte * Byte \in Nat
<1> DEFINE p1 == Bit7 * Byte
           p2 == p1 * Byte
           p3 == p2 * Byte
           p4 == p3 * Byte
           p5 == p4 * Byte
           p6 == p5 * Byte
           p7 == p6 * Byte
<1>0. \A k \in Nat : k * Byte \in Nat
  BY ByteFacts
<1>1. p7 \in Nat
  BY <1>0, ByteFacts, Zenon
<1> QED BY <1>1

LEMMA ShorterInt ==
    ASSUME NEW n \in Nat, NEW m \in 0..n, IntLength(n)
    PROVE  IntLength(m)
<1> DEFINE M == Bit7 * Byte * Byte * Byte * Byte * Byte * Byte * Byte
<1>1. M \in Nat /\ n < M
  BY IntBound DEF IntLength
<1> HIDE DEF M
<1>2. m \in Nat /\ m < M
  BY <1>1
<1> QED BY <1>2 DEF M, IntLength

(* A prefix of k zeros. *)
LEMMA Prefixed ==
    ASSUME NEW p \in Seq(Bits), NEW z \in Seq(Bits)
    PROVE  /\ z \o p \in Seq(Bits) /\ Len(z \o p) = Len(z) + Len(p)
           /\ \A i \in 1..Len(p) : (z \o p)[i + Len(z)] = p[i]
OBVIOUS

LEMMA ContentFacts ==
    ASSUME NEW f \in Inputs
    PROVE  /\ Content(f) \in Seq(Bits)
           /\ Len(Content(f)) \in Nat
           /\ IntLength(Len(Content(f)))
           /\ f.code >= 0 => /\ Len(Content(f)) = Len(f.payload) + 2
                             /\ \A i \in 1..Len(f.payload) : Content(f)[i + 2] = f.payload[i]
           /\ f.code = NoCode => Content(f) = f.payload
<1> DEFINE p == f.payload
<1>1. p \in Seq(Bits) /\ Len(p) \in Nat /\ f.code \in Int /\ f.code >= NoCode /\ IntLength(Len(p) + 2)
  BY InputTyped
<1>2. <<>> \in Seq(Bits) /\ <<0>> \in Seq(Bits) /\ <<0, 0>> \in Seq(Bits)
  BY DEF Bits
<1>3. IntLength(Len(p)) /\ IntLength(Len(p) + 1)
  <2>1. Len(p) + 2 \in Nat /\ Len(p) \in 0..(Len(p) + 2) /\ Len(p) + 1 \in 0..(Len(p) + 2)
    BY <1>1
  <2> QED BY <1>1, <2>1, ShorterInt
<1> HIDE DEF p
<1>4. CASE f.code = NoCode
  <2>1. Content(f) = <<>> \o p
    BY <1>4 DEF Content, p, NoCode, OneByte
  <2>2. Content(f) = p
    BY <1>1, <2>1
  <2> QED BY <1>1, <1>3, <1>4, <2>2 DEF p, NoCode
<1>5. CASE f.code = OneByte
  <2>1. Content(f) = <<0>> \o p
    BY <1>5 DEF Content, p, OneByte, NoCode
  <2>2. Content(f) \in Seq(Bits) /\ Len(Content(f)) = Len(p) + 1
    BY <1>1, <1>2, <2>1, Prefixed
  <2> QED BY <1>1, <1>3, <1>5, <2>2 DEF OneByte, NoCode
<1>6. CASE f.code >= 0
  <2>0. f.code # NoCode /\ f.code # OneByte
    BY <1>1, <1>6 DEF OneByte, NoCode
  <2>1. Content(f) = <<0, 0>> \o p
    BY <2>0 DEF Content, p
  <2>2. /\ Content(f) \in Seq(Bits) /\ Len(Content(f)) = Len(p) + 2
        /\ \A i \in 1..Len(p) : Content(f)[i + 2] = p[i]
    BY <1>1, <1>2, <2>1, Prefixed
  <2> QED BY <1>1, <1>6, <2>2 DEF p, NoCode
<1> QED BY <1>1, <1>4, <1>5, <1>6 DEF NoCode, OneByte

LEMMA MaskedBits ==
    ASSUME NEW b \in Seq(Bits), NEW key \in Keys
    PROVE  MaskXOR(b, key) \in Seq(Bits) /\ Len(MaskXOR(b, key)) = Len(b)
<1>1. \A i \in 1..Len(b) : 1 + ((i - 1) % 4) \in 1..4
  BY SMT
<1>2. MaskByByte(b, key) \in Seq(Bits) /\ Len(MaskByByte(b, key)) = Len(b)
  BY <1>1 DEF MaskByByte, Xor, Bits, Keys
<1> QED BY <1>2, MaskIsByByte

-----------------------------------------------------------------------------
(* The header of a frame with the bits RSV2 and RSV3 as f says. *)
FrameByte0(f) == Byte0(f.opcode, f.fin, f.rsv1) + (IF f.rsv23 THEN 32 ELSE 0)

Coded(f) == IF f.mask THEN MaskXOR(Content(f), f.key) ELSE Content(f)

LEMMA CodedFacts ==
    ASSUME NEW f \in Inputs
    PROVE  Coded(f) \in Seq(Nat) /\ Len(Coded(f)) = Len(Content(f))
<1>1. Content(f) \in Seq(Bits) /\ f.key \in Keys /\ f.mask \in BOOLEAN
  BY ContentFacts, InputTyped
<1>2. Coded(f) \in Seq(Bits) /\ Len(Coded(f)) = Len(Content(f))
  BY <1>1, MaskedBits DEF Coded
<1> QED BY <1>2 DEF Bits

(* The bytes of a header as a function of their place. *)
SentHas(g, k, hd, off, bit, key) ==
    /\ k \in Nat /\ k >= 2
    /\ g \in [1..k -> Nat]
    /\ \A i \in 1..k : g[i] = IF i = 2 THEN hd[2] + bit
                             ELSE IF i <= 2 + off THEN hd[i] ELSE key[i - (2 + off)]

LEMMA SentBytes ==
    ASSUME NEW hd \in [1..14 -> Nat], NEW off \in {0, 2, 8}, NEW masked \in {0, 1}, NEW key \in Keys
    PROVE  SentHas(Sent(hd, off, masked, key), 2 + off + 4 * masked, hd, off, masked * Bit7, key)
<1> DEFINE k == 2 + off + 4 * masked
           byte(i) == IF i = 2 THEN hd[2] + masked * Bit7
                      ELSE IF i <= 2 + off THEN hd[i] ELSE key[i - (2 + off)]
<1>1. k \in Nat /\ k >= 2
  OBVIOUS
<1>2. \A i \in 1..k : byte(i) \in Nat
  <2> TAKE i \in 1..k
  <2>1. CASE i = 2
    BY <2>1, ByteFacts
  <2>2. CASE i # 2 /\ i <= 2 + off
    <3>1. i \in 1..14
      BY <2>2
    <3> QED BY <2>2, <3>1
  <2>3. CASE i # 2 /\ ~(i <= 2 + off)
    <3>1. i - (2 + off) \in 1..4
      BY <2>3
    <3>2. key[i - (2 + off)] \in Nat
      BY <3>1 DEF Keys, Bits
    <3> QED BY <2>3, <3>2
  <2> QED BY <2>1, <2>2, <2>3
<1>3. Sent(hd, off, masked, key) = [i \in 1..k |-> byte(i)]
  BY DEF Sent
<1> HIDE DEF k, byte
<1>4. /\ [i \in 1..k |-> byte(i)] \in [1..k -> Nat]
      /\ \A i \in 1..k : [j \in 1..k |-> byte(j)][i] = byte(i)
  BY <1>1, <1>2
<1> QED BY <1>1, <1>3, <1>4 DEF k, byte, SentHas

LEMMA ConcatElems ==
    ASSUME NEW s \in Seq(Nat), NEW t \in Seq(Nat)
    PROVE  /\ s \o t \in Seq(Nat) /\ Len(s) \in Nat /\ Len(t) \in Nat
           /\ Len(s \o t) = Len(s) + Len(t)
           /\ \A i \in 1..(Len(s) + Len(t)) :
                (s \o t)[i] = IF i <= Len(s) THEN s[i] ELSE t[i - Len(s)]
OBVIOUS

LEMMA SameElements ==
    ASSUME NEW s \in Seq(Nat), NEW t \in Seq(Nat), Len(s) = Len(t), \A i \in 1..Len(s) : s[i] = t[i]
    PROVE  s = t
<1>1. s = [i \in 1..Len(s) |-> s[i]] /\ t = [i \in 1..Len(t) |-> t[i]]
  OBVIOUS
<1> QED BY <1>1

(* h is g with the bit RSV2 set; the same for a whole frame. *)
Reserves(g, h, k) == h[1] = g[1] + 32 /\ \A i \in 2..k : h[i] = g[i]
Reserve(s) == [s EXCEPT ![1] = @ + 32]

LEMMA ConcatFirst ==
    ASSUME NEW g \in Seq(Nat), NEW h \in Seq(Nat), NEW c \in Seq(Nat), Len(g) = Len(h), Len(g) >= 1,
           Reserves(g, h, Len(g))
    PROVE  Reserve(g \o c) = h \o c
<1>0. h[1] = g[1] + 32 /\ \A i \in 2..Len(g) : h[i] = g[i]
  BY DEF Reserves
<1>1. PICK m \in Nat : m = Len(g) + Len(c)
  BY ConcatElems
<1>2. PICK a \in Seq(Nat) : a = g \o c
  BY ConcatElems
<1>3. PICK b \in Seq(Nat) : b = h \o c
  BY ConcatElems
<1>4. Len(a) = m /\ \A i \in 1..m : a[i] = IF i <= Len(g) THEN g[i] ELSE c[i - Len(g)]
  BY <1>1, <1>2, ConcatElems
<1>5. Len(b) = m /\ \A i \in 1..m : b[i] = IF i <= Len(g) THEN h[i] ELSE c[i - Len(g)]
  BY <1>1, <1>3, ConcatElems
<1>6. 1 \in 1..m /\ Len(g) \in Nat /\ 1 <= Len(g)
  BY <1>1, ConcatElems
<1>7. PICK e : e = [a EXCEPT ![1] = @ + 32]
  OBVIOUS
<1>8. a[1] \in Nat
  BY <1>4, <1>6
<1>9. e \in Seq(Nat) /\ Len(e) = m /\ e[1] = a[1] + 32 /\ \A i \in 1..m : i # 1 => e[i] = a[i]
  BY <1>4, <1>6, <1>7, <1>8
<1>10. \A i \in 1..m : e[i] = b[i]
  <2> TAKE i \in 1..m
  <2>1. CASE i = 1
    BY <1>0, <1>4, <1>5, <1>6, <1>9, <2>1
  <2>2. CASE i # 1 /\ i <= Len(g)
    <3>1. i \in 2..Len(g)
      BY <1>6, <2>2
    <3> QED BY <1>0, <1>4, <1>5, <1>9, <2>2, <3>1
  <2>3. CASE i # 1 /\ ~(i <= Len(g))
    BY <1>4, <1>5, <1>9, <2>3
  <2> QED BY <2>1, <2>2, <2>3
<1>11. e = b
  BY <1>5, <1>9, <1>10, SameElements
<1> QED BY <1>2, <1>3, <1>7, <1>11, Zenon DEF Reserve

LEMMA FunctionIsSeq ==
    ASSUME NEW k \in Nat, NEW g \in [1..k -> Nat]
    PROVE  g \in Seq(Nat) /\ Len(g) = k
OBVIOUS

LEMMA OffsetBounds ==
    ASSUME NEW off \in {0, 2, 8}, NEW masked \in {0, 1}
    PROVE  off \in Nat /\ off <= 8 /\ masked * Bit7 \in Nat
BY ByteFacts

(* Setting RSV2 in the header sets it in the bytes. *)
LEMMA ReservedBytes ==
    ASSUME NEW hd \in [1..14 -> Nat], NEW hd2 \in [1..14 -> Nat], NEW off \in Nat, off <= 8,
           NEW k, NEW g, NEW h, NEW key, NEW bit \in Nat,
           Reserves(hd, hd2, 14),
           SentHas(g, k, hd, off, bit, key), SentHas(h, k, hd2, off, bit, key)
    PROVE  Reserves(g, h, k)
<1> USE DEF SentHas, Reserves
<1>1. h[1] = g[1] + 32
  <2>1. 1 \in 1..k /\ 1 <= 2 + off
    OBVIOUS
  <2> QED BY <2>1
<1>2. ASSUME NEW i \in 2..k PROVE h[i] = g[i]
  <2>1. i \in 1..k /\ i \in Nat /\ i >= 2
    OBVIOUS
  <2>2. CASE i = 2
    BY <2>2
  <2>3. CASE i # 2 /\ i <= 2 + off
    <3>1. i \in 2..14
      BY <2>3
    <3> QED BY <2>1, <2>3, <3>1
  <2>4. CASE i # 2 /\ ~(i <= 2 + off)
    BY <2>1, <2>4
  <2> QED BY <2>2, <2>3, <2>4
<1> QED BY <1>1, <1>2

SameWhenReserved(hd, hd2, off, masked, key, c) ==
    Reserve(Sent(hd, off, masked, key) \o c) = Sent(hd2, off, masked, key) \o c

LEMMA SentReserved ==
    ASSUME NEW hd \in [1..14 -> Nat], NEW hd2 \in [1..14 -> Nat], NEW off \in {0, 2, 8},
           NEW masked \in {0, 1}, NEW key \in Keys, NEW c \in Seq(Nat),
           Reserves(hd, hd2, 14)
    PROVE  SameWhenReserved(hd, hd2, off, masked, key, c)
<1> DEFINE k == 2 + off + 4 * masked
           g == Sent(hd, off, masked, key)
           h == Sent(hd2, off, masked, key)
<1>1. SentHas(g, k, hd, off, masked * Bit7, key)
  BY SentBytes, Zenon
<1>2. SentHas(h, k, hd2, off, masked * Bit7, key)
  BY SentBytes, Zenon
<1>3. off \in Nat /\ off <= 8 /\ masked * Bit7 \in Nat
  BY OffsetBounds, Zenon
<1> HIDE DEF k, g, h
<1>4. Reserves(g, h, k)
  BY <1>1, <1>2, <1>3, ReservedBytes, Zenon
<1>5. k \in Nat /\ k >= 2 /\ g \in [1..k -> Nat] /\ h \in [1..k -> Nat]
  BY <1>1, <1>2, Zenon DEF SentHas
<1>6. g \in Seq(Nat) /\ Len(g) = k /\ h \in Seq(Nat) /\ Len(h) = k
  BY <1>5, FunctionIsSeq, Zenon
<1>7. Len(g) = Len(h) /\ Len(g) >= 1 /\ Reserves(g, h, Len(g))
  <2>1. k >= 1
    BY <1>5
  <2> QED BY <1>4, <1>6, <2>1, Zenon
<1>8. Reserve(g \o c) = h \o c
  BY <1>4, <1>6, <1>7, ConcatFirst, Zenon
<1> QED BY <1>8, Zenon DEF g, h, SameWhenReserved

LEMMA CanReserve ==
    ASSUME NEW hd \in [1..14 -> Nat]
    PROVE  \E hd2 \in [1..14 -> Nat] : Reserves(hd, hd2, 14)
<1> DEFINE r == [i \in 1..14 |-> IF i = 1 THEN hd[1] + 32 ELSE hd[i]]
<1>1. hd[1] \in Nat
  OBVIOUS
<1>2. hd[1] + 32 \in Nat
  BY <1>1
<1>3. r \in [1..14 -> Nat] /\ r[1] = hd[1] + 32 /\ \A i \in 2..14 : r[i] = hd[i]
  BY <1>2
<1> HIDE DEF r
<1> QED BY <1>3 DEF Reserves

LEMMA ReservedHeader ==
    ASSUME NEW hd \in [1..14 -> Nat], NEW off \in {0, 2, 8}, NEW masked \in {0, 1}, NEW key \in Keys,
           NEW c \in Seq(Nat), NEW n, LengthIn(hd, off, n)
    PROVE  \E hd2 \in [1..14 -> Nat] :
              /\ hd2[1] = hd[1] + 32
              /\ LengthIn(hd2, off, n)
              /\ SameWhenReserved(hd, hd2, off, masked, key, c)
<1>1. PICK hd2 \in [1..14 -> Nat] : Reserves(hd, hd2, 14)
  BY CanReserve
<1>2. hd2[1] = hd[1] + 32 /\ \A i \in 2..14 : hd2[i] = hd[i]
  BY <1>1 DEF Reserves
<1>3. Uint16(hd2) = Uint16(hd) /\ IntOfUint64(hd2) = IntOfUint64(hd) /\ hd2[2] = hd[2]
  BY <1>2 DEF Uint16, IntOfUint64
<1>4. LengthIn(hd2, off, n)
  BY <1>3 DEF LengthIn
<1>5. SameWhenReserved(hd, hd2, off, masked, key, c)
  BY <1>1, SentReserved
<1> QED BY <1>2, <1>4, <1>5, Zenon

(* What Wire puts before the content. *)
LEMMA WireHeader ==
    ASSUME NEW f \in Inputs
    PROVE  \E hd \in [1..14 -> Nat], off \in {0, 2, 8}, masked \in {0, 1} :
              /\ hd[1] = FrameByte0(f)
              /\ LengthIn(hd, off, Len(Content(f)))
              /\ masked = MaskBit(~f.mask)
              /\ Wire(f) = Sent(hd, off, masked, f.key) \o Coded(f)
<1> DEFINE n == Len(Content(f))
           masked == MaskBit(~f.mask)
           g == GenerateHeader(~f.mask, f.fin, f.rsv1, f.opcode, n, f.key)
<1>1. /\ f.fin \in BOOLEAN /\ f.rsv1 \in BOOLEAN /\ f.rsv23 \in BOOLEAN /\ f.opcode \in 0..15
      /\ (~f.mask) \in BOOLEAN /\ f.mask \in BOOLEAN /\ f.key \in Keys /\ n \in Nat /\ IntLength(n)
  <2>1. (~f.mask) \in BOOLEAN
    BY Zenon
  <2>2. n \in Nat /\ IntLength(n)
    BY ContentFacts, Zenon
  <2> QED BY <2>1, <2>2, InputTyped, Zenon
<1>2. Generated(g, Byte0(f.opcode, f.fin, f.rsv1), n, masked, f.key)
  BY <1>1, GeneratedBytes
<1>3. PICK hd \in [1..14 -> Nat], off \in {0, 2, 8} :
        /\ hd[1] = Byte0(f.opcode, f.fin, f.rsv1)
        /\ LengthIn(hd, off, n)
        /\ g = Sent(hd, off, masked, f.key)
  BY <1>2, Zenon DEF Generated
<1>4. masked \in {0, 1}
  BY DEF MaskBit
<1>5. GenFrame(~f.mask, f.fin, f.rsv1, f.opcode, Content(f), f.key) = g \o Coded(f)
  BY <1>1 DEF GenFrame, Coded
<1> HIDE DEF g, masked, n
<1>6. CASE ~f.rsv23
  <2>1. hd[1] = FrameByte0(f)
    BY <1>3, <1>6 DEF FrameByte0, Byte0
  <2>2. Wire(f) = g \o Coded(f)
    BY <1>5, <1>6 DEF Wire
  <2> QED BY <1>3, <1>4, <2>1, <2>2 DEF masked, n
<1>7. CASE f.rsv23
  <2>1. f.key \in Keys /\ Coded(f) \in Seq(Nat)
    BY <1>1, CodedFacts
  <2>2. PICK hd2 \in [1..14 -> Nat] :
          /\ hd2[1] = hd[1] + 32
          /\ LengthIn(hd2, off, n)
          /\ SameWhenReserved(hd, hd2, off, masked, f.key, Coded(f))
    BY <1>3, <1>4, <2>1, ReservedHeader
  <2>3. hd2[1] = FrameByte0(f)
    BY <1>3, <1>7, <2>2 DEF FrameByte0
  <2>4. Wire(f) = Reserve(g \o Coded(f))
    BY <1>5, <1>7 DEF Wire, Reserve
  <2>5. Wire(f) = Sent(hd2, off, masked, f.key) \o Coded(f)
    BY <1>3, <2>2, <2>4, Zenon DEF SameWhenReserved
  <2> QED BY <1>4, <2>2, <2>3, <2>5, Zenon DEF masked, n
<1> QED BY <1>1, <1>6, <1>7

-----------------------------------------------------------------------------
(* Decoding. *)

LEMMA TailOfConcat ==
    ASSUME NEW a \in Seq(Nat), NEW t \in Seq(Nat), NEW k \in Nat, NEW n \in Nat,
           Len(a) = k + n, Len(t) = n, \A i \in 1..n : a[i + k] = t[i]
    PROVE  SubSeq(a, k + 1, k + n) = t
<1> DEFINE u == SubSeq(a, k + 1, k + n)
<1>1. \A i \in (k + 1)..(k + n) : i \in 1..Len(a)
  OBVIOUS
<1>2. u = [i \in 1..n |-> a[i + k]]
  BY <1>1
<1>3. t = [i \in 1..n |-> t[i]]
  OBVIOUS
<1> QED BY <1>2, <1>3

(* The bytes of a frame, header and content. *)
OnWire(w, s, c, k, n) ==
    /\ k \in Nat /\ n \in Nat /\ w \in Seq(Nat) /\ Len(w) = k + n
    /\ \A i \in 1..k : w[i] = s[i]
    /\ SubSeq(w, k + 1, k + n) = c

LEMMA WireBytes ==
    ASSUME NEW s, NEW k \in Nat, s \in [1..k -> Nat], NEW c \in Seq(Nat)
    PROVE  OnWire(s \o c, s, c, k, Len(c))
<1>1. s \in Seq(Nat) /\ Len(s) = k
  BY FunctionIsSeq
<1>2. PICK w : w = s \o c
  OBVIOUS
<1>3. PICK n : n = Len(c)
  OBVIOUS
<1>4. /\ w \in Seq(Nat) /\ n \in Nat /\ Len(w) = k + n
      /\ \A i \in 1..(k + n) : w[i] = IF i <= k THEN s[i] ELSE c[i - k]
  BY <1>1, <1>2, <1>3, ConcatElems
<1>5. \A i \in 1..k : w[i] = s[i]
  BY <1>4
<1>6. \A i \in 1..n : w[i + k] = c[i]
  <2> TAKE i \in 1..n
  <2>1. i + k \in 1..(k + n) /\ ~(i + k <= k) /\ (i + k) - k = i
    BY <1>4
  <2> QED BY <1>4, <2>1
<1>7. SubSeq(w, k + 1, k + n) = c
  BY <1>3, <1>4, <1>6, TailOfConcat
<1> QED BY <1>2, <1>3, <1>4, <1>5, <1>7 DEF OnWire

(* What Parse makes of the bytes w of the frame f. *)
Parsed(p, w, f) ==
    /\ p.length = Len(Content(f)) /\ p.length \in Nat /\ p.read \in Nat
    /\ Len(w) = p.read + p.length
    /\ SubSeq(w, p.read + 1, p.read + p.length) = Coded(f)
    /\ p.header \in [1..14 -> Nat]
    /\ p.header[1] = FrameByte0(f)
    /\ GetMask(p.header) <=> f.mask
    /\ f.mask => GetMaskKey(p.header) = f.key

LEMMA ParseWire ==
    ASSUME NEW f \in Inputs, NEW h \in [1..14 -> Nat]
    PROVE  Parsed(Parse(h, Wire(f)), Wire(f), f)
<1>1. PICK hd \in [1..14 -> Nat], off \in {0, 2, 8}, masked \in {0, 1} :
         /\ hd[1] = FrameByte0(f)
         /\ LengthIn(hd, off, Len(Content(f)))
         /\ masked = MaskBit(~f.mask)
         /\ Wire(f) = Sent(hd, off, masked, f.key) \o Coded(f)
  BY WireHeader
<1> DEFINE n == Len(Content(f))
           w == Wire(f)
           k == 2 + off + 4 * masked
           key == f.key
           c == Coded(f)
           s == Sent(hd, off, masked, key)
           p == Parse(h, w)
<1>2. key \in Keys /\ n \in Nat /\ c \in Seq(Nat) /\ Len(c) = n /\ f.mask \in BOOLEAN
  BY InputTyped, ContentFacts, CodedFacts
<1>3. SentHas(s, k, hd, off, masked * Bit7, key)
  BY <1>2, SentBytes
<1>4. LengthIn(hd, off, n) /\ w = s \o c
  BY <1>1
<1> HIDE DEF n, w, k, key, c, s, p
<1>5. k \in Nat /\ s \in [1..k -> Nat]
  BY <1>3, Zenon DEF SentHas
<1>6. OnWire(w, s, c, k, n)
  <2>1. OnWire(s \o c, s, c, k, Len(c))
    BY <1>2, <1>5, WireBytes
  <2> QED BY <1>2, <1>4, <2>1, Zenon
<1>7. StreamHas(w, hd, off, masked, key)
  <2>1. \A i \in 1..(2 + off + 4 * masked) : w[i] = Sent(hd, off, masked, key)[i]
    BY <1>6, Zenon DEF OnWire, k, s
  <2> QED BY <1>2, <2>1, SentOnStream
<1>8. ReadBack(p, hd, off, n, masked, key)
  BY <1>2, <1>4, <1>7, ParseReadsBack DEF p
<1>9. /\ p.length = n /\ p.read = k /\ p.header \in [1..14 -> Nat]
      /\ p.header[1] = hd[1] /\ p.header[2] \div Bit7 = masked
      /\ masked = 1 => \A i \in 1..4 : p.header[10 + i] = key[i]
  BY <1>8, Zenon DEF ReadBack, k
<1>10. f.mask <=> masked = 1
  <2>1. masked = IF ~f.mask THEN 0 ELSE 1
    BY <1>1, Zenon DEF MaskBit
  <2> QED BY <2>1
<1>11. GetMask(p.header) <=> f.mask
  BY <1>9, <1>10, Zenon DEF GetMask
<1>12. f.mask => GetMaskKey(p.header) = key
  <2>1. f.mask => \A i \in 1..4 : p.header[10 + i] = key[i]
    BY <1>9, <1>10, Zenon
  <2> QED BY <1>2, <2>1 DEF GetMaskKey, Keys
<1>13. p.read \in Nat /\ Len(w) = p.read + p.length /\ SubSeq(w, p.read + 1, p.read + p.length) = c
  BY <1>6, <1>9, Zenon DEF OnWire
<1>14. p.header[1] = FrameByte0(f)
  BY <1>1, <1>9, Zenon
<1> QED BY <1>2, <1>9, <1>11, <1>12, <1>13, <1>14, Zenon DEF Parsed, n, w, key, c, p

(* The bits of the first byte, with RSV2 set or not. *)
LEMMA FrameBits ==
    ASSUME NEW f \in Inputs, NEW h, h[1] = FrameByte0(f)
    PROVE  /\ GetFIN(h) <=> f.fin
           /\ GetRSV1(h) <=> f.rsv1
           /\ (GetRSV2(h) \/ GetRSV3(h)) <=> f.rsv23
           /\ GetOpcode(h) = f.opcode
<1> USE DEF GetFIN, GetRSV1, GetRSV2, GetRSV3, GetOpcode
<1>1. f.opcode \in 0..15
  BY InputTyped
<1> DEFINE b == f.opcode
<1> HIDE DEF b
<1>2. h[1] = b + (IF f.fin THEN 128 ELSE 0) + (IF f.rsv1 THEN 64 ELSE 0) + (IF f.rsv23 THEN 32 ELSE 0)
  BY DEF FrameByte0, Byte0, b
<1>3. b \in 0..15
  BY <1>1 DEF b
<1>4. CASE f.fin /\ f.rsv1 /\ f.rsv23
  <2>1. h[1] = b + 224
    BY <1>2, <1>3, <1>4
  <2> QED BY <1>3, <1>4, <2>1 DEF b
<1>5. CASE f.fin /\ f.rsv1 /\ ~f.rsv23
  <2>1. h[1] = b + 192
    BY <1>2, <1>3, <1>5
  <2> QED BY <1>3, <1>5, <2>1 DEF b
<1>6. CASE f.fin /\ ~f.rsv1 /\ f.rsv23
  <2>1. h[1] = b + 160
    BY <1>2, <1>3, <1>6
  <2> QED BY <1>3, <1>6, <2>1 DEF b
<1>7. CASE f.fin /\ ~f.rsv1 /\ ~f.rsv23
  <2>1. h[1] = b + 128
    BY <1>2, <1>3, <1>7
  <2> QED BY <1>3, <1>7, <2>1 DEF b
<1>8. CASE ~f.fin /\ f.rsv1 /\ f.rsv23
  <2>1. h[1] = b + 96
    BY <1>2, <1>3, <1>8
  <2> QED BY <1>3, <1>8, <2>1 DEF b
<1>9. CASE ~f.fin /\ f.rsv1 /\ ~f.rsv23
  <2>1. h[1] = b + 64
    BY <1>2, <1>3, <1>9
  <2> QED BY <1>3, <1>9, <2>1 DEF b
<1>10. CASE ~f.fin /\ ~f.rsv1 /\ f.rsv23
  <2>1. h[1] = b + 32
    BY <1>2, <1>3, <1>10
  <2> QED BY <1>3, <1>10, <2>1 DEF b
<1>11. CASE ~f.fin /\ ~f.rsv1 /\ ~f.rsv23
  <2>1. h[1] = b
    BY <1>2, <1>3, <1>11
  <2> QED BY <1>3, <1>11, <2>1 DEF b
<1> QED BY <1>4, <1>5, <1>6, <1>7, <1>8, <1>9, <1>10, <1>11

LEMMA PayloadOf ==
    ASSUME NEW f \in Inputs
    PROVE  /\ f.code >= 0 => SubSeq(Content(f), 3, Len(Content(f))) = f.payload
           /\ f.code = NoCode => Content(f) = f.payload
<1> DEFINE c == Content(f)
           t == f.payload
<1>1. c \in Seq(Bits) /\ t \in Seq(Bits)
  BY ContentFacts, InputTyped
<1>2. c \in Seq(Nat) /\ t \in Seq(Nat) /\ Len(t) \in Nat
  BY <1>1 DEF Bits
<1>3. f.code >= 0 => Len(c) = Len(t) + 2 /\ \A i \in 1..Len(t) : c[i + 2] = t[i]
  BY ContentFacts
<1> HIDE DEF c, t
<1>4. f.code >= 0 => SubSeq(c, 3, Len(c)) = t
  <2> SUFFICES ASSUME f.code >= 0 PROVE SubSeq(c, 3, Len(c)) = t
    OBVIOUS
  <2>1. Len(c) = 2 + Len(t)
    BY <1>2, <1>3
  <2>2. SubSeq(c, 2 + 1, 2 + Len(t)) = t
    BY <1>2, <1>3, <2>1, TailOfConcat
  <2> QED BY <2>1, <2>2
<1> QED BY <1>4, ContentFacts DEF c, t

(* d is the frame f: its header bits, its length, its payload; and no byte *)
(* of it is left.                                                          *)
Decoded(d, f) ==
    /\ d.sent = f /\ d.code = f.code
    /\ d.header \in [1..14 -> Nat] /\ d.unread = 0
    /\ d.fin <=> f.fin
    /\ d.rsv1 <=> f.rsv1
    /\ d.rsv23 <=> f.rsv23
    /\ d.mask <=> f.mask
    /\ d.opcode = f.opcode
    /\ d.length = Len(Content(f))
    /\ d.payload \in Seq(Bits) /\ Len(d.payload) <= Len(Content(f))
    /\ f.code # OneByte => d.payload = f.payload

LEMMA DecodedFrame ==
    ASSUME NEW f \in Inputs, NEW w, NEW p, Parsed(p, w, f)
    PROVE  Decoded(DecodeBytes(f, w, p), f)
<1> DEFINE end  == p.read + p.length
           body == SubSeq(w, p.read + 1, IF end <= Len(w) THEN end ELSE Len(w))
           data == IF GetMask(p.header) THEN MaskXOR(body, GetMaskKey(p.header)) ELSE body
           load == IF f.code >= 0 THEN SubSeq(data, 3, Len(data)) ELSE data
           d == DecodeBytes(f, w, p)
           c == Content(f)
<1>1. /\ d.sent = f /\ d.header = p.header /\ (d.fin <=> GetFIN(p.header))
      /\ (d.rsv1 <=> GetRSV1(p.header)) /\ (d.rsv23 <=> GetRSV2(p.header) \/ GetRSV3(p.header))
      /\ d.opcode = GetOpcode(p.header) /\ (d.mask <=> GetMask(p.header))
      /\ d.length = p.length /\ d.unread = Len(w) - end /\ d.code = f.code /\ d.payload = load
  BY DEF DecodeBytes
<1> HIDE DEF d
<1>2. /\ p.length \in Nat /\ p.read \in Nat /\ Len(w) = p.read + p.length
      /\ SubSeq(w, p.read + 1, p.read + p.length) = Coded(f)
      /\ p.length = Len(c)
  BY DEF Parsed
<1>3. d.unread = 0
  BY <1>1, <1>2
<1>4. body = Coded(f)
  BY <1>2
<1> HIDE DEF body, end
<1>5. data = c
  <2>1. c \in Seq(Bits) /\ f.key \in Keys
    BY ContentFacts, InputTyped
  <2>2. CASE f.mask
    <3>1. data = MaskXOR(MaskXOR(c, f.key), f.key)
      BY <1>4, <2>2, Zenon DEF Parsed, Coded
    <3> QED BY <2>1, <3>1, MaskUndoesItself
  <2>3. CASE ~f.mask
    BY <1>4, <2>3, Zenon DEF Parsed, Coded
  <2> QED BY <2>2, <2>3
<1> HIDE DEF data
<1>6. c \in Seq(Bits) /\ Len(c) \in Nat /\ f.payload \in Seq(Bits) /\ Len(f.payload) \in Nat
        /\ f.code \in Int /\ f.code >= NoCode
  BY ContentFacts, InputTyped
<1> SUFFICES Decoded(d, f)
  BY DEF d
<1>7. CASE f.code >= 0
  <2>1. load = f.payload
    BY <1>5, <1>7, PayloadOf
  <2>2. Len(c) = Len(f.payload) + 2
    BY <1>7, ContentFacts
  <2>3. Len(f.payload) <= Len(c)
    BY <1>6, <2>2
  <2> HIDE DEF load
  <2>4. load \in Seq(Bits) /\ Len(load) <= Len(c) /\ load = f.payload
    BY <1>6, <2>1, <2>3, Zenon
  <2> QED BY <1>1, <1>2, <1>3, <2>4, FrameBits, Zenon DEF Parsed, Decoded
<1>8. CASE ~(f.code >= 0)
  <2>1. load = c
    BY <1>5, <1>8
  <2>2. f.code # OneByte => f.code = NoCode
    BY <1>6, <1>8 DEF NoCode, OneByte
  <2>3. f.code # OneByte => load = f.payload
    BY <2>1, <2>2, PayloadOf
  <2>4. load \in Seq(Bits) /\ Len(load) <= Len(c)
    BY <1>6, <2>1
  <2> HIDE DEF load
  <2> QED BY <1>1, <1>2, <1>3, <2>3, <2>4, FrameBits, Zenon DEF Parsed, Decoded
<1> QED BY <1>7, <1>8

(* A frame is read as what was sent, whatever an earlier frame left in     *)
(* c.fh: its bits, opcode and length, its payload after both ends have     *)
(* masked it, and to its last byte (genFrame, Parse, readMessage).         *)
THEOREM FrameRoundTrip ==
    ASSUME NEW f \in Inputs, fh \in [1..14 -> Nat]
    PROVE  Decoded(Decode(f), f)
BY ParseWire, DecodedFrame DEF Decode

-----------------------------------------------------------------------------
(* The inductive invariant of readMessage.  c.fh keeps the shape Parse     *)
(* needs; every message delivered was within the limits when it was; what  *)
(* is kept for an unfinished one is within the limit while the loop runs.  *)

Deliverable ==
    {m \in [opcode : {Text, Binary}, data : Seq(Bits)] :
        /\ Len(m.data) <= ReadMaxPayloadSize
        /\ CheckUtf8Enabled /\ m.opcode = Text => ValidUtf8(m.data)}

Partial ==
    [initialized : BOOLEAN, compressed : BOOLEAN, opcode : 0..2, buffer : Seq(Bits)]

ReaderInv ==
    /\ fh \in [1..14 -> Nat]
    /\ unread = 0
    /\ messages \in Seq(Deliverable)
    /\ continuationFrame \in Partial
    /\ continuationFrame.initialized => continuationFrame.opcode \in {Text, Binary}
    /\ status = Reading => Len(continuationFrame.buffer) <= ReadMaxPayloadSize
    /\ status # Reading => Sendable(status)

LEMMA Codes ==
    /\ Sendable(CloseNormalClosure) /\ Sendable(CloseProtocolError) /\ Sendable(CloseUnsupportedData)
    /\ Sendable(CloseMessageTooLarge) /\ Sendable(CloseInternalErr) /\ Sendable(0)
    /\ ~Sendable(Reading)
BY DEF Sendable, Reserved, CloseNormalClosure, CloseProtocolError, CloseUnsupportedData,
       CloseMessageTooLarge, CloseInternalErr, Reading

LEMMA ResponseSendable ==
    ASSUME NEW d, d.code \in Int, d.code >= NoCode
    PROVE  Sendable(ResponseCode(d))
<1>1. CASE d.code = NoCode
  BY <1>1, Codes DEF ResponseCode, NoCode
<1>2. CASE d.code = OneByte
  BY <1>2, Codes DEF ResponseCode, NoCode, OneByte
<1>3. CASE d.code >= 0
  <2>0. d.code # NoCode /\ d.code # OneByte
    BY <1>3 DEF NoCode, OneByte
  <2>1. CASE ~CheckEncoding(CloseConnection, d.payload)
    BY <1>3, <2>0, <2>1, Codes DEF ResponseCode
  <2>2. CASE CheckEncoding(CloseConnection, d.payload)
    <3> DEFINE c == d.code
    <3>1. ResponseCode(d) =
            IF c \in Reserved \/ c < 1000 \/ c >= 5000 \/ (c >= 1016 /\ c < 3000)
            THEN CloseProtocolError
            ELSE IF c < 1016 THEN CloseNormalClosure ELSE c
      BY <1>3, <2>0, <2>2, Zenon DEF ResponseCode
    <3>2. c \in Int
      OBVIOUS
    <3> HIDE DEF c
    <3> QED BY <3>1, <3>2, Codes DEF Sendable
  <2> QED BY <2>1, <2>2
<1> QED BY <1>1, <1>2, <1>3 DEF NoCode, OneByte

LEMMA HeaderErrorCode ==
    ASSUME NEW d
    PROVE  Sendable(HeaderError(d))
BY Codes DEF HeaderError

LEMMA GoodHeader ==
    ASSUME NEW d, d.length \in Nat, HeaderError(d) = 0
    PROVE  d.length <= ReadMaxPayloadSize
<1>1. ReadMaxPayloadSize \in Nat
  BY ReaderAssumption
<1> QED BY <1>1 DEF HeaderError, CloseMessageTooLarge

LEMMA PayloadFits ==
    ASSUME NEW f \in Inputs, NEW d, Decoded(d, f), HeaderError(d) = 0
    PROVE  Len(d.payload) <= ReadMaxPayloadSize
<1>1. Len(Content(f)) \in Nat /\ d.length = Len(Content(f))
  BY ContentFacts DEF Decoded
<1>2. d.length <= ReadMaxPayloadSize
  BY <1>1, GoodHeader
<1>3. d.payload \in Seq(Bits) /\ Len(d.payload) <= Len(Content(f)) /\ Len(d.payload) \in Nat
  BY DEF Decoded
<1>4. ReadMaxPayloadSize \in Nat
  BY ReaderAssumption
<1> QED BY <1>1, <1>2, <1>3, <1>4

LEMMA LeaveFacts ==
    ASSUME NEW code, Leave(code), Sendable(code), messages \in Seq(Deliverable)
    PROVE  messages' \in Seq(Deliverable) /\ Sendable(status') /\ status' # Reading
BY Codes, Zenon DEF Leave

(* What emitMessage hands to OnMessage is within the limit, and a text is  *)
(* valid.                                                                  *)
LEMMA Emitted ==
    ASSUME messages \in Seq(Deliverable), NEW d, NEW opcode \in {Text, Binary},
           NEW compressed \in BOOLEAN, NEW data \in Seq(Bits), Len(data) <= ReadMaxPayloadSize,
           EmitMessage(d, opcode, compressed, data)
    PROVE  /\ messages' \in Seq(Deliverable)
           /\ status' = status \/ Sendable(status')
<1> DEFINE body == IF compressed THEN Inflate(data) ELSE data
           m == [opcode |-> opcode, data |-> body]
<1>1. CASE Leave(CloseInternalErr) \/ Leave(CloseUnsupportedData)
  BY <1>1, LeaveFacts, Codes, Zenon
<1>2. CASE /\ ~(compressed /\ InflateFails(data))
           /\ CheckEncoding(opcode, body)
           /\ messages' = Append(messages, m)
           /\ UNCHANGED <<status, controls>>
  <2>1. ReadMaxPayloadSize \in Nat /\ Len(data) \in Nat
    BY ReaderAssumption
  <2>2. body \in Seq(Bits) /\ Len(body) <= ReadMaxPayloadSize
    <3>1. CASE compressed
      <4>1. 2 * Len(data) <= ReadMaxPayloadSize
        BY <1>2, <2>1, <3>1 DEF InflateFails
      <4>2. Inflate(data) \in Seq(Bits) /\ Len(Inflate(data)) = Len(data) + Len(data)
        BY DEF Inflate
      <4>3. Len(Inflate(data)) <= ReadMaxPayloadSize
        BY <2>1, <4>1, <4>2
      <4> QED BY <3>1, <4>2, <4>3, Zenon
    <3>2. CASE ~compressed
      BY <3>2, Zenon
    <3> QED BY <3>1, <3>2
  <2> HIDE DEF body
  <2>3. CheckUtf8Enabled /\ opcode = Text => ValidUtf8(body)
    BY <1>2, Zenon DEF CheckEncoding
  <2>4. m \in [opcode : {Text, Binary}, data : Seq(Bits)] /\ m.opcode = opcode /\ m.data = body
    BY <2>2
  <2> HIDE DEF m
  <2>5. m \in Deliverable
    BY <2>2, <2>3, <2>4, Zenon DEF Deliverable
  <2> QED BY <1>2, <2>5
<1> HIDE DEF m
<1> QED BY <1>1, <1>2, Zenon DEF EmitMessage, body, m

LEMMA ReaderInit == Init => ReaderInv
<1> SUFFICES ASSUME Init PROVE ReaderInv
  OBVIOUS
<1> USE DEF Init
<1>1. fh \in [1..14 -> Nat] /\ unread = 0
  BY DEF ZeroHeader
<1>2. messages \in Seq(Deliverable)
  OBVIOUS
<1>3. /\ continuationFrame \in Partial /\ ~continuationFrame.initialized
      /\ continuationFrame.buffer = <<>>
  BY DEF Partial, NoFrame
<1>4. Len(continuationFrame.buffer) <= ReadMaxPayloadSize
  <2>1. ReadMaxPayloadSize \in Nat
    BY ReaderAssumption
  <2> QED BY <1>3, <2>1
<1> QED BY <1>1, <1>2, <1>3, <1>4, Zenon DEF ReaderInv

(* What a frame that passed the checks on its header leaves to show: the   *)
(* messages, the unfinished one, and the code if the loop is left.         *)
BodyInv ==
    /\ messages \in Seq(Deliverable)
    /\ continuationFrame \in Partial
    /\ continuationFrame.initialized => continuationFrame.opcode \in {Text, Binary}
    /\ status = Reading => Len(continuationFrame.buffer) <= ReadMaxPayloadSize
    /\ status # Reading => Sendable(status)

LEMMA StoppedBody ==
    ASSUME BodyInv, NEW code, Sendable(code), Leave(code), UNCHANGED continuationFrame
    PROVE  BodyInv'
BY LeaveFacts, Zenon DEF BodyInv

LEMMA WholeStep ==
    ASSUME BodyInv, status = Reading, NEW f \in Inputs, NEW d, Decoded(d, f), ReadWhole(d)
    PROVE  BodyInv'
<1>1. CASE Leave(CloseProtocolError)
  BY <1>1, Codes, StoppedBody, Zenon DEF ReadWhole
<1>2. CASE EmitMessage(d, d.opcode, Enabled /\ d.rsv1, d.payload)
  <2>1. d.opcode \in {Text, Binary} /\ d.payload \in Seq(Bits) /\ UNCHANGED continuationFrame
    BY Zenon DEF ReadWhole, Decoded
  <2>2. (Enabled /\ d.rsv1) \in BOOLEAN
    BY Zenon
  <2>3. Len(d.payload) <= ReadMaxPayloadSize
    BY PayloadFits DEF ReadWhole, Accepts
  <2>4. messages' \in Seq(Deliverable) /\ (status' = status \/ Sendable(status'))
    BY <1>2, <2>1, <2>2, <2>3, Emitted, Zenon DEF BodyInv
  <2> QED BY <2>1, <2>4, Codes, Zenon DEF BodyInv
<1> QED BY <1>1, <1>2, Zenon DEF ReadWhole

LEMMA Extended ==
    ASSUME NEW cf \in Partial, NEW d, d.payload \in Seq(Bits)
    PROVE  /\ Extend(cf, d) \in Partial
           /\ Extend(cf, d).initialized = cf.initialized
           /\ Extend(cf, d).compressed = cf.compressed
           /\ Extend(cf, d).opcode = cf.opcode
           /\ Extend(cf, d).buffer = cf.buffer \o d.payload
           /\ Extend(cf, d).buffer \in Seq(Bits)
<1>1. cf.buffer \o d.payload \in Seq(Bits)
  BY DEF Partial
<1> QED BY <1>1 DEF Partial, Extend

LEMMA FirstStep ==
    ASSUME BodyInv, status = Reading, NEW f \in Inputs, NEW d, Decoded(d, f), ReadFirst(d)
    PROVE  BodyInv'
<1>1. CASE Leave(CloseProtocolError) /\ UNCHANGED continuationFrame
  BY <1>1, Codes, StoppedBody, Zenon
<1> DEFINE start == [initialized |-> TRUE, compressed |-> Enabled /\ d.rsv1,
                     opcode |-> d.opcode, buffer |-> <<>>]
<1>2. CASE continuationFrame' = Extend(start, d) /\ UNCHANGED <<status, messages, controls>>
  <2>1. d.opcode \in {Text, Binary} /\ d.payload \in Seq(Bits)
    BY Zenon DEF ReadFirst, Decoded
  <2>2. start \in Partial /\ start.initialized /\ start.opcode = d.opcode /\ start.buffer = <<>>
    BY <2>1 DEF Partial, Text, Binary
  <2> HIDE DEF start
  <2>3. /\ continuationFrame' \in Partial
        /\ continuationFrame'.opcode = d.opcode
        /\ continuationFrame'.buffer = <<>> \o d.payload
    BY <1>2, <2>1, <2>2, Extended
  <2>4. continuationFrame'.buffer = d.payload
    BY <2>1, <2>3
  <2>5. Len(d.payload) <= ReadMaxPayloadSize
    BY PayloadFits DEF ReadFirst, Accepts
  <2> QED BY <1>2, <2>1, <2>3, <2>4, <2>5, Zenon DEF BodyInv
<1> QED BY <1>1, <1>2, Zenon DEF ReadFirst

LEMMA ContinuationStep ==
    ASSUME BodyInv, status = Reading, NEW f \in Inputs, NEW d, Decoded(d, f), ReadContinuation(d)
    PROVE  BodyInv'
<1> DEFINE cf == Extend(continuationFrame, d)
<1>1. d.payload \in Seq(Bits)
  BY Zenon DEF Decoded
<1>2. /\ cf \in Partial /\ cf.buffer \in Seq(Bits) /\ cf.initialized = continuationFrame.initialized
      /\ cf.opcode = continuationFrame.opcode
  BY <1>1, Extended DEF BodyInv
<1>3. cf.initialized => cf.opcode \in {Text, Binary}
  BY <1>2, Zenon DEF BodyInv
<1>31. \/ ~cf.initialized /\ Leave(CloseProtocolError) /\ UNCHANGED continuationFrame
       \/ /\ cf.initialized /\ Len(cf.buffer) > ReadMaxPayloadSize
          /\ Leave(CloseMessageTooLarge)
          /\ continuationFrame' = cf
       \/ /\ cf.initialized /\ Len(cf.buffer) <= ReadMaxPayloadSize /\ ~d.fin
          /\ continuationFrame' = cf
          /\ UNCHANGED <<status, messages, controls>>
       \/ /\ cf.initialized /\ Len(cf.buffer) <= ReadMaxPayloadSize /\ d.fin
          /\ continuationFrame' = NoFrame
          /\ EmitMessage(d, cf.opcode, cf.compressed, cf.buffer)
  BY Zenon DEF ReadContinuation
<1> HIDE DEF cf
<1>4. CASE ~cf.initialized /\ Leave(CloseProtocolError) /\ UNCHANGED continuationFrame
  BY <1>4, Codes, StoppedBody, Zenon
<1>5. CASE cf.initialized /\ Leave(CloseMessageTooLarge) /\ continuationFrame' = cf
  <2>1. messages' \in Seq(Deliverable) /\ Sendable(status') /\ status' # Reading
    BY <1>5, Codes, LeaveFacts, Zenon DEF BodyInv
  <2> QED BY <1>2, <1>3, <1>5, <2>1, Zenon DEF BodyInv
<1>6. CASE /\ cf.initialized /\ Len(cf.buffer) <= ReadMaxPayloadSize
           /\ continuationFrame' = cf
           /\ UNCHANGED <<status, messages, controls>>
  BY <1>2, <1>3, <1>6, Zenon DEF BodyInv
<1>7. CASE /\ cf.initialized /\ Len(cf.buffer) <= ReadMaxPayloadSize
           /\ continuationFrame' = NoFrame
           /\ EmitMessage(d, cf.opcode, cf.compressed, cf.buffer)
  <2>1. cf.compressed \in BOOLEAN
    BY <1>2 DEF Partial
  <2>2. messages' \in Seq(Deliverable) /\ (status' = status \/ Sendable(status'))
    BY <1>2, <1>3, <1>7, <2>1, Emitted, Zenon DEF BodyInv
  <2>3. NoFrame \in Partial /\ ~NoFrame.initialized /\ NoFrame.buffer = <<>>
    BY DEF NoFrame, Partial
  <2>4. Len(NoFrame.buffer) <= ReadMaxPayloadSize
    <3>1. ReadMaxPayloadSize \in Nat
      BY ReaderAssumption
    <3> QED BY <2>3, <3>1
  <2> QED BY <1>7, <2>2, <2>3, <2>4, Codes, Zenon DEF BodyInv
<1> QED BY <1>31, <1>4, <1>5, <1>6, <1>7, Zenon

LEMMA ControlStep ==
    ASSUME BodyInv, NEW d, ReadControl(d)
    PROVE  BodyInv'
<1>1. CASE UNCHANGED <<status, messages, accepted>>
  BY <1>1, Zenon DEF ReadControl, BodyInv
<1>2. CASE Leave(CloseProtocolError)
  BY <1>2, Codes, StoppedBody, Zenon DEF ReadControl
<1> QED BY <1>1, <1>2, Zenon DEF ReadControl

LEMMA CloseStep ==
    ASSUME BodyInv, NEW f \in Inputs, NEW d, Decoded(d, f), ReadClose(d)
    PROVE  BodyInv'
<1>1. d.code \in Int /\ d.code >= NoCode
  BY InputTyped, Zenon DEF Decoded
<1>2. PICK code : code = IF ControlOK(d) THEN ResponseCode(d) ELSE CloseProtocolError
  OBVIOUS
<1>3. Sendable(code)
  BY <1>1, <1>2, ResponseSendable, Codes, Zenon
<1>4. Leave(code) /\ UNCHANGED continuationFrame
  BY <1>2, Zenon DEF ReadClose
<1> QED BY <1>3, <1>4, StoppedBody

LEMMA ReaderStep == ReaderInv /\ [Next]_vars => ReaderInv'
<1> SUFFICES ASSUME ReaderInv, [Next]_vars PROVE ReaderInv'
  OBVIOUS
<1>1. fh \in [1..14 -> Nat] /\ unread = 0 /\ BodyInv
  BY Zenon DEF ReaderInv, BodyInv
<1>2. SUFFICES fh' \in [1..14 -> Nat] /\ unread' = 0 /\ BodyInv'
  BY Zenon DEF ReaderInv, BodyInv
<1>3. CASE UNCHANGED vars
  BY <1>1, <1>3, Zenon DEF vars, BodyInv
<1>4. CASE ReadIOError
  <2>1. BodyInv'
    BY <1>1, <1>4, Codes, StoppedBody, Zenon DEF ReadIOError
  <2> QED BY <1>1, <1>4, <2>1, Zenon DEF ReadIOError
<1>5. ASSUME status = Reading, NEW f \in Inputs, NEW d, d = Decode(f),
             \/ ReadBadHeader(d) \/ ReadControl(d) \/ ReadClose(d)
             \/ ReadWhole(d) \/ ReadFirst(d) \/ ReadContinuation(d)
      PROVE  fh' \in [1..14 -> Nat] /\ unread' = 0 /\ BodyInv'
  <2>1. Decoded(d, f)
    BY <1>1, <1>5, FrameRoundTrip
  <2>2. d.header \in [1..14 -> Nat] /\ d.unread = 0
    BY <2>1, Zenon DEF Decoded
  <2>3. CASE ReadBadHeader(d)
    <3>1. BodyInv'
      BY <1>1, <2>3, HeaderErrorCode, StoppedBody, Zenon DEF ReadBadHeader
    <3> QED BY <1>1, <2>2, <2>3, <3>1, Zenon DEF ReadBadHeader, ReadHeader
  <2>4. CASE Accepts(d)
    <3>1. fh' \in [1..14 -> Nat] /\ unread' = 0
      BY <2>2, <2>4, Zenon DEF Accepts, ReadHeader
    <3>2. CASE ReadControl(d)
      BY <1>1, <3>1, <3>2, ControlStep
    <3>3. CASE ReadClose(d)
      BY <1>1, <2>1, <3>1, <3>3, CloseStep
    <3>4. CASE ReadWhole(d)
      BY <1>1, <1>5, <2>1, <3>1, <3>4, WholeStep
    <3>5. CASE ReadFirst(d)
      BY <1>1, <1>5, <2>1, <3>1, <3>5, FirstStep
    <3>6. CASE ReadContinuation(d)
      BY <1>1, <1>5, <2>1, <3>1, <3>6, ContinuationStep
    <3>7. CASE ReadBadHeader(d)
      BY <2>3, <3>7
    <3> QED BY <1>5, <3>2, <3>3, <3>4, <3>5, <3>6, <3>7, Zenon
  <2> QED BY <1>5, <2>3, <2>4, Zenon DEF ReadControl, ReadClose, ReadWhole, ReadFirst, ReadContinuation
<1> QED BY <1>3, <1>4, <1>5, Zenon DEF Next

LEMMA ReaderAlways == Spec => []ReaderInv
BY ReaderInit, ReaderStep, PTL DEF Spec

-----------------------------------------------------------------------------
(* The reader never loses the boundary between frames: it has consumed     *)
(* every frame to its last byte, for lengths of all three forms, masked or *)
(* not, and whatever earlier frames left in c.fh.                          *)
THEOREM InSyncTheorem == Spec => []InSync
<1>1. ReaderInv => InSync
  BY Zenon DEF ReaderInv, InSync
<1> QED BY <1>1, ReaderAlways, PTL

LEMMA DeliverableMembers ==
    ASSUME messages \in Seq(Deliverable), NEW m \in ToSet(messages)
    PROVE  m \in Deliverable
BY DEF ToSet

(* Neither fragments nor decompression get a message past                  *)
(* ReadMaxPayloadSize, and no more than that is kept for an unfinished     *)
(* one while the loop runs.                                                *)
THEOREM WithinLimitTheorem == Spec => []WithinLimit
<1>1. ReaderInv => WithinLimit
  BY DeliverableMembers, Zenon DEF ReaderInv, WithinLimit, Deliverable
<1> QED BY <1>1, ReaderAlways, PTL

(* With CheckUtf8Enabled every text given to OnMessage is valid UTF-8,     *)
(* whole or reassembled, compressed or not.                                *)
THEOREM TextIsValidTheorem == Spec => []TextIsValid
<1>1. ReaderInv => TextIsValid
  BY DeliverableMembers, Zenon DEF ReaderInv, TextIsValid, Deliverable
<1> QED BY <1>1, ReaderAlways, PTL

(* Whatever ends the loop, a bad header, a bad payload or a close frame    *)
(* with any of the codes, the code answered is one an endpoint may send.   *)
THEOREM CloseCodeTheorem == Spec => []CloseCodeSendable
<1>1. ReaderInv => CloseCodeSendable
  BY Zenon DEF ReaderInv, CloseCodeSendable
<1> QED BY <1>1, ReaderAlways, PTL

-----------------------------------------------------------------------------
(* Reassembly: concatenation, piece by piece. *)

(* The least element of a set of naturals, by which facts about sequences  *)
(* of any length are proved.                                               *)
LEMMA Least ==
    ASSUME NEW T \in SUBSET Nat, T # {}
    PROVE  \E k \in T : \A j \in T : k <= j
<1>1. PICK k \in T : \A j \in T : ~ (<<j, k>> \in OpToRel(<, Nat))
  BY WFMin, NatLessThanWellFounded
<1>2. \A j \in T : ~ (j < k)
  BY <1>1 DEF OpToRel
<1> QED BY <1>2

(* g[i] is the concatenation of q[1] .. q[i], as FlattenSeq defines it. *)
Flat(q, g) == g = [i \in 1..Len(q) |-> IF i = 1 THEN q[i] ELSE g[i - 1] \o q[i]]

LEMMA FlatAgree ==
    ASSUME NEW q \in Seq(Seq(Bits)), NEW r \in Seq(Seq(Bits)), Len(q) <= Len(r),
           \A i \in 1..Len(q) : q[i] = r[i],
           NEW g, NEW h, Flat(q, g), Flat(r, h)
    PROVE  \A i \in 1..Len(q) : g[i] = h[i]
<1> DEFINE bad == {i \in 1..Len(q) : g[i] # h[i]}
<1>1. SUFFICES ASSUME bad # {} PROVE FALSE
  OBVIOUS
<1>2. PICK i \in bad : \A j \in bad : i <= j
  <2>1. bad \in SUBSET Nat
    OBVIOUS
  <2> HIDE DEF bad
  <2> QED BY <1>1, <2>1, Least
<1>3. /\ g[i] = IF i = 1 THEN q[i] ELSE g[i - 1] \o q[i]
      /\ h[i] = IF i = 1 THEN r[i] ELSE h[i - 1] \o r[i]
      /\ q[i] = r[i] /\ i \in 1..Len(q)
  <2>1. i \in 1..Len(q) /\ i \in 1..Len(r)
    OBVIOUS
  <2>2. g[i] = IF i = 1 THEN q[i] ELSE g[i - 1] \o q[i]
    BY <2>1, Zenon DEF Flat
  <2>3. h[i] = IF i = 1 THEN r[i] ELSE h[i - 1] \o r[i]
    BY <2>1, Zenon DEF Flat
  <2> QED BY <2>1, <2>2, <2>3
<1>4. i = 1
  <2> SUFFICES ASSUME i # 1 PROVE FALSE
    OBVIOUS
  <2>1. i - 1 \in 1..Len(q) /\ i - 1 \notin bad
    BY <1>2
  <2>2. g[i - 1] = h[i - 1]
    BY <2>1
  <2> QED BY <1>2, <1>3, <2>2
<1> QED BY <1>2, <1>3, <1>4

LEMMA Appended ==
    ASSUME NEW S, NEW s \in Seq(S), NEW x \in S
    PROVE  /\ Append(s, x) \in Seq(S) /\ Len(Append(s, x)) = Len(s) + 1
           /\ \A i \in 1..Len(s) : Append(s, x)[i] = s[i]
           /\ Append(s, x)[Len(s) + 1] = x
OBVIOUS

LEMMA FlatOne ==
    ASSUME NEW q \in Seq(Seq(Bits)), Len(q) = 0
    PROVE  Flat(q, <<>>)
BY DEF Flat

FlatNext(q, g, x) == IF Len(q) = 0 THEN x ELSE g[Len(q)] \o x
FlatMore(q, g, x) == [i \in 1..(Len(q) + 1) |-> IF i = Len(q) + 1 THEN FlatNext(q, g, x) ELSE g[i]]

LEMMA FlatAppend ==
    ASSUME NEW q \in Seq(Seq(Bits)), NEW x \in Seq(Bits), NEW g \in [1..Len(q) -> Seq(Bits)], Flat(q, g)
    PROVE  /\ FlatMore(q, g, x) \in [1..(Len(q) + 1) -> Seq(Bits)]
           /\ Flat(Append(q, x), FlatMore(q, g, x))
           /\ FlatMore(q, g, x)[Len(q) + 1] = FlatNext(q, g, x)
<1> DEFINE n == Len(q)
           y == FlatNext(q, g, x)
           h == FlatMore(q, g, x)
           r == Append(q, x)
<1>0. n \in Nat /\ g \in [1..n -> Seq(Bits)]
  OBVIOUS
<1>1. /\ n = 0 => y = x
      /\ n # 0 => y = g[n] \o x
      /\ h = [i \in 1..(n + 1) |-> IF i = n + 1 THEN y ELSE g[i]]
  BY DEF FlatNext, FlatMore
<1>2. Len(r) = n + 1 /\ (\A i \in 1..n : r[i] = q[i]) /\ r[n + 1] = x
  BY Appended
<1>3. g = [i \in 1..n |-> IF i = 1 THEN q[i] ELSE g[i - 1] \o q[i]]
  BY DEF Flat
<1> HIDE DEF n, y, h, r
<1>31. n # 0 => n \in 1..n /\ n + 1 # 1 /\ (n + 1) - 1 = n
  BY <1>0
<1>32. y \in Seq(Bits)
  <2>1. CASE n = 0
    BY <1>1, <2>1
  <2>2. CASE n # 0
    <3>1. g[n] \in Seq(Bits)
      BY <1>0, <1>31, <2>2
    <3>2. g[n] \o x \in Seq(Bits)
      BY <3>1
    <3> QED BY <1>1, <2>2, <3>2
  <2> QED BY <2>1, <2>2
<1>4. h \in [1..(n + 1) -> Seq(Bits)] /\ h[n + 1] = y /\ \A i \in 1..n : h[i] = g[i]
  <2>1. ASSUME NEW i \in 1..(n + 1), i # n + 1 PROVE i \in 1..n /\ g[i] \in Seq(Bits)
    BY <1>0, <2>1
  <2>2. n + 1 \in 1..(n + 1) /\ \A i \in 1..n : i \in 1..(n + 1) /\ i # n + 1
    BY <1>0
  <2>3. h \in [1..(n + 1) -> Seq(Bits)]
    BY <1>1, <1>32, <2>1
  <2>4. \A i \in 1..(n + 1) : h[i] = IF i = n + 1 THEN y ELSE g[i]
    BY <1>1, Zenon
  <2> QED BY <2>2, <2>3, <2>4
<1>5. \A i \in 1..(n + 1) : h[i] = IF i = 1 THEN r[i] ELSE h[i - 1] \o r[i]
  <2> TAKE i \in 1..(n + 1)
  <2>1. CASE i = n + 1
    <3>1. CASE n = 0
      BY <1>1, <1>2, <1>4, <2>1, <3>1
    <3>2. CASE n # 0
      <4>1. i # 1 /\ i - 1 = n /\ n \in 1..n
        BY <1>31, <2>1, <3>2
      <4>2. h[i - 1] = g[n] /\ h[i] = g[n] \o x /\ r[i] = x
        BY <1>1, <1>2, <1>4, <2>1, <3>2, <4>1
      <4> QED BY <4>1, <4>2
    <3> QED BY <3>1, <3>2
  <2>2. CASE i # n + 1
    <3>1. i \in 1..n /\ (i # 1 => i - 1 \in 1..n)
      BY <1>0, <2>2
    <3>2. g[i] = IF i = 1 THEN q[i] ELSE g[i - 1] \o q[i]
      BY <1>3, <3>1
    <3> QED BY <1>2, <1>4, <3>1, <3>2
  <2> QED BY <2>1, <2>2
<1>6. Flat(r, h)
  <2>1. h = [i \in 1..(n + 1) |-> h[i]]
    BY <1>4, Zenon
  <2>2. h = [i \in 1..(n + 1) |-> IF i = 1 THEN r[i] ELSE h[i - 1] \o r[i]]
    BY <1>5, <2>1
  <2> QED BY <1>2, <2>2 DEF Flat
<1> QED BY <1>4, <1>6 DEF n, y, h, r

LEMMA FlatExists ==
    ASSUME NEW q \in Seq(Seq(Bits))
    PROVE  \E g \in [1..Len(q) -> Seq(Bits)] : Flat(q, g)
<1> DEFINE Good(n) == \A r \in Seq(Seq(Bits)) :
                         Len(r) = n => \E g \in [1..n -> Seq(Bits)] : Flat(r, g)
           bad == {n \in Nat : ~Good(n)}
<1>1. bad = {}
  <2> SUFFICES ASSUME bad # {} PROVE FALSE
    OBVIOUS
  <2>1. PICK n \in bad : \A j \in bad : n <= j
    <3>1. bad \in SUBSET Nat
      OBVIOUS
    <3> HIDE DEF bad
    <3> QED BY <3>1, Least
  <2>2. PICK r \in Seq(Seq(Bits)) : Len(r) = n /\ ~ \E g \in [1..n -> Seq(Bits)] : Flat(r, g)
    BY <2>1
  <2>3. n # 0
    <3> SUFFICES ASSUME n = 0 PROVE FALSE
      OBVIOUS
    <3>1. Flat(r, <<>>) /\ <<>> \in [1..n -> Seq(Bits)]
      BY <2>2, FlatOne
    <3> QED BY <2>2, <3>1
  <2>4. n - 1 \in Nat /\ n - 1 \notin bad /\ (n - 1) + 1 = n
    BY <2>1, <2>3
  <2>5. Good(n - 1)
    BY <2>4
  <2> HIDE DEF bad
  <2> DEFINE p == SubSeq(r, 1, n - 1)
             x == r[n]
  <2>6. p \in Seq(Seq(Bits)) /\ Len(p) = n - 1 /\ x \in Seq(Bits) /\ r = Append(p, x)
    <3>1. n \in 1..Len(r) /\ Len(r) \in Nat /\ n \in Nat
      BY <2>2, <2>3
    <3>2. x \in Seq(Bits)
      BY <3>1
    <3>3. p \in Seq(Seq(Bits)) /\ Len(p) = n - 1 /\ \A i \in 1..(n - 1) : p[i] = r[i]
      BY <2>2, <3>1
    <3> HIDE DEF p, x
    <3> DEFINE m == n - 1
    <3>31. m \in Nat /\ m + 1 = n /\ Len(p) = m
      BY <2>4, <3>3
    <3> HIDE DEF m
    <3>311. PICK v : v = Append(p, x)
      OBVIOUS
    <3>312. /\ v \in Seq(Seq(Bits)) /\ Len(v) = Len(p) + 1
            /\ \A i \in 1..Len(p) : v[i] = p[i]
            /\ v[Len(p) + 1] = x
      BY <3>2, <3>3, <3>311, Appended
    <3>32. /\ Append(p, x) \in Seq(Seq(Bits)) /\ Len(Append(p, x)) = m + 1
           /\ \A i \in 1..m : Append(p, x)[i] = p[i]
           /\ Append(p, x)[m + 1] = x
      BY <3>31, <3>311, <3>312
    <3>4. /\ Append(p, x) \in Seq(Seq(Bits)) /\ Len(Append(p, x)) = n
          /\ \A i \in 1..(n - 1) : Append(p, x)[i] = r[i]
          /\ Append(p, x)[n] = x
      BY <3>3, <3>31, <3>32 DEF m
    <3>5. \A i \in 1..n : Append(p, x)[i] = r[i]
      <4> TAKE i \in 1..n
      <4>1. i \in 1..(n - 1) \/ i = n
        BY <3>1
      <4>2. CASE i \in 1..(n - 1)
        BY <3>4, <4>2, Zenon
      <4>3. CASE i = n
        BY <3>4, <4>3, Zenon DEF x
      <4> QED BY <4>1, <4>2, <4>3
    <3> QED BY <2>2, <3>2, <3>3, <3>4, <3>5
  <2>7. PICK g \in [1..(n - 1) -> Seq(Bits)] : Flat(p, g)
    BY <2>5, <2>6
  <2> HIDE DEF p, x
  <2>8. \E h \in [1..n -> Seq(Bits)] : Flat(r, h)
    <3>1. p \in Seq(Seq(Bits)) /\ x \in Seq(Bits) /\ g \in [1..Len(p) -> Seq(Bits)] /\ Flat(p, g)
      BY <2>6, <2>7
    <3>2. FlatMore(p, g, x) \in [1..(Len(p) + 1) -> Seq(Bits)] /\ Flat(Append(p, x), FlatMore(p, g, x))
      BY ONLY <3>1, FlatAppend, Zenon
    <3>3. Len(p) + 1 = n
      BY <2>4, <2>6
    <3> QED BY <2>6, <3>2, <3>3
  <2> QED BY <2>2, <2>8
<1>2. Good(Len(q))
  BY <1>1
<1> QED BY <1>2

LEMMA FlattenIs ==
    ASSUME NEW q \in Seq(Seq(Bits)), Len(q) # 0, NEW g, Flat(q, g)
    PROVE  FlattenSeq(q) = g[Len(q)]
<1> DEFINE F(f) == f = [i \in 1..Len(q) |-> IF i = 1 THEN q[i] ELSE f[i - 1] \o q[i]]
           at == CHOOSE f : F(f)
<1>1. FlattenSeq(q) = at[Len(q)]
  BY DEF FlattenSeq
<1>2. F(g)
  BY DEF Flat
<1>3. F(at)
  BY <1>2, Zenon
<1> HIDE DEF at
<1>4. Flat(q, at)
  BY <1>3 DEF Flat
<1>5. \A i \in 1..Len(q) : at[i] = g[i]
  BY <1>4, FlatAgree
<1> QED BY <1>1, <1>5

LEMMA FlattenNone ==
    ASSUME NEW q \in Seq(Seq(Bits)), Len(q) = 0
    PROVE  FlattenSeq(q) = <<>>
BY DEF FlattenSeq

LEMMA FlattenAppend ==
    ASSUME NEW q \in Seq(Seq(Bits)), NEW x \in Seq(Bits)
    PROVE  /\ FlattenSeq(q) \in Seq(Bits)
           /\ FlattenSeq(Append(q, x)) = FlattenSeq(q) \o x
<1>1. PICK g \in [1..Len(q) -> Seq(Bits)] : Flat(q, g)
  BY FlatExists
<1> DEFINE n == Len(q)
           y == FlatNext(q, g, x)
           h == FlatMore(q, g, x)
<1>2. n \in Nat /\ y = IF n = 0 THEN x ELSE g[n] \o x
  BY DEF FlatNext
<1>3. Flat(Append(q, x), h) /\ h[n + 1] = y
  BY <1>1, FlatAppend, Zenon
<1> HIDE DEF y, h
<1>4. FlattenSeq(Append(q, x)) = y
  <2>1. Append(q, x) \in Seq(Seq(Bits)) /\ Len(Append(q, x)) = n + 1 /\ n + 1 # 0
    BY Appended
  <2> QED BY <1>3, <2>1, FlattenIs
<1>5. CASE n = 0
  <2>1. FlattenSeq(q) = <<>> /\ y = x
    BY <1>2, <1>5, FlattenNone
  <2> QED BY <1>4, <2>1
<1>6. CASE n # 0
  <2>1. n \in 1..n
    BY <1>2, <1>6
  <2>2. FlattenSeq(q) = g[n] /\ g[n] \in Seq(Bits)
    BY <1>1, <1>2, <1>6, <2>1, FlattenIs
  <2>3. y = g[n] \o x
    BY <1>2, <1>6
  <2> QED BY <1>4, <2>2, <2>3
<1> QED BY <1>5, <1>6

-----------------------------------------------------------------------------
(* The frames up to one, when another is appended. *)

LEMMA LastFinFacts ==
    ASSUME NEW s, NEW k \in Nat
    PROVE  /\ LastFin(s, k) \in 0..k
           /\ LastFin(s, k) # 0 => s[LastFin(s, k)].fin
           /\ \A i \in 1..k : i > LastFin(s, k) => ~s[i].fin
<1> DEFINE I == {i \in 1..k : s[i].fin}
<1>1. LastFin(s, k) = IF I # {} THEN Max(I) ELSE 0
  BY DEF LastFin, SelectLastInSubSeq
<1>2. CASE I = {}
  BY <1>1, <1>2
<1>3. CASE I # {}
  <2> DEFINE T == {k - i : i \in I}
  <2>1. T \in SUBSET Nat /\ T # {}
    BY <1>3
  <2>2. PICK m \in T : \A j \in T : m <= j
    <3> HIDE DEF T
    <3> QED BY <2>1, Least
  <2>3. PICK x \in I : m = k - x
    BY <2>2
  <2>4. \A y \in I : x >= y
    <3> TAKE y \in I
    <3>1. k - y \in T
      OBVIOUS
    <3>2. k - x <= k - y
      BY <2>2, <2>3, <3>1
    <3> QED BY <3>2
  <2>5. Max(I) \in I /\ \A y \in I : Max(I) >= y
    BY <2>3, <2>4 DEF Max
  <2>6. LastFin(s, k) = Max(I)
    BY <1>1, <1>3
  <2>7. LastFin(s, k) \in I /\ \A y \in I : LastFin(s, k) >= y
    BY <2>5, <2>6
  <2> DEFINE l == LastFin(s, k)
  <2>8. l \in 1..k /\ s[l].fin
    BY <2>7
  <2>9. \A i \in 1..k : i > l => ~s[i].fin
    <3> SUFFICES ASSUME NEW i \in 1..k, i > l, s[i].fin PROVE FALSE
      OBVIOUS
    <3>1. i \in I
      OBVIOUS
    <3>2. l >= i
      BY <2>7, <3>1
    <3> QED BY <2>8, <3>2
  <2> HIDE DEF l
  <2>10. l \in 0..k
    BY <2>8
  <2> QED BY <2>8, <2>9, <2>10 DEF l
<1> QED BY <1>2, <1>3

LEMMA LastFinIs ==
    ASSUME NEW s, NEW k \in Nat, NEW l \in 0..k, l # 0 => s[l].fin,
           \A i \in 1..k : i > l => ~s[i].fin
    PROVE  LastFin(s, k) = l
<1>1. PICK m : m = LastFin(s, k)
  OBVIOUS
<1>2. m \in 0..k /\ (m # 0 => s[m].fin) /\ \A i \in 1..k : i > m => ~s[i].fin
  BY <1>1, LastFinFacts
<1>3. ~(m > l)
  <2>1. m > l => m \in 1..k
    BY <1>2
  <2> QED BY <1>2, <2>1
<1>4. ~(l > m)
  <2>1. l > m => l \in 1..k
    BY <1>2
  <2> QED BY <1>2, <2>1
<1> QED BY <1>1, <1>2, <1>3, <1>4

(* t is s with the frame f behind. *)
Behind(t, s, f) ==
    /\ Len(t) = Len(s) + 1 /\ t[Len(s) + 1] = f
    /\ \A i \in 1..Len(s) : t[i] = s[i]

LEMMA IsBehind ==
    ASSUME NEW s \in Seq(Inputs), NEW f \in Inputs
    PROVE  Append(s, f) \in Seq(Inputs) /\ Behind(Append(s, f), s, f) /\ Len(s) \in Nat
BY DEF Behind

LEMMA LastFinBehind ==
    ASSUME NEW s, NEW t, NEW f, Len(s) \in Nat, Behind(t, s, f)
    PROVE  /\ \A k \in 0..Len(s) : LastFin(t, k) = LastFin(s, k)
           /\ LastFin(t, Len(s) + 1) = IF f.fin THEN Len(s) + 1 ELSE LastFin(s, Len(s))
<1> DEFINE n == Len(s)
<1>0. n \in Nat /\ t[n + 1] = f /\ \A i \in 1..n : t[i] = s[i]
  BY DEF Behind
<1> HIDE DEF n
<1>1. ASSUME NEW k \in 0..n PROVE LastFin(t, k) = LastFin(s, k)
  <2> DEFINE l == LastFin(s, k)
  <2>1. l \in 0..k /\ (l # 0 => s[l].fin) /\ \A i \in 1..k : i > l => ~s[i].fin
    BY <1>0, LastFinFacts
  <2> HIDE DEF l
  <2>2. l # 0 => t[l].fin
    <3>1. l # 0 => l \in 1..n
      BY <1>0, <2>1
    <3> QED BY <1>0, <2>1, <3>1
  <2>3. \A i \in 1..k : i > l => ~t[i].fin
    <3>1. \A i \in 1..k : i \in 1..n
      BY <1>0
    <3> QED BY <1>0, <2>1, <3>1
  <2>4. LastFin(t, k) = l
    BY <1>0, <2>1, <2>2, <2>3, LastFinIs
  <2> QED BY <2>4 DEF l
<1>2. CASE f.fin
  <2>1. n + 1 \in 0..(n + 1) /\ t[n + 1].fin /\ \A i \in 1..(n + 1) : ~(i > n + 1)
    BY <1>0, <1>2
  <2>2. LastFin(t, n + 1) = n + 1
    BY <1>0, <2>1, LastFinIs
  <2> QED BY <1>1, <1>2, <2>2 DEF n
<1>3. CASE ~f.fin
  <2> DEFINE l == LastFin(s, n)
  <2>1. l \in 0..n /\ (l # 0 => s[l].fin) /\ \A i \in 1..n : i > l => ~s[i].fin
    BY <1>0, LastFinFacts
  <2> HIDE DEF l
  <2>2. l # 0 => t[l].fin
    <3>1. l # 0 => l \in 1..n
      BY <1>0, <2>1
    <3> QED BY <1>0, <2>1, <3>1
  <2>3. \A i \in 1..(n + 1) : i > l => ~t[i].fin
    <3> TAKE i \in 1..(n + 1)
    <3>1. i \in 1..n \/ i = n + 1
      BY <1>0
    <3> QED BY <1>0, <1>3, <2>1, <3>1
  <2>4. LastFin(t, n + 1) = l
    <3>1. l \in 0..(n + 1) /\ n + 1 \in Nat
      BY <1>0, <2>1
    <3> QED BY <2>2, <2>3, <3>1, LastFinIs
  <2> QED BY <1>1, <1>3, <2>4 DEF n, l
<1> QED BY <1>2, <1>3

LEMMA FinsBehind ==
    ASSUME NEW s, NEW t, NEW f, Len(s) \in Nat, Behind(t, s, f)
    PROVE  /\ Fins(s, Len(s)) \in Nat
           /\ \A k \in 1..Len(s) : Fins(t, k) = Fins(s, k)
           /\ \A k \in 1..Len(s) : s[k].fin => Fins(s, k) \in 1..Fins(s, Len(s))
           /\ Fins(t, Len(s) + 1) = IF f.fin THEN Fins(s, Len(s)) + 1 ELSE Fins(s, Len(s))
<1> DEFINE n == Len(s)
           F(k) == {j \in 1..k : s[j].fin}
           G(k) == {j \in 1..k : t[j].fin}
<1>0. n \in Nat /\ t[n + 1] = f /\ \A i \in 1..n : t[i] = s[i]
  BY DEF Behind
<1>1. \A k \in Nat : Fins(s, k) = Cardinality(F(k)) /\ Fins(t, k) = Cardinality(G(k))
  BY DEF Fins
<1> HIDE DEF n
<1>2. \A k \in Nat : IsFiniteSet(F(k))
  <2> TAKE k \in Nat
  <2>1. IsFiniteSet(1..k) /\ F(k) \subseteq 1..k
    BY FS_Interval
  <2> QED BY <2>1, FS_Subset
<1>3. \A k \in Nat : Cardinality(F(k)) \in Nat
  <2> HIDE DEF F
  <2> QED BY <1>2, FS_CardinalityType
<1>4. \A k \in 1..n : G(k) = F(k)
  BY <1>0
<1>5. \A k \in 1..n : s[k].fin => Cardinality(F(k)) \in 1..Cardinality(F(n))
  <2> SUFFICES ASSUME NEW k \in 1..n, s[k].fin PROVE Cardinality(F(k)) \in 1..Cardinality(F(n))
    OBVIOUS
  <2>1. F(k) \subseteq F(n) /\ k \in F(k) /\ k \in Nat
    BY <1>0
  <2> HIDE DEF F
  <2>2. Cardinality(F(k)) <= Cardinality(F(n))
    BY <1>0, <1>2, <2>1, FS_Subset
  <2>3. Cardinality(F(k)) # 0
    BY <1>2, <2>1, FS_EmptySet
  <2> QED BY <1>0, <1>3, <2>1, <2>2, <2>3
<1>6. f.fin => Fins(t, n + 1) = Fins(s, n) + 1
  <2> SUFFICES ASSUME f.fin PROVE Fins(t, n + 1) = Fins(s, n) + 1
    OBVIOUS
  <2>1. G(n + 1) = F(n) \cup {n + 1} /\ n + 1 \notin F(n)
    BY <1>0
  <2> HIDE DEF F, G
  <2>2. Cardinality(G(n + 1)) = Cardinality(F(n)) + 1
    BY <1>0, <1>2, <2>1, FS_AddElement
  <2> QED BY <1>0, <1>1, <2>2
<1>7. ~f.fin => Fins(t, n + 1) = Fins(s, n)
  <2> SUFFICES ASSUME ~f.fin PROVE Fins(t, n + 1) = Fins(s, n)
    OBVIOUS
  <2>1. G(n + 1) = F(n)
    BY <1>0
  <2> HIDE DEF F, G
  <2> QED BY <1>0, <1>1, <2>1
<1>8. \A k \in 1..n : k \in Nat
  BY <1>0
<1> HIDE DEF F, G
<1>9. /\ Fins(s, n) \in Nat
      /\ \A k \in 1..n : Fins(t, k) = Fins(s, k)
      /\ \A k \in 1..n : s[k].fin => Fins(s, k) \in 1..Fins(s, n)
  BY <1>0, <1>1, <1>3, <1>4, <1>5, <1>8
<1> QED BY <1>6, <1>7, <1>9 DEF n

-----------------------------------------------------------------------------
(* The payloads of a run of frames. *)

Parts(s, i, j) == [k \in 1..(j - i + 1) |-> s[i + k - 1].payload]

LEMMA AsSequence ==
    ASSUME NEW S, NEW m \in Nat, NEW q \in [1..m -> S]
    PROVE  q \in Seq(S) /\ Len(q) = m
OBVIOUS

LEMMA PartsTyped ==
    ASSUME NEW s \in Seq(Inputs), NEW i \in 1..(Len(s) + 1), NEW j \in (i - 1)..Len(s)
    PROVE  /\ Parts(s, i, j) \in Seq(Seq(Bits)) /\ Len(Parts(s, i, j)) = j - i + 1
           /\ Payloads(s, i, j) = FlattenSeq(Parts(s, i, j))
<1>1. j - i + 1 \in Nat
  OBVIOUS
<1>2. ASSUME NEW k \in 1..(j - i + 1) PROVE s[i + k - 1].payload \in Seq(Bits)
  <2>1. i + k - 1 \in 1..Len(s)
    OBVIOUS
  <2>2. s[i + k - 1] \in Inputs
    BY <2>1
  <2> QED BY <2>2, InputTyped
<1> DEFINE m == j - i + 1
<1>3. Parts(s, i, j) \in [1..m -> Seq(Bits)]
  BY <1>2 DEF Parts
<1> HIDE DEF m
<1>4. m \in Nat /\ m = j - i + 1
  BY <1>1 DEF m
<1>5. PICK q : q = Parts(s, i, j)
  OBVIOUS
<1>6. q \in Seq(Seq(Bits)) /\ Len(q) = m
  <2>1. q \in [1..m -> Seq(Bits)]
    BY <1>3, <1>5
  <2> QED BY <1>4, <2>1, AsSequence
<1>7. Payloads(s, i, j) = FlattenSeq(Parts(s, i, j))
  BY DEF Payloads, Parts
<1> QED BY <1>4, <1>5, <1>6, <1>7

LEMMA PayloadsNone ==
    ASSUME NEW s \in Seq(Inputs), NEW n, n = Len(s)
    PROVE  Payloads(s, n + 1, n) = <<>>
<1>1. n + 1 \in 1..(Len(s) + 1) /\ n \in ((n + 1) - 1)..Len(s) /\ n - (n + 1) + 1 = 0
  OBVIOUS
<1> DEFINE q == Parts(s, n + 1, n)
<1>2. q \in Seq(Seq(Bits)) /\ Len(q) = 0 /\ Payloads(s, n + 1, n) = FlattenSeq(q)
  BY <1>1, PartsTyped
<1> HIDE DEF q
<1>3. FlattenSeq(q) = <<>>
  BY <1>2, FlattenNone
<1> QED BY <1>2, <1>3

LEMMA PayloadsSame ==
    ASSUME NEW s, NEW t, NEW f, Len(s) \in Nat, Behind(t, s, f),
           NEW i \in 1..(Len(s) + 1), NEW j \in (i - 1)..Len(s)
    PROVE  Payloads(t, i, j) = Payloads(s, i, j)
<1>1. Parts(t, i, j) = Parts(s, i, j)
  <2>1. \A k \in 1..(j - i + 1) : t[i + k - 1] = s[i + k - 1]
    <3> TAKE k \in 1..(j - i + 1)
    <3>1. i + k - 1 \in 1..Len(s)
      OBVIOUS
    <3> QED BY <3>1 DEF Behind
  <2> QED BY <2>1 DEF Parts
<1> QED BY <1>1 DEF Payloads, Parts

LEMMA PayloadsMore ==
    ASSUME NEW s \in Seq(Inputs), NEW f \in Inputs, NEW t, t = Append(s, f),
           NEW n, n = Len(s), NEW i \in 1..(n + 1)
    PROVE  /\ Payloads(s, i, n) \in Seq(Bits)
           /\ Payloads(t, i, n + 1) = Payloads(s, i, n) \o f.payload
<1>1. n \in Nat /\ t \in Seq(Inputs) /\ Behind(t, s, f) /\ Len(t) = n + 1
  BY IsBehind DEF Behind
<1>2. /\ Parts(s, i, n) \in Seq(Seq(Bits)) /\ Len(Parts(s, i, n)) = n - i + 1
      /\ Payloads(s, i, n) = FlattenSeq(Parts(s, i, n))
  <2>1. i \in 1..(Len(s) + 1) /\ n \in (i - 1)..Len(s)
    BY <1>1
  <2> QED BY <2>1, PartsTyped
<1>3. /\ Parts(t, i, n + 1) \in Seq(Seq(Bits)) /\ Len(Parts(t, i, n + 1)) = (n + 1) - i + 1
      /\ Payloads(t, i, n + 1) = FlattenSeq(Parts(t, i, n + 1))
  <2>1. i \in 1..(Len(t) + 1) /\ n + 1 \in (i - 1)..Len(t)
    BY <1>1
  <2> QED BY <1>1, <2>1, PartsTyped
<1>4. f.payload \in Seq(Bits)
  BY InputTyped
<1> DEFINE q == Parts(s, i, n)
           r == Parts(t, i, n + 1)
           m == n - i + 1
<1>5. m \in Nat /\ (n + 1) - i + 1 = m + 1
  BY <1>1
<1>6. r[m + 1] = f.payload
  <2>1. m + 1 \in 1..((n + 1) - i + 1) /\ i + (m + 1) - 1 = n + 1
    BY <1>1, <1>5
  <2> QED BY <1>1, <2>1 DEF Parts, Behind
<1>7. \A k \in 1..m : r[k] = q[k]
  <2> TAKE k \in 1..m
  <2>1. i + k - 1 \in 1..n /\ k \in 1..((n + 1) - i + 1) /\ k \in 1..(n - i + 1)
    BY <1>1, <1>5
  <2>2. t[i + k - 1] = s[i + k - 1]
    BY <1>1, <2>1 DEF Behind
  <2> QED BY <2>1, <2>2 DEF Parts
<1> HIDE DEF q, r, m
<1>8. q \in Seq(Seq(Bits)) /\ r \in Seq(Seq(Bits)) /\ Len(q) = m /\ Len(r) = m + 1
  BY <1>2, <1>3, <1>5 DEF q, r, m
<1>9. r = Append(q, f.payload)
  <2>1. PICK v : v = Append(q, f.payload)
    OBVIOUS
  <2>2. v \in Seq(Seq(Bits)) /\ Len(v) = m + 1 /\ (\A k \in 1..m : v[k] = q[k]) /\ v[m + 1] = f.payload
    BY <1>4, <1>8, <2>1, Appended
  <2>3. \A k \in 1..(m + 1) : v[k] = r[k]
    <3> TAKE k \in 1..(m + 1)
    <3>1. k \in 1..m \/ k = m + 1
      BY <1>5
    <3> QED BY <1>6, <1>7, <2>2, <3>1
  <2> QED BY <1>8, <2>1, <2>2, <2>3
<1>10. FlattenSeq(q) \in Seq(Bits) /\ FlattenSeq(r) = FlattenSeq(q) \o f.payload
  BY <1>4, <1>8, <1>9, FlattenAppend
<1> QED BY <1>2, <1>3, <1>10 DEF q, r

LEMMA EmptyBefore ==
    ASSUME NEW x \in Seq(Bits)
    PROVE  <<>> \o x = x
OBVIOUS

LEMMA PayloadsFirst ==
    ASSUME NEW s \in Seq(Inputs), NEW f \in Inputs
    PROVE  Payloads(Append(s, f), Len(s) + 1, Len(s) + 1) = f.payload
<1>0. PICK n : n = Len(s)
  OBVIOUS
<1>1. n \in Nat /\ n + 1 \in 1..(n + 1) /\ f.payload \in Seq(Bits)
  BY <1>0, InputTyped
<1>2. Payloads(Append(s, f), n + 1, n + 1) = Payloads(s, n + 1, n) \o f.payload
  BY <1>0, <1>1, PayloadsMore
<1>3. Payloads(s, n + 1, n) = <<>>
  BY <1>0, PayloadsNone
<1>4. <<>> \o f.payload = f.payload
  BY <1>1, EmptyBefore
<1> QED BY <1>0, <1>2, <1>3, <1>4

-----------------------------------------------------------------------------
(* What the data frames s make up is what was delivered and what is kept.  *)

Delivered(ms, s) ==
    /\ Len(ms) = Fins(s, Len(s))
    /\ \A k \in 1..Len(s) : s[k].fin => ms[Fins(s, k)] = MessageEndingAt(s, k)

Kept(cf, s) ==
    LET n == Len(s)
        l == LastFin(s, n)
    IN  /\ cf.buffer = Payloads(s, l + 1, n)
        /\ cf.initialized <=> l < n
        /\ l < n => /\ cf.opcode = s[l + 1].opcode
                    /\ cf.compressed <=> Enabled /\ s[l + 1].rsv1

MessageOf(opcode, compressed, raw) ==
    [opcode |-> opcode, data |-> IF compressed THEN Inflate(raw) ELSE raw]

LEMMA MessageIs ==
    ASSUME NEW s, NEW k \in Nat, NEW l, l = LastFin(s, k - 1)
    PROVE  MessageEndingAt(s, k) = MessageOf(s[l + 1].opcode, Enabled /\ s[l + 1].rsv1, Payloads(s, l + 1, k))
BY DEF MessageEndingAt, MessageOf

(* A message that has ended is not affected by the frames that follow.     *)
LEMMA EarlierMessages ==
    ASSUME NEW s, NEW t, NEW f, Len(s) \in Nat, Behind(t, s, f), NEW k \in 1..Len(s)
    PROVE  MessageEndingAt(t, k) = MessageEndingAt(s, k)
<1>1. PICK l : l = LastFin(s, k - 1)
  OBVIOUS
<1>2. k - 1 \in 0..Len(s) /\ k - 1 \in Nat /\ k \in Nat
  OBVIOUS
<1>3. l = LastFin(t, k - 1) /\ l \in 0..(k - 1)
  BY <1>1, <1>2, LastFinBehind, LastFinFacts
<1>4. l + 1 \in 1..Len(s) /\ l + 1 \in 1..(Len(s) + 1) /\ k \in ((l + 1) - 1)..Len(s)
  BY <1>3
<1>5. t[l + 1] = s[l + 1] /\ Payloads(t, l + 1, k) = Payloads(s, l + 1, k)
  BY <1>4, PayloadsSame DEF Behind
<1>6. MessageEndingAt(s, k) = MessageOf(s[l + 1].opcode, Enabled /\ s[l + 1].rsv1, Payloads(s, l + 1, k))
  BY <1>1, <1>2, MessageIs
<1>7. MessageEndingAt(t, k) = MessageOf(t[l + 1].opcode, Enabled /\ t[l + 1].rsv1, Payloads(t, l + 1, k))
  BY <1>2, <1>3, MessageIs
<1> QED BY <1>5, <1>6, <1>7

LEMMA NothingDelivered ==
    ASSUME NEW ms, NEW s \in Seq(Inputs), NEW f \in Inputs, NEW t, t = Append(s, f),
           Delivered(ms, s), ~f.fin
    PROVE  Delivered(ms, t)
<1>1. t \in Seq(Inputs) /\ Behind(t, s, f) /\ Len(s) \in Nat
  BY IsBehind
<1>2. Len(t) = Len(s) + 1 /\ t[Len(s) + 1] = f /\ \A i \in 1..Len(s) : t[i] = s[i]
  BY <1>1 DEF Behind
<1>3. Fins(t, Len(t)) = Fins(s, Len(s)) /\ \A k \in 1..Len(s) : Fins(t, k) = Fins(s, k)
  BY <1>1, <1>2, FinsBehind
<1>4. ASSUME NEW k \in 1..Len(t), t[k].fin PROVE ms[Fins(t, k)] = MessageEndingAt(t, k)
  <2>1. k \in 1..Len(s)
    BY <1>1, <1>2, <1>4
  <2>2. s[k].fin /\ MessageEndingAt(t, k) = MessageEndingAt(s, k) /\ Fins(t, k) = Fins(s, k)
    BY <1>1, <1>2, <1>3, <1>4, <2>1, EarlierMessages
  <2> QED BY <2>1, <2>2 DEF Delivered
<1> QED BY <1>3, <1>4 DEF Delivered

LEMMA OneDelivered ==
    ASSUME NEW S, NEW ms \in Seq(S), NEW m \in S,
           NEW s \in Seq(Inputs), NEW f \in Inputs, NEW t, t = Append(s, f),
           Delivered(ms, s), f.fin, m = MessageEndingAt(t, Len(s) + 1)
    PROVE  Delivered(Append(ms, m), t)
<1>1. t \in Seq(Inputs) /\ Behind(t, s, f) /\ Len(s) \in Nat
  BY IsBehind
<1>2. Len(t) = Len(s) + 1 /\ t[Len(s) + 1] = f /\ \A i \in 1..Len(s) : t[i] = s[i]
  BY <1>1 DEF Behind
<1>3. PICK c : c = Fins(s, Len(s))
  OBVIOUS
<1>4. /\ c \in Nat /\ Fins(t, Len(t)) = c + 1 /\ Len(ms) = c
      /\ \A k \in 1..Len(s) : Fins(t, k) = Fins(s, k)
      /\ \A k \in 1..Len(s) : s[k].fin => Fins(s, k) \in 1..c
  BY <1>1, <1>2, <1>3, FinsBehind DEF Delivered
<1>5. PICK v : v = Append(ms, m)
  OBVIOUS
<1>6. Len(v) = c + 1 /\ (\A i \in 1..c : v[i] = ms[i]) /\ v[c + 1] = m
  BY <1>4, <1>5, Appended
<1>7. ASSUME NEW k \in 1..Len(t), t[k].fin PROVE v[Fins(t, k)] = MessageEndingAt(t, k)
  <2>1. CASE k \in 1..Len(s)
    <3>1. s[k].fin /\ MessageEndingAt(t, k) = MessageEndingAt(s, k) /\ Fins(t, k) = Fins(s, k)
      BY <1>1, <1>2, <1>4, <1>7, <2>1, EarlierMessages
    <3>2. ms[Fins(s, k)] = MessageEndingAt(s, k) /\ Fins(s, k) \in 1..c
      BY <1>4, <2>1, <3>1 DEF Delivered
    <3> QED BY <1>6, <3>1, <3>2
  <2>2. CASE k = Len(s) + 1
    BY <1>2, <1>4, <1>6, <2>2
  <2> QED BY <1>1, <1>2, <2>1, <2>2
<1> QED BY <1>4, <1>5, <1>6, <1>7 DEF Delivered

(* The message that the frame f ends, of what was kept before it.          *)
LEMMA EndsKept ==
    ASSUME NEW s \in Seq(Inputs), NEW f \in Inputs, NEW t, t = Append(s, f), NEW cf, Kept(cf, s),
           cf.initialized
    PROVE  MessageEndingAt(t, Len(s) + 1) = MessageOf(cf.opcode, cf.compressed, cf.buffer \o f.payload)
<1> DEFINE n == Len(s)
           l == LastFin(s, n)
<1>1. n \in Nat /\ Behind(t, s, f)
  BY IsBehind
<1>2. l \in 0..n /\ LastFin(t, n) = l
  BY <1>1, LastFinFacts, LastFinBehind
<1> HIDE DEF n, l
<1>3. /\ cf.buffer = Payloads(s, l + 1, n) /\ l < n
      /\ cf.opcode = s[l + 1].opcode /\ (cf.compressed <=> Enabled /\ s[l + 1].rsv1)
  BY DEF Kept, n, l
<1>4. l + 1 \in 1..n /\ l + 1 \in 1..(n + 1) /\ n + 1 \in Nat /\ (n + 1) - 1 = n
  BY <1>1, <1>2, <1>3
<1>5. t[l + 1] = s[l + 1]
  BY <1>1, <1>4 DEF Behind, n
<1>6. Payloads(t, l + 1, n + 1) = cf.buffer \o f.payload
  <2>1. n = Len(s) /\ s \in Seq(Inputs) /\ f \in Inputs /\ t = Append(s, f) /\ l + 1 \in 1..(n + 1)
    BY <1>4 DEF n
  <2>2. Payloads(t, l + 1, n + 1) = Payloads(s, l + 1, n) \o f.payload
    BY ONLY <2>1, PayloadsMore
  <2> QED BY <1>3, <2>2
<1>7. MessageEndingAt(t, n + 1) = MessageOf(t[l + 1].opcode, Enabled /\ t[l + 1].rsv1, Payloads(t, l + 1, n + 1))
  <2>1. n + 1 \in Nat /\ l = LastFin(t, (n + 1) - 1)
    BY <1>2, <1>4
  <2> QED BY ONLY <2>1, MessageIs
<1> QED BY <1>3, <1>5, <1>6, <1>7 DEF n, MessageOf

LEMMA EndsItself ==
    ASSUME NEW s \in Seq(Inputs), NEW f \in Inputs, NEW t, t = Append(s, f), NEW cf, Kept(cf, s),
           ~cf.initialized
    PROVE  MessageEndingAt(t, Len(s) + 1) = MessageOf(f.opcode, Enabled /\ f.rsv1, f.payload)
<1> DEFINE n == Len(s)
           l == LastFin(s, n)
<1>1. n \in Nat /\ Behind(t, s, f) /\ f.payload \in Seq(Bits)
  BY IsBehind, InputTyped
<1>2. l \in 0..n /\ LastFin(t, n) = l
  BY <1>1, LastFinFacts, LastFinBehind
<1> HIDE DEF n, l
<1>3. ~(l < n)
  BY DEF Kept, n, l
<1>4. l = n /\ n + 1 \in 1..(n + 1) /\ n + 1 \in Nat /\ (n + 1) - 1 = n
  BY <1>1, <1>2, <1>3
<1>5. t[n + 1] = f
  BY <1>1 DEF Behind, n
<1>7. Payloads(t, n + 1, n + 1) = f.payload
  <2>1. Payloads(Append(s, f), Len(s) + 1, Len(s) + 1) = f.payload
    BY PayloadsFirst, Zenon
  <2> QED BY <2>1, Zenon DEF n
<1>8. MessageEndingAt(t, n + 1) = MessageOf(t[n + 1].opcode, Enabled /\ t[n + 1].rsv1, Payloads(t, n + 1, n + 1))
  <2>1. n + 1 \in Nat /\ n = LastFin(t, (n + 1) - 1)
    BY <1>2, <1>4
  <2> QED BY ONLY <2>1, MessageIs
<1> QED BY <1>5, <1>7, <1>8 DEF n

(* What is kept behind a frame. *)
LEMMA KeptNothing ==
    ASSUME NEW s \in Seq(Inputs), NEW f \in Inputs, NEW t, t = Append(s, f), f.fin,
           NEW cf, ~cf.initialized, cf.buffer = <<>>
    PROVE  Kept(cf, t)
<1>1. t \in Seq(Inputs) /\ Behind(t, s, f) /\ Len(s) \in Nat /\ Len(t) = Len(s) + 1
  BY IsBehind DEF Behind
<1>2. LastFin(t, Len(t)) = Len(t)
  BY <1>1, LastFinBehind
<1>3. Payloads(t, Len(t) + 1, Len(t)) = <<>>
  BY <1>1, PayloadsNone
<1> QED BY <1>1, <1>2, <1>3 DEF Kept

LEMMA KeptFirst ==
    ASSUME NEW s \in Seq(Inputs), NEW f \in Inputs, NEW t, t = Append(s, f), ~f.fin,
           NEW cf, Kept(cf, s), ~cf.initialized,
           NEW new, new.initialized, new.compressed <=> Enabled /\ f.rsv1, new.opcode = f.opcode,
           new.buffer = f.payload
    PROVE  Kept(new, t)
<1> DEFINE n == Len(s)
           l == LastFin(s, n)
<1>1. n \in Nat /\ Behind(t, s, f) /\ f.payload \in Seq(Bits) /\ Len(t) = n + 1
  BY IsBehind, InputTyped DEF Behind
<1>2. l \in 0..n /\ LastFin(t, n + 1) = l
  BY <1>1, LastFinFacts, LastFinBehind
<1> HIDE DEF n, l
<1>3. ~(l < n)
  BY DEF Kept, n, l
<1>4. l = n /\ n + 1 \in 1..(n + 1) /\ l < n + 1
  BY <1>1, <1>2, <1>3
<1>5. t[n + 1] = f
  BY <1>1 DEF Behind, n
<1>7. Payloads(t, n + 1, n + 1) = f.payload
  <2>1. Payloads(Append(s, f), Len(s) + 1, Len(s) + 1) = f.payload
    BY PayloadsFirst, Zenon
  <2> QED BY <2>1, Zenon DEF n
<1> QED BY <1>1, <1>2, <1>4, <1>5, <1>7 DEF Kept

LEMMA KeptMore ==
    ASSUME NEW s \in Seq(Inputs), NEW f \in Inputs, NEW t, t = Append(s, f), ~f.fin,
           NEW cf, Kept(cf, s), cf.initialized,
           NEW new, new.initialized, new.compressed = cf.compressed, new.opcode = cf.opcode,
           new.buffer = cf.buffer \o f.payload
    PROVE  Kept(new, t)
<1> DEFINE n == Len(s)
           l == LastFin(s, n)
<1>1. n \in Nat /\ Behind(t, s, f) /\ Len(t) = n + 1
  BY IsBehind DEF Behind
<1>2. l \in 0..n /\ LastFin(t, n + 1) = l
  BY <1>1, LastFinFacts, LastFinBehind
<1> HIDE DEF n, l
<1>3. /\ cf.buffer = Payloads(s, l + 1, n) /\ l < n
      /\ cf.opcode = s[l + 1].opcode /\ (cf.compressed <=> Enabled /\ s[l + 1].rsv1)
  BY DEF Kept, n, l
<1>4. l + 1 \in 1..n /\ l + 1 \in 1..(n + 1) /\ l < n + 1
  BY <1>1, <1>2, <1>3
<1>5. t[l + 1] = s[l + 1]
  BY <1>1, <1>4 DEF Behind, n
<1>6. Payloads(t, l + 1, n + 1) = cf.buffer \o f.payload
  <2>1. n = Len(s) /\ s \in Seq(Inputs) /\ f \in Inputs /\ t = Append(s, f) /\ l + 1 \in 1..(n + 1)
    BY <1>4 DEF n
  <2>2. Payloads(t, l + 1, n + 1) = Payloads(s, l + 1, n) \o f.payload
    BY ONLY <2>1, PayloadsMore
  <2> QED BY <1>3, <2>2
<1> QED BY <1>1, <1>2, <1>3, <1>4, <1>5, <1>6 DEF Kept

-----------------------------------------------------------------------------
(* The steps. *)

ReasInv ==
    /\ accepted \in Seq(Inputs)
    /\ Delivered(messages, accepted)
    /\ status = Reading => Kept(continuationFrame, accepted)

LEMMA DataPayload ==
    ASSUME NEW f \in Inputs, NEW d, Decoded(d, f), d.opcode # CloseConnection
    PROVE  d.payload = f.payload
<1>1. f.opcode # CloseConnection
  BY Zenon DEF Decoded
<1>2. f.code = NoCode
  BY <1>1, ReaderAssumption
<1>3. f.code # OneByte
  BY <1>2 DEF NoCode, OneByte
<1> QED BY <1>3, Zenon DEF Decoded

(* What ends the loop delivers nothing. *)
LEMMA LeaveKeeps ==
    ASSUME ReasInv, NEW code, Sendable(code), Leave(code)
    PROVE  ReasInv'
BY Codes, Zenon DEF ReasInv, Leave, Delivered

(* emitMessage, if it delivers, delivers what the frames make up. *)
LEMMA EmitReas ==
    ASSUME ReasInv, messages \in Seq(Deliverable), messages' \in Seq(Deliverable),
           NEW f \in Inputs, NEW d, d.sent = f, f.fin,
           NEW opcode, NEW compressed \in BOOLEAN, NEW data,
           MessageEndingAt(Append(accepted, f), Len(accepted) + 1) = MessageOf(opcode, compressed, data),
           EmitMessage(d, opcode, compressed, data),
           status' = Reading => ~continuationFrame'.initialized /\ continuationFrame'.buffer = <<>>
    PROVE  ReasInv'
<1> DEFINE m == MessageOf(opcode, compressed, data)
           t == Append(accepted, f)
<1>1. CASE Leave(CloseInternalErr) \/ Leave(CloseUnsupportedData)
  BY <1>1, LeaveKeeps, Codes, Zenon
<1>2. CASE messages' = Append(messages, m) /\ accepted' = t
  <2>1. accepted \in Seq(Inputs) /\ Delivered(messages, accepted)
    BY DEF ReasInv
  <2>2. t \in Seq(Inputs)
    BY <2>1, IsBehind
  <2>3. m \in Deliverable
    <3> HIDE DEF m
    <3>1. Len(Append(messages, m)) = Len(messages) + 1 /\ Append(messages, m)[Len(messages) + 1] = m
          /\ Len(messages) \in Nat
      OBVIOUS
    <3>2. Len(messages') = Len(messages) + 1 /\ messages'[Len(messages) + 1] = m /\ Len(messages) \in Nat
      BY <1>2, <3>1
    <3> QED BY <3>2
  <2>4. Delivered(Append(messages, m), t)
    BY <2>1, <2>3, OneDelivered
  <2>5. status' = Reading => Kept(continuationFrame', t)
    BY <2>1, KeptNothing
  <2> HIDE DEF m, t
  <2>6. accepted' \in Seq(Inputs) /\ Delivered(messages', accepted')
    BY <1>2, <2>2, <2>4
  <2>7. status' = Reading => Kept(continuationFrame', accepted')
    BY <1>2, <2>5
  <2> QED BY <2>6, <2>7 DEF ReasInv, Delivered, Kept
<1> QED BY <1>1, <1>2, Zenon DEF EmitMessage, MessageOf

LEMMA WholeReas ==
    ASSUME ReasInv, BodyInv, BodyInv', status = Reading, NEW f \in Inputs, NEW d, Decoded(d, f), ReadWhole(d)
    PROVE  ReasInv'
<1>1. CASE Leave(CloseProtocolError)
  BY <1>1, LeaveKeeps, Codes
<1>2. CASE ~continuationFrame.initialized /\ EmitMessage(d, d.opcode, Enabled /\ d.rsv1, d.payload)
  <2>1. /\ d.sent = f /\ f.fin /\ (d.rsv1 <=> f.rsv1) /\ d.opcode = f.opcode
        /\ d.opcode \in {Text, Binary} /\ continuationFrame' = continuationFrame
    BY Zenon DEF ReadWhole, Decoded
  <2>2. d.payload = f.payload
    <3>1. d.opcode # CloseConnection
      BY <2>1 DEF Text, Binary, CloseConnection
    <3> QED BY <3>1, DataPayload
  <2>3. accepted \in Seq(Inputs) /\ Kept(continuationFrame, accepted)
    BY DEF ReasInv
  <2>4. MessageEndingAt(Append(accepted, f), Len(accepted) + 1) = MessageOf(f.opcode, Enabled /\ f.rsv1, f.payload)
    BY <1>2, <2>3, EndsItself
  <2>5. MessageOf(f.opcode, Enabled /\ f.rsv1, f.payload) = MessageOf(d.opcode, Enabled /\ d.rsv1, d.payload)
    BY <2>1, <2>2 DEF MessageOf
  <2>6. continuationFrame.buffer = <<>>
    <3>1. LastFin(accepted, Len(accepted)) \in 0..Len(accepted)
      BY <2>3, LastFinFacts
    <3>2. LastFin(accepted, Len(accepted)) = Len(accepted)
      BY <1>2, <2>3, <3>1 DEF Kept
    <3>3. Payloads(accepted, Len(accepted) + 1, Len(accepted)) = <<>>
      BY <2>3, PayloadsNone
    <3> QED BY <2>3, <3>2, <3>3 DEF Kept
  <2>7. (Enabled /\ d.rsv1) \in BOOLEAN
    BY Zenon
  <2>8. messages \in Seq(Deliverable) /\ messages' \in Seq(Deliverable)
    BY DEF BodyInv
  <2>9. ~continuationFrame'.initialized /\ continuationFrame'.buffer = <<>>
    BY <1>2, <2>1, <2>6, Zenon
  <2> QED BY <1>2, <2>1, <2>4, <2>5, <2>7, <2>8, <2>9, EmitReas
<1> QED BY <1>1, <1>2, Zenon DEF ReadWhole

LEMMA FirstReas ==
    ASSUME ReasInv, status = Reading, NEW f \in Inputs, NEW d, Decoded(d, f), ReadFirst(d)
    PROVE  ReasInv'
<1>1. CASE Leave(CloseProtocolError)
  BY <1>1, LeaveKeeps, Codes
<1> DEFINE start == [initialized |-> TRUE, compressed |-> Enabled /\ d.rsv1,
                     opcode |-> d.opcode, buffer |-> <<>>]
<1>2. CASE /\ ~continuationFrame.initialized /\ continuationFrame' = Extend(start, d)
           /\ accepted' = Append(accepted, d.sent) /\ UNCHANGED messages
  <2>1. /\ d.sent = f /\ ~f.fin /\ (d.rsv1 <=> f.rsv1) /\ d.opcode = f.opcode
        /\ d.opcode \in {Text, Binary}
    BY Zenon DEF ReadFirst, Decoded
  <2>2. d.payload = f.payload /\ f.payload \in Seq(Bits)
    <3>1. d.opcode # CloseConnection
      BY <2>1 DEF Text, Binary, CloseConnection
    <3> QED BY <3>1, DataPayload, InputTyped
  <2>3. accepted \in Seq(Inputs) /\ Kept(continuationFrame, accepted) /\ Delivered(messages, accepted)
    BY DEF ReasInv
  <2> DEFINE new == continuationFrame'
             t == Append(accepted, f)
  <2>4. /\ new.initialized /\ new.opcode = f.opcode /\ (new.compressed <=> Enabled /\ f.rsv1)
        /\ new.buffer = f.payload
    <3>1. <<>> \o d.payload = f.payload
      BY <2>2, EmptyBefore
    <3> QED BY <1>2, <2>1, <3>1 DEF Extend
  <2> HIDE DEF new
  <2>5. Kept(new, t)
    BY <1>2, <2>1, <2>3, <2>4, KeptFirst
  <2>6. Delivered(messages, t) /\ t \in Seq(Inputs)
    BY <2>1, <2>3, NothingDelivered, IsBehind
  <2>7. accepted' = t /\ messages' = messages
    BY <1>2, <2>1
  <2> HIDE DEF t
  <2>8. accepted' \in Seq(Inputs) /\ Delivered(messages', accepted') /\ Kept(continuationFrame', accepted')
    BY <2>5, <2>6, <2>7 DEF new
  <2> QED BY <2>8 DEF ReasInv, Delivered, Kept
<1> QED BY <1>1, <1>2, Zenon DEF ReadFirst

LEMMA ContinuationReas ==
    ASSUME ReasInv, BodyInv, BodyInv', status = Reading, NEW f \in Inputs, NEW d, Decoded(d, f),
           ReadContinuation(d)
    PROVE  ReasInv'
<1> DEFINE old == continuationFrame
           cf == Extend(old, d)
<1>1. /\ d.sent = f /\ (d.fin <=> f.fin) /\ d.opcode # CloseConnection /\ d.payload \in Seq(Bits)
  <2>1. d.opcode = Continuation /\ d.sent = f /\ (d.fin <=> f.fin) /\ d.payload \in Seq(Bits)
    BY Zenon DEF ReadContinuation, Decoded
  <2>2. Continuation # CloseConnection
    BY DEF Continuation, CloseConnection
  <2> QED BY <2>1, <2>2, Zenon
<1>2. d.payload = f.payload
  BY <1>1, DataPayload
<1>3. /\ cf.initialized = old.initialized /\ cf.compressed = old.compressed /\ cf.opcode = old.opcode
      /\ cf.buffer = old.buffer \o f.payload /\ cf.compressed \in BOOLEAN
  <2>1. old \in Partial
    BY DEF BodyInv
  <2>2. /\ cf.initialized = old.initialized /\ cf.compressed = old.compressed /\ cf.opcode = old.opcode
        /\ cf.buffer = old.buffer \o d.payload
    BY <1>1, <2>1, Extended
  <2>3. old.compressed \in BOOLEAN
    BY <2>1 DEF Partial
  <2> HIDE DEF cf, old
  <2> QED BY <1>2, <2>2, <2>3
<1>4. accepted \in Seq(Inputs) /\ Kept(old, accepted) /\ Delivered(messages, accepted)
  BY DEF ReasInv
<1>5. \/ Leave(CloseProtocolError) \/ Leave(CloseMessageTooLarge)
      \/ /\ cf.initialized /\ ~d.fin /\ continuationFrame' = cf
         /\ accepted' = Append(accepted, d.sent) /\ UNCHANGED messages
      \/ /\ cf.initialized /\ d.fin /\ continuationFrame' = NoFrame
         /\ EmitMessage(d, cf.opcode, cf.compressed, cf.buffer)
  BY Zenon DEF ReadContinuation
<1> HIDE DEF cf
<1>6. CASE Leave(CloseProtocolError) \/ Leave(CloseMessageTooLarge)
  BY <1>6, LeaveKeeps, Codes
<1>7. CASE /\ cf.initialized /\ ~d.fin /\ continuationFrame' = cf
           /\ accepted' = Append(accepted, d.sent) /\ UNCHANGED messages
  <2> DEFINE t == Append(accepted, f)
  <2>1. Kept(cf, t)
    BY <1>1, <1>3, <1>4, <1>7, KeptMore
  <2>2. Delivered(messages, t) /\ t \in Seq(Inputs)
    BY <1>1, <1>4, <1>7, NothingDelivered, IsBehind
  <2>3. accepted' = t /\ messages' = messages
    BY <1>1, <1>7
  <2> HIDE DEF t
  <2>4. accepted' \in Seq(Inputs) /\ Delivered(messages', accepted') /\ Kept(continuationFrame', accepted')
    BY <1>7, <2>1, <2>2, <2>3
  <2> QED BY <2>4 DEF ReasInv, Delivered, Kept
<1>8. CASE /\ cf.initialized /\ d.fin /\ continuationFrame' = NoFrame
           /\ EmitMessage(d, cf.opcode, cf.compressed, cf.buffer)
  <2>1. MessageEndingAt(Append(accepted, f), Len(accepted) + 1) = MessageOf(cf.opcode, cf.compressed, cf.buffer)
    BY <1>3, <1>4, <1>8, EndsKept
  <2>2. messages \in Seq(Deliverable) /\ messages' \in Seq(Deliverable)
    BY DEF BodyInv
  <2>3. ~continuationFrame'.initialized /\ continuationFrame'.buffer = <<>>
    BY <1>8 DEF NoFrame
  <2>4. EmitMessage(d, cf.opcode, cf.compressed, cf.buffer) /\ d.sent = f /\ f.fin
    BY <1>1, <1>8
  <2> QED BY <1>3, <2>1, <2>2, <2>3, <2>4, EmitReas
<1> QED BY <1>5, <1>6, <1>7, <1>8

LEMMA ReasInit == Init => ReasInv
<1> SUFFICES ASSUME Init PROVE ReasInv
  OBVIOUS
<1>1. accepted = <<>> /\ messages = <<>> /\ continuationFrame = NoFrame
  BY DEF Init
<1>2. accepted \in Seq(Inputs) /\ Len(accepted) = 0 /\ Len(messages) = 0
  BY <1>1
<1>3. Fins(accepted, 0) = 0
  <2>1. {j \in 1..0 : accepted[j].fin} = {}
    OBVIOUS
  <2> QED BY <2>1, FS_EmptySet DEF Fins
<1>4. Delivered(messages, accepted)
  BY <1>2, <1>3 DEF Delivered
<1>5. LastFin(accepted, 0) = 0
  BY LastFinFacts
<1>6. Payloads(accepted, 0 + 1, 0) = <<>>
  BY <1>2, PayloadsNone
<1>7. Kept(continuationFrame, accepted)
  BY <1>1, <1>2, <1>5, <1>6 DEF Kept, NoFrame
<1> QED BY <1>2, <1>4, <1>7 DEF ReasInv

LEMMA ReasStep == ReaderInv /\ ReaderInv' /\ ReasInv /\ [Next]_vars => ReasInv'
<1> SUFFICES ASSUME ReaderInv, ReaderInv', ReasInv, [Next]_vars PROVE ReasInv'
  OBVIOUS
<1>1. fh \in [1..14 -> Nat] /\ BodyInv /\ BodyInv'
  BY Zenon DEF ReaderInv, BodyInv
<1>2. CASE UNCHANGED <<messages, accepted, status, continuationFrame>>
  BY <1>2 DEF ReasInv, Delivered, Kept
<1>3. CASE ReadIOError
  BY <1>3, LeaveKeeps, Codes, Zenon DEF ReadIOError
<1>4. ASSUME status = Reading, NEW f \in Inputs, NEW d, d = Decode(f),
             \/ ReadBadHeader(d) \/ ReadControl(d) \/ ReadClose(d)
             \/ ReadWhole(d) \/ ReadFirst(d) \/ ReadContinuation(d)
      PROVE  ReasInv'
  <2>1. Decoded(d, f)
    BY <1>1, <1>4, FrameRoundTrip
  <2>2. CASE ReadBadHeader(d)
    BY <2>2, HeaderErrorCode, LeaveKeeps, Zenon DEF ReadBadHeader
  <2>3. CASE ReadControl(d)
    <3>1. CASE UNCHANGED <<status, messages, accepted>>
      BY <1>2, <2>3, <3>1, Zenon DEF ReadControl
    <3>2. CASE Leave(CloseProtocolError)
      BY <3>2, LeaveKeeps, Codes, Zenon
    <3> QED BY <2>3, <3>1, <3>2, Zenon DEF ReadControl
  <2>4. CASE ReadClose(d)
    <3>1. d.code \in Int /\ d.code >= NoCode
      BY <2>1, InputTyped, Zenon DEF Decoded
    <3>2. Sendable(IF ControlOK(d) THEN ResponseCode(d) ELSE CloseProtocolError)
      BY <3>1, ResponseSendable, Codes, Zenon
    <3> QED BY <2>4, <3>2, LeaveKeeps, Zenon DEF ReadClose
  <2>5. CASE ReadWhole(d)
    BY <1>1, <1>4, <2>1, <2>5, WholeReas
  <2>6. CASE ReadFirst(d)
    BY <1>4, <2>1, <2>6, FirstReas
  <2>7. CASE ReadContinuation(d)
    BY <1>1, <1>4, <2>1, <2>7, ContinuationReas
  <2> QED BY <1>4, <2>2, <2>3, <2>4, <2>5, <2>6, <2>7, Zenon
<1> QED BY <1>2, <1>3, <1>4, Zenon DEF Next, vars

(* The data frames read without an error are delivered as exactly the      *)
(* messages they make up, in order, whatever comes between them, and what  *)
(* they leave unfinished is in continuationFrame (readMessage,             *)
(* emitMessage), for frames of any length and behaviours of any length.    *)
THEOREM ReassemblyTheorem == Spec => []Reassembly
<1>1. ReasInv => Reassembly
  BY DEF ReasInv, Delivered, Kept, Reassembly
<1>2. ReaderInv /\ ReasInv /\ [Next]_vars /\ ReaderInv' => ReasInv'
  BY ReasStep
<1> QED BY <1>1, <1>2, ReasInit, ReaderAlways, PTL DEF Spec
=============================================================================
