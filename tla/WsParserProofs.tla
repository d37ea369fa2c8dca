--------------------------- MODULE WsParserProofs ---------------------------
(***************************************************************************)
(* Proofs, for every stream of a request and frames and every way to cut   *)
(* it, of the properties of WsParser: RequestExactly, DecodedExactly,      *)
(* RefusedExactly, RoomSuffices and WrittenReads.                          *)
(***************************************************************************)
EXTENDS WsParserProperties, TLAPS, SequenceTheorems, WellFoundedInduction

-----------------------------------------------------------------------------
(* Numbers and bytes.                                                      *)

LEMMA NatMin ==
  ASSUME NEW S, S \subseteq Nat, S # {}
  PROVE  \E n \in S : \A m \in S : n <= m
<1> DEFINE R == OpToRel(<, Nat)
<1>1. IsWellFoundedOn(R, Nat)
  BY NatLessThanWellFounded, Zenon
<1>2. \A x, y \in Nat : <<y, x>> \in R <=> y < x
  BY Zenon DEF OpToRel
<1> HIDE DEF R
<1>3. PICK x \in S : \A y \in S : ~(<<y, x>> \in R)
  BY <1>1, WFMin, Zenon
<1>4. \A y \in S : y \in Nat /\ x \in Nat /\ ~(y < x)
  BY <1>2, <1>3, Zenon
<1> QED
  BY <1>4

LEMMA MaxBelow ==
  ASSUME NEW L \in Nat, NEW S, S \subseteq 1..L, S # {}
  PROVE  \E n \in S : \A m \in S : m <= n
<1> DEFINE T == {L - k : k \in S}
<1>1. T \subseteq Nat
  OBVIOUS
<1>2. PICK s \in S : TRUE
  OBVIOUS
<1>3. L - s \in T
  BY <1>2
<1>4. PICK t \in T : \A u \in T : t <= u
  <2> HIDE DEF T
  <2> QED BY <1>1, <1>3, NatMin
<1>5. PICK n \in S : t = L - n
  BY <1>4
<1>6. \A m \in S : L - m \in T
  OBVIOUS
<1>7. \A m \in S : m \in 1..L /\ n \in 1..L /\ L - n <= L - m
  <2> HIDE DEF T
  <2> QED BY <1>4, <1>5, <1>6
<1> QED
  BY <1>7

\* The bit of a that counts k, and the number with these bits.
BitOf(a, k) == (a \div k) % 2
FromBits(x) ==
  x[1] + (2 * x[2]) + (4 * x[3]) + (8 * x[4]) + (16 * x[5]) + (32 * x[6]) + (64 * x[7]) + (128 * x[8])

LEMMA BitsBack ==
  ASSUME NEW x \in [1..8 -> 0..1]
  PROVE  /\ FromBits(x) \in 0..255
         /\ BitOf(FromBits(x), 1) = x[1] /\ BitOf(FromBits(x), 2) = x[2]
         /\ BitOf(FromBits(x), 4) = x[3] /\ BitOf(FromBits(x), 8) = x[4]
         /\ BitOf(FromBits(x), 16) = x[5] /\ BitOf(FromBits(x), 32) = x[6]
         /\ BitOf(FromBits(x), 64) = x[7] /\ BitOf(FromBits(x), 128) = x[8]
<1> DEFINE c == FromBits(x)
<1>1. /\ x[1] \in 0..1 /\ x[2] \in 0..1 /\ x[3] \in 0..1 /\ x[4] \in 0..1
      /\ x[5] \in 0..1 /\ x[6] \in 0..1 /\ x[7] \in 0..1 /\ x[8] \in 0..1
  <2>1. \A k \in 1..8 : x[k] \in 0..1
    OBVIOUS
  <2> QED
    BY <2>1
<1>2. c = x[1] + (2 * x[2]) + (4 * x[3]) + (8 * x[4]) + (16 * x[5]) + (32 * x[6]) + (64 * x[7]) + (128 * x[8])
  BY DEF FromBits
<1> HIDE DEF c
<1>3. c \in 0..255
  BY <1>1, <1>2
<1>4. c \div 1 = c /\ c % 2 = x[1]
  BY <1>1, <1>2, <1>3
<1>5. (c \div 2) = x[2] + (2 * x[3]) + (4 * x[4]) + (8 * x[5]) + (16 * x[6]) + (32 * x[7]) + (64 * x[8])
  BY <1>1, <1>2
<1>6. (c \div 4) = x[3] + (2 * x[4]) + (4 * x[5]) + (8 * x[6]) + (16 * x[7]) + (32 * x[8])
  BY <1>1, <1>2
<1>7. (c \div 8) = x[4] + (2 * x[5]) + (4 * x[6]) + (8 * x[7]) + (16 * x[8])
  BY <1>1, <1>2
<1>8. (c \div 16) = x[5] + (2 * x[6]) + (4 * x[7]) + (8 * x[8])
  BY <1>1, <1>2
<1>9. (c \div 32) = x[6] + (2 * x[7]) + (4 * x[8])
  BY <1>1, <1>2
<1>10. (c \div 64) = x[7] + (2 * x[8])
  BY <1>1, <1>2
<1>11. (c \div 128) = x[8]
  BY <1>1, <1>2
<1>12. (c \div 2) % 2 = x[2]
  BY <1>1, <1>5
<1>13. (c \div 4) % 2 = x[3]
  BY <1>1, <1>6
<1>14. (c \div 8) % 2 = x[4]
  BY <1>1, <1>7
<1>15. (c \div 16) % 2 = x[5]
  BY <1>1, <1>8
<1>16. (c \div 32) % 2 = x[6]
  BY <1>1, <1>9
<1>17. (c \div 64) % 2 = x[7]
  BY <1>1, <1>10
<1>18. (c \div 128) % 2 = x[8]
  BY <1>1, <1>11
<1> QED
  BY <1>3, <1>4, <1>12, <1>13, <1>14, <1>15, <1>16, <1>17, <1>18 DEF BitOf, c

LEMMA SumOfBits ==
  ASSUME NEW a \in 0..255
  PROVE  /\ \A k \in {1, 2, 4, 8, 16, 32, 64, 128} : BitOf(a, k) \in 0..1
         /\ a = BitOf(a, 1) + (2 * BitOf(a, 2)) + (4 * BitOf(a, 4)) + (8 * BitOf(a, 8))
                + (16 * BitOf(a, 16)) + (32 * BitOf(a, 32)) + (64 * BitOf(a, 64)) + (128 * BitOf(a, 128))
<1>1. \A k \in {1, 2, 4, 8, 16, 32, 64, 128} : BitOf(a, k) \in 0..1
  BY DEF BitOf
<1>2. a = BitOf(a, 1) + (2 * BitOf(a, 2)) + (4 * BitOf(a, 4)) + (8 * BitOf(a, 8))
          + (16 * BitOf(a, 16)) + (32 * BitOf(a, 32)) + (64 * BitOf(a, 64)) + (128 * BitOf(a, 128))
  BY SMTT(30) DEF BitOf
<1> QED
  BY <1>1, <1>2

\* The same mask takes a mask away.
LEMMA XorTwice ==
  ASSUME NEW a \in 0..255, NEW b \in 0..255
  PROVE  Xor(a, b) \in 0..255 /\ Xor(Xor(a, b), b) = a
<1> DEFINE X(k) == IF BitOf(a, k) = BitOf(b, k) THEN 0 ELSE 1
           x == <<X(1), X(2), X(4), X(8), X(16), X(32), X(64), X(128)>>
           c == FromBits(x)
           Y(k) == IF BitOf(c, k) = BitOf(b, k) THEN 0 ELSE k
<1>1. x \in [1..8 -> 0..1]
  OBVIOUS
<1>2. Xor(a, b) = c
  BY DEF Xor, BitOf, FromBits
<1>3. /\ c \in 0..255
      /\ BitOf(c, 1) = X(1) /\ BitOf(c, 2) = X(2) /\ BitOf(c, 4) = X(4) /\ BitOf(c, 8) = X(8)
      /\ BitOf(c, 16) = X(16) /\ BitOf(c, 32) = X(32) /\ BitOf(c, 64) = X(64) /\ BitOf(c, 128) = X(128)
  <2>1. /\ x[1] = X(1) /\ x[2] = X(2) /\ x[3] = X(4) /\ x[4] = X(8)
        /\ x[5] = X(16) /\ x[6] = X(32) /\ x[7] = X(64) /\ x[8] = X(128)
    <3> HIDE DEF X
    <3> QED OBVIOUS
  <2> HIDE DEF x, X
  <2> QED
    BY <1>1, <2>1, BitsBack
<1> HIDE DEF c, x
<1>4. Xor(c, b) = Y(1) + Y(2) + Y(4) + Y(8) + Y(16) + Y(32) + Y(64) + Y(128)
  BY DEF Xor, BitOf
<1>5. /\ \A k \in {1, 2, 4, 8, 16, 32, 64, 128} : BitOf(a, k) \in 0..1
      /\ \A k \in {1, 2, 4, 8, 16, 32, 64, 128} : BitOf(b, k) \in 0..1
  BY SumOfBits, ZenonT(40)
<1>6. /\ Y(1) = BitOf(a, 1) /\ Y(2) = 2 * BitOf(a, 2) /\ Y(4) = 4 * BitOf(a, 4)
      /\ Y(8) = 8 * BitOf(a, 8) /\ Y(16) = 16 * BitOf(a, 16) /\ Y(32) = 32 * BitOf(a, 32)
      /\ Y(64) = 64 * BitOf(a, 64) /\ Y(128) = 128 * BitOf(a, 128)
  BY <1>3, <1>5
<1> HIDE DEF Y
<1>7. Xor(c, b) = a
  <2>1. /\ BitOf(a, 1) \in 0..1 /\ BitOf(a, 2) \in 0..1 /\ BitOf(a, 4) \in 0..1
        /\ BitOf(a, 8) \in 0..1 /\ BitOf(a, 16) \in 0..1 /\ BitOf(a, 32) \in 0..1
        /\ BitOf(a, 64) \in 0..1 /\ BitOf(a, 128) \in 0..1
    BY <1>5
  <2>2. a = BitOf(a, 1) + (2 * BitOf(a, 2)) + (4 * BitOf(a, 4)) + (8 * BitOf(a, 8))
          + (16 * BitOf(a, 16)) + (32 * BitOf(a, 32)) + (64 * BitOf(a, 64)) + (128 * BitOf(a, 128))
    BY SumOfBits, Zenon
  <2> QED
    BY <1>4, <1>6, <2>1, <2>2
<1> QED
  BY <1>2, <1>3, <1>7

LEMMA HugeNat == Huge \in Nat /\ Huge < 2147483648 /\ 65536 < Huge
  BY SMT DEF Huge

\* The bytes of a number.
Octet3(n) == n \div 16777216
Octet2(n) == (n \div 65536) % 256
Octet1(n) == (n \div 256) % 256
Octet0(n) == n % 256

LEMMA Split16 ==
  ASSUME NEW n \in Nat, n <= 65535
  PROVE  /\ n \div 256 = Octet1(n) /\ Octet1(n) \in 0..255 /\ Octet0(n) \in 0..255
         /\ n = (256 * Octet1(n)) + Octet0(n)
<1> DEFINE q == n \div 256
<1>2. q \in Nat /\ q <= 255
  BY SMT
<1>3. Octet0(n) \in 0..255 /\ n = (256 * q) + Octet0(n)
  BY SMT DEF Octet0
<1>4. Octet1(n) = q % 256
  BY DEF Octet1
<1> HIDE DEF q
<1>5. q \in 0..255 /\ q % 256 = q
  BY <1>2, SMT
<1> QED
  BY <1>3, <1>4, <1>5 DEF q

LEMMA Split64 ==
  ASSUME NEW n \in 0..Huge
  PROVE  /\ Octet3(n) \in 0..127 /\ Octet2(n) \in 0..255
         /\ Octet1(n) \in 0..255 /\ Octet0(n) \in 0..255
         /\ n = (16777216 * Octet3(n)) + (65536 * Octet2(n)) + (256 * Octet1(n)) + Octet0(n)
<1>1. n \in Nat /\ n < 2147483648
  BY HugeNat, SMT
<1>2. Octet3(n) \in Nat /\ Octet3(n) < 128
  BY <1>1, SMT DEF Octet3
<1>3. n \div 65536 \in Nat /\ n \div 256 \in Nat
  BY <1>1, SMT
<1>4. Octet2(n) \in 0..255 /\ Octet1(n) \in 0..255 /\ Octet0(n) \in 0..255
  BY <1>1, <1>3, SMT DEF Octet2, Octet1, Octet0
<1>5. n = (16777216 * Octet3(n)) + (65536 * Octet2(n)) + (256 * Octet1(n)) + Octet0(n)
  BY <1>1, SMT DEF Octet3, Octet2, Octet1, Octet0
<1> QED
  BY <1>2, <1>4, <1>5, SMT

\* The head of a frame, byte by byte.
LEMMA ExtendedForms ==
  ASSUME NEW f \in FrameFields, FrameOk(f)
  PROVE  /\ f.form = 0 => Extended(f) = <<>>
         /\ f.form = 2 => Extended(f) = <<Octet1(f.len), Octet0(f.len)>>
         /\ f.form = 8 => Extended(f) =
              <<f.top, 0, 0, 0, Octet3(f.len), Octet2(f.len), Octet1(f.len), Octet0(f.len)>>
<1>0. f.len \in 0..Huge /\ f.len \in Nat
  <2>1. f.len \in 0..Huge
    BY DEF FrameFields
  <2> QED
    BY <2>1, HugeNat
<1>1. f.form = 0 => Extended(f) = <<>>
  BY SMT DEF Extended
<1>2. f.form = 2 => Extended(f) = <<Octet1(f.len), Octet0(f.len)>>
  <2>1. f.form = 2 => Extended(f) = <<f.len \div 256, f.len % 256>>
    BY SMT DEF Extended, sockify_write_be16
  <2>2. f.form = 2 => f.len \div 256 = Octet1(f.len)
    <3>1. f.form = 2 => f.len <= 65535
      BY DEF FrameOk
    <3> QED
      BY <1>0, <3>1, Split16
  <2> QED
    BY <2>1, <2>2 DEF Octet0
<1>3. ASSUME f.form = 8
      PROVE  Extended(f) =
              <<f.top, 0, 0, 0, Octet3(f.len), Octet2(f.len), Octet1(f.len), Octet0(f.len)>>
  <2>1. Extended(f) = [<<0, 0, 0, 0, Octet3(f.len), Octet2(f.len), Octet1(f.len), Octet0(f.len)>>
                         EXCEPT ![1] = f.top]
    BY <1>3, SMT DEF Extended, sockify_write_be64, Octet3, Octet2, Octet1, Octet0
  <2>2. [<<0, 0, 0, 0, Octet3(f.len), Octet2(f.len), Octet1(f.len), Octet0(f.len)>>
          EXCEPT ![1] = f.top]
        = <<f.top, 0, 0, 0, Octet3(f.len), Octet2(f.len), Octet1(f.len), Octet0(f.len)>>
    BY SMT
  <2> QED
    BY <2>1, <2>2, Zenon
<1> QED
  BY <1>1, <1>2, <1>3, Zenon

LEMMA ExtendedSeq ==
  ASSUME NEW f \in FrameFields, FrameOk(f)
  PROVE  Extended(f) \in Seq(0..255) /\ Len(Extended(f)) = f.form
<1>0. f.len \in 0..Huge /\ f.len \in Nat /\ f.top \in 0..255
  <2>1. f.len \in 0..Huge /\ f.top \in 0..255
    BY DEF FrameFields
  <2> QED
    BY <2>1, HugeNat
<1>1. CASE f.form = 0
  <2>1. Extended(f) = <<>>
    BY <1>1, ExtendedForms, Zenon
  <2> QED
    BY <1>1, <2>1, SMT
<1>2. CASE f.form = 2
  <2>1. Extended(f) = <<Octet1(f.len), Octet0(f.len)>>
    BY <1>2, ExtendedForms
  <2>2. f.len <= 65535
    BY <1>2 DEF FrameOk
  <2>3. Octet1(f.len) \in 0..255 /\ Octet0(f.len) \in 0..255
    BY <1>0, <2>2, Split16, SMTT(30), ZenonT(40)
  <2> QED
    BY <1>2, <2>1, <2>3
<1>3. CASE f.form = 8
  <2>1. Extended(f) =
          <<f.top, 0, 0, 0, Octet3(f.len), Octet2(f.len), Octet1(f.len), Octet0(f.len)>>
    BY <1>3, ExtendedForms, Zenon
  <2>2. Octet3(f.len) \in 0..127 /\ Octet2(f.len) \in 0..255
        /\ Octet1(f.len) \in 0..255 /\ Octet0(f.len) \in 0..255
    BY <1>0, Split64, SMTT(30), ZenonT(40)
  <2> QED
    BY <1>0, <1>3, <2>1, <2>2, SMT
<1> QED
  BY <1>1, <1>2, <1>3 DEF FrameFields

\* What the parser reads of it.
LEMMA ExtendedReads ==
  ASSUME NEW f \in FrameFields, FrameOk(f)
  PROVE  /\ f.form = 2 => sockify_read_be16(Extended(f)) = f.len
         /\ f.form = 8 => sockify_read_be64(Extended(f)) = Announced(f) /\ Extended(f)[1] = f.top
<1>0. f.len \in 0..Huge /\ f.len \in Nat /\ f.top \in 0..255
  <2>1. f.len \in 0..Huge /\ f.top \in 0..255
    BY DEF FrameFields
  <2> QED
    BY <2>1, HugeNat
<1>1. ASSUME f.form = 2
      PROVE  sockify_read_be16(Extended(f)) = f.len
  <2>1. Extended(f) = <<Octet1(f.len), Octet0(f.len)>>
    BY <1>1, ExtendedForms
  <2>2. f.len <= 65535
    BY <1>1 DEF FrameOk
  <2>3. f.len = (256 * Octet1(f.len)) + Octet0(f.len)
    BY <1>0, <2>2, Split16
  <2> QED
    BY <2>1, <2>3 DEF sockify_read_be16
<1>2. ASSUME f.form = 8
      PROVE  sockify_read_be64(Extended(f)) = Announced(f) /\ Extended(f)[1] = f.top
  <2> DEFINE e == Extended(f)
  <2>1. e = <<f.top, 0, 0, 0, Octet3(f.len), Octet2(f.len), Octet1(f.len), Octet0(f.len)>>
    BY <1>2, ExtendedForms, Zenon
  <2> HIDE DEF e
  <2>2. /\ e[1] = f.top /\ e[2] = 0 /\ e[3] = 0 /\ e[4] = 0
        /\ e[5] = Octet3(f.len) /\ e[6] = Octet2(f.len) /\ e[7] = Octet1(f.len) /\ e[8] = Octet0(f.len)
    BY <2>1, SMT
  <2>3. /\ Octet3(f.len) \in 0..127
        /\ f.len = (16777216 * Octet3(f.len)) + (65536 * Octet2(f.len))
                    + (256 * Octet1(f.len)) + Octet0(f.len)
    BY <1>0, Split64, SMT
  <2>4. sockify_read_be64(e) = IF f.top > 0 THEN Huge ELSE f.len
    <3>1. sockify_read_be64(e) =
            IF f.top + 0 + 0 + 0 > 0 \/ Octet3(f.len) >= 128 THEN Huge
            ELSE (16777216 * Octet3(f.len)) + (65536 * Octet2(f.len))
                    + (256 * Octet1(f.len)) + Octet0(f.len)
      BY <2>2, SMT DEF sockify_read_be64
    <3>2. ~(Octet3(f.len) >= 128)
      BY <2>3
    <3>3. f.top + 0 + 0 + 0 = f.top
      BY <1>0
    <3> QED
      BY <2>3, <3>1, <3>2, <3>3, SMT
  <2> QED
    BY <1>0, <2>2, <2>4 DEF e, Announced
<1> QED
  BY <1>1, <1>2, Zenon
FirstByte(f) == (128 * Bit(f.fin)) + (16 * f.rsv) + f.opcode
SecondByte(f) ==
  (128 * Bit(f.masked)) + (IF f.form = 0 THEN f.len ELSE IF f.form = 2 THEN 126 ELSE 127)

\* What Header1 and Header2 make of the first two bytes.
LEMMA FirstBytes ==
  ASSUME NEW f \in FrameFields, FrameOk(f)
  PROVE  /\ FirstByte(f) \in 0..255 /\ SecondByte(f) \in 0..255
         /\ FirstByte(f) >= 128 <=> f.fin
         /\ FirstByte(f) % 16 = f.opcode
         /\ (FirstByte(f) \div 16) % 8 = f.rsv
         /\ SecondByte(f) >= 128 <=> f.masked
         /\ f.form = 0 => SecondByte(f) % 128 = f.len
         /\ f.form = 2 => SecondByte(f) % 128 = 126
         /\ f.form = 8 => SecondByte(f) % 128 = 127
<1>1. /\ f.fin \in BOOLEAN /\ f.masked \in BOOLEAN /\ f.rsv \in 0..7 /\ f.opcode \in 0..15
      /\ f.form \in {0, 2, 8} /\ f.len \in 0..Huge
  BY DEF FrameFields
<1>2. f.len \in Nat /\ (f.form = 0 => f.len <= 125)
  BY <1>1, HugeNat DEF FrameOk
<1> DEFINE a == Bit(f.fin)
           b == Bit(f.masked)
           c == IF f.form = 0 THEN f.len ELSE IF f.form = 2 THEN 126 ELSE 127
<1>3. a \in 0..1 /\ b \in 0..1 /\ (a = 1 <=> f.fin) /\ (b = 1 <=> f.masked)
  BY <1>1 DEF Bit
<1>4. c \in 0..127 /\ (f.form = 0 => c = f.len) /\ (f.form = 2 => c = 126) /\ (f.form = 8 => c = 127)
  BY <1>1, <1>2
<1>5. FirstByte(f) = (128 * a) + (16 * f.rsv) + f.opcode /\ SecondByte(f) = (128 * b) + c
  BY DEF FirstByte, SecondByte
<1> HIDE DEF a, b, c
<1>6. FirstByte(f) \in 0..255 /\ (FirstByte(f) >= 128 <=> a = 1)
  BY <1>1, <1>3, <1>5
<1>7. FirstByte(f) % 16 = f.opcode
  BY <1>1, <1>3, <1>5
<1>8. FirstByte(f) \div 16 = (8 * a) + f.rsv
  BY <1>1, <1>3, <1>5
<1>9. (FirstByte(f) \div 16) % 8 = f.rsv
  BY <1>1, <1>3, <1>8
<1>10. SecondByte(f) \in 0..255 /\ (SecondByte(f) >= 128 <=> b = 1)
  BY <1>3, <1>4, <1>5
<1>11. SecondByte(f) % 128 = c
  BY <1>3, <1>4, <1>5
<1> QED
  BY <1>3, <1>4, <1>6, <1>7, <1>9, <1>10, <1>11

LEMMA Assoc ==
  ASSUME NEW a \in Nat, NEW b \in Nat, NEW c \in Nat, NEW d \in Nat
  PROVE  a + b + c + d = a + (b + c + d)
  OBVIOUS

LEMMA FcnIsSeq ==
  ASSUME NEW S, NEW n \in Nat, NEW g \in [1..n -> S]
  PROVE  g \in Seq(S) /\ Len(g) = n
  OBVIOUS

LEMMA ConcatAt ==
  ASSUME NEW S, NEW s \in Seq(S), NEW t \in Seq(S)
  PROVE  /\ s \o t \in Seq(S) /\ Len(s \o t) = Len(s) + Len(t)
         /\ \A j \in 1..Len(s) : (s \o t)[j] = s[j]
         /\ \A j \in 1..Len(t) : (s \o t)[Len(s) + j] = t[j]
<1>1. Len(s) \in Nat /\ Len(t) \in Nat
  OBVIOUS
<1>2. \A j \in 1..Len(s) : (s \o t)[j] = s[j]
  BY <1>1, ConcatProperties
<1>3. ASSUME NEW j \in 1..Len(t)
      PROVE  (s \o t)[Len(s) + j] = t[j]
  <2>1. Len(s) + j \in 1..(Len(s) + Len(t)) /\ ~(Len(s) + j <= Len(s)) /\ (Len(s) + j) - Len(s) = j
    BY <1>1
  <2> QED
    BY <2>1, ConcatProperties
<1> QED
  BY <1>2, <1>3, ConcatProperties

MaskLen(f) == IF f.masked THEN 4 ELSE 0

\* What is where in the bytes of a frame.
LEMMA WireAt ==
  ASSUME NEW f \in FrameFields, FrameOk(f)
  PROVE  /\ Wire(f) \in Seq(0..255)
         /\ Len(Wire(f)) = 2 + f.form + MaskLen(f) + Len(f.payload)
         /\ Wire(f)[1] = FirstByte(f) /\ Wire(f)[2] = SecondByte(f)
         /\ \A j \in 1..f.form : Wire(f)[2 + j] = Extended(f)[j]
         /\ f.masked => \A j \in 1..4 : Wire(f)[2 + f.form + j] = f.mask[j]
         /\ f.masked => \A j \in 1..Len(f.payload) : Wire(f)[6 + f.form + j] = Masked(f)[j]
<1> DEFINE h == <<FirstByte(f), SecondByte(f)>>
           e == Extended(f)
           m == IF f.masked THEN f.mask ELSE <<>>
           q == Masked(f)
<1>1. /\ f.masked \in BOOLEAN /\ f.form \in {0, 2, 8}
      /\ f.mask \in [1..4 -> 0..255] /\ f.payload \in Seq(0..255)
  BY DEF FrameFields
<1>2. Wire(f) = h \o e \o m \o q
  <2>1. (CASE f.form = 0 -> f.len [] f.form = 2 -> 126 [] f.form = 8 -> 127)
          = IF f.form = 0 THEN f.len ELSE IF f.form = 2 THEN 126 ELSE 127
    BY <1>1
  <2> QED
    BY <2>1, Zenon DEF Wire, FirstByte, SecondByte
<1>3. h \in Seq(0..255) /\ Len(h) = 2 /\ h[1] = FirstByte(f) /\ h[2] = SecondByte(f)
  BY FirstBytes
<1>4. e \in Seq(0..255) /\ Len(e) = f.form
  BY ExtendedSeq
<1>5. f.mask \in Seq(0..255) /\ Len(f.mask) = 4
  <2> DEFINE B == 0..255
  <2>1. 4 \in Nat /\ f.mask \in [1..4 -> B]
    BY <1>1
  <2> HIDE DEF B
  <2>2. f.mask \in Seq(B) /\ Len(f.mask) = 4
    BY <2>1, FcnIsSeq, ZenonT(40)
  <2> QED
    BY <2>2 DEF B
<1>6. m \in Seq(0..255) /\ Len(m) = MaskLen(f) /\ (f.masked => m = f.mask)
  <2>1. CASE f.masked
    BY <2>1, <1>5 DEF MaskLen
  <2>2. CASE ~f.masked
    BY <2>2, SMTT(30) DEF MaskLen
  <2> QED
    BY <2>1, <2>2
<1>7. q \in Seq(0..255) /\ Len(q) = Len(f.payload)
  <2>1. q = [k \in 1..Len(f.payload) |-> Xor(f.payload[k], f.mask[((k - 1) % 4) + 1])]
    BY <1>1, SMTT(30) DEF Masked
  <2>2. \A k \in 1..Len(f.payload) : Xor(f.payload[k], f.mask[((k - 1) % 4) + 1]) \in 0..255
    <3> SUFFICES ASSUME NEW k \in 1..Len(f.payload)
                 PROVE  Xor(f.payload[k], f.mask[((k - 1) % 4) + 1]) \in 0..255
      OBVIOUS
    <3>1. f.payload[k] \in 0..255
      BY <1>1, ElementOfSeq, ZenonT(40)
    <3>2. ((k - 1) % 4) + 1 \in 1..4
      <4>1. k - 1 \in Nat
        BY <1>1
      <4>2. (k - 1) % 4 \in 0..3
        BY <4>1, SMTT(30)
      <4> QED
        BY <4>2
    <3>3. f.mask[((k - 1) % 4) + 1] \in 0..255
      BY <1>1, <3>2, ZenonT(40)
    <3> QED
      BY <3>1, <3>3, XorTwice, ZenonT(40)
  <2> DEFINE B == 0..255
             n == Len(f.payload)
             X(k) == Xor(f.payload[k], f.mask[((k - 1) % 4) + 1])
  <2>3. n \in Nat /\ q = [k \in 1..n |-> X(k)] /\ \A k \in 1..n : X(k) \in B
    BY <1>1, <2>1, <2>2
  <2> HIDE DEF B, n, X, q
  <2>4. q \in [1..n -> B]
    BY <2>3, Zenon
  <2>5. q \in Seq(B) /\ Len(q) = n
    BY <2>3, <2>4, FcnIsSeq, Zenon
  <2> QED
    BY <2>5, SMTT(30) DEF B, n
<1> HIDE DEF h, e, m, q
<1> DEFINE he == h \o e
           hem == he \o m
           w == hem \o q
           B == 0..255
<1> HIDE DEF B
<1>8. /\ he \in Seq(B) /\ Len(he) = 2 + f.form
      /\ \A j \in 1..2 : he[j] = h[j]
      /\ \A j \in 1..f.form : he[2 + j] = e[j]
  <2>1. h \in Seq(B) /\ e \in Seq(B)
    BY <1>3, <1>4 DEF B
  <2>2. /\ he \in Seq(B) /\ Len(he) = Len(h) + Len(e)
        /\ \A j \in 1..Len(h) : he[j] = h[j]
        /\ \A j \in 1..Len(e) : he[Len(h) + j] = e[j]
    BY <2>1, ConcatAt
  <2> HIDE DEF he
  <2> QED
    BY <1>3, <1>4, <2>2
<1> HIDE DEF he
<1>9. /\ hem \in Seq(B) /\ Len(hem) = 2 + f.form + MaskLen(f)
      /\ \A j \in 1..(2 + f.form) : hem[j] = he[j]
      /\ \A j \in 1..MaskLen(f) : hem[2 + f.form + j] = m[j]
  <2>1. m \in Seq(B)
    BY <1>6 DEF B
  <2> QED
    <3>1. /\ hem \in Seq(B) /\ Len(hem) = Len(he) + Len(m)
          /\ \A j \in 1..Len(he) : hem[j] = he[j]
          /\ \A j \in 1..Len(m) : hem[Len(he) + j] = m[j]
      <4>1. he \in Seq(B)
        BY <1>8
      <4> QED
        BY <2>1, <4>1, ConcatAt
    <3> HIDE DEF hem
    <3> QED
      BY <1>6, <1>8, <3>1
<1> HIDE DEF hem
<1>10. /\ w \in Seq(B) /\ Len(w) = 2 + f.form + MaskLen(f) + Len(f.payload)
       /\ \A j \in 1..(2 + f.form + MaskLen(f)) : w[j] = hem[j]
       /\ \A j \in 1..Len(f.payload) : w[2 + f.form + MaskLen(f) + j] = q[j]
  <2>1. q \in Seq(B)
    BY <1>7 DEF B
  <2> QED
    <3>1. /\ w \in Seq(B) /\ Len(w) = Len(hem) + Len(q)
          /\ \A j \in 1..Len(hem) : w[j] = hem[j]
          /\ \A j \in 1..Len(q) : w[Len(hem) + j] = q[j]
      <4>1. hem \in Seq(B)
        BY <1>9
      <4> QED
        BY <2>1, <4>1, ConcatAt
    <3> HIDE DEF w
    <3> QED
      BY <1>7, <1>9, <3>1
<1>11. Wire(f) = w
  BY <1>2 DEF hem, he
<1> HIDE DEF w
<1>12. f.form \in Nat /\ MaskLen(f) \in Nat /\ (f.masked => MaskLen(f) = 4)
  BY <1>1 DEF MaskLen
<1>13. w[1] = FirstByte(f) /\ w[2] = SecondByte(f)
  <2>1. 1 \in 1..(2 + f.form + MaskLen(f)) /\ 2 \in 1..(2 + f.form + MaskLen(f))
        /\ 1 \in 1..(2 + f.form) /\ 2 \in 1..(2 + f.form) /\ 1 \in 1..2 /\ 2 \in 1..2
    BY <1>12
  <2> QED
    BY <2>1, <1>3, <1>8, <1>9, <1>10
<1>14. ASSUME NEW j \in 1..f.form
       PROVE  w[2 + j] = e[j]
  <2>1. 2 + j \in 1..(2 + f.form + MaskLen(f)) /\ 2 + j \in 1..(2 + f.form)
    BY <1>12
  <2> QED
    BY <2>1, <1>8, <1>9, <1>10
<1>15. ASSUME f.masked, NEW j \in 1..4
       PROVE  w[2 + f.form + j] = f.mask[j]
  <2>1. 2 + f.form + j \in 1..(2 + f.form + MaskLen(f)) /\ j \in 1..MaskLen(f)
    BY <1>12, <1>15
  <2> QED
    BY <2>1, <1>6, <1>9, <1>10, <1>15
<1>16. ASSUME f.masked, NEW j \in 1..Len(f.payload)
       PROVE  w[6 + f.form + j] = q[j]
  <2>1. Len(f.payload) \in Nat
    BY <1>1
  <2>2. 6 + f.form + j = 2 + f.form + MaskLen(f) + j
    BY <1>12, <1>16, <2>1
  <2> QED
    BY <2>2, <1>10
<1> QED
  BY <1>10, <1>11, <1>13, <1>14, <1>15, <1>16 DEF B, e, q
-----------------------------------------------------------------------------
(* The client's stream.                                                    *)

LEMMA StreamFacts ==
  ASSUME client \in Streams
  PROVE  /\ RequestOk(request)
         /\ frames \in Seq(FrameFields) /\ Len(frames) \in Nat /\ DOMAIN frames = 1..Len(frames)
         /\ starts \in [1..(Len(frames) + 1) -> Nat] /\ starts[1] = Len(request)
         /\ stream \in Seq(Nat) /\ Len(stream) \in Nat
         /\ Len(stream) = starts[Len(frames) + 1]
         /\ \A j \in DOMAIN request : stream[j] = request[j]
<1>1. StreamOk(client)
  BY StreamAssumption
<1>2. /\ RequestOk(request) /\ frames \in Seq(FrameFields)
      /\ starts \in [1..(Len(frames) + 1) -> Nat] /\ starts[1] = Len(request)
      /\ stream \in Seq(Nat) /\ Len(stream) = starts[Len(frames) + 1]
      /\ \A j \in DOMAIN request : stream[j] = request[j]
  BY <1>1, Zenon DEF StreamOk, request, frames, starts, stream
<1> QED
  BY <1>2, LenProperties

\* Frame k and its bytes in the stream.
LEMMA FrameFacts ==
  ASSUME client \in Streams, NEW k \in DOMAIN frames
  PROVE  /\ frames[k] \in FrameFields /\ FrameOk(frames[k])
         /\ k < Len(frames) => Len(frames[k].payload) = Announced(frames[k])
         /\ Announced(frames[k]) > 0 => frames[k].payload # <<>>
         /\ starts[k] \in Nat
         /\ starts[k + 1] = starts[k] + 2 + frames[k].form + MaskLen(frames[k]) + Len(frames[k].payload)
         /\ stream[starts[k] + 1] = FirstByte(frames[k])
         /\ stream[starts[k] + 2] = SecondByte(frames[k])
         /\ \A j \in 1..frames[k].form : stream[starts[k] + 2 + j] = Extended(frames[k])[j]
         /\ frames[k].masked =>
              \A j \in 1..4 : stream[starts[k] + 2 + frames[k].form + j] = frames[k].mask[j]
         /\ frames[k].masked =>
              \A j \in 1..Len(frames[k].payload) :
                stream[starts[k] + 6 + frames[k].form + j] = Masked(frames[k])[j]
<1> DEFINE f == frames[k]
           w == Wire(f)
<1>1. StreamOk(client)
  BY StreamAssumption
<1>2. /\ FrameOk(f)
      /\ k < Len(frames) => Len(f.payload) = Announced(f)
      /\ Announced(f) > 0 => f.payload # <<>>
      /\ starts[k + 1] = starts[k] + Len(w)
      /\ \A j \in DOMAIN w : stream[starts[k] + j] = w[j]
  BY <1>1, Zenon DEF StreamOk, frames, starts, stream
<1>3. f \in FrameFields /\ starts[k] \in Nat /\ k \in 1..Len(frames)
  BY StreamFacts, ElementOfSeq
<1>4. f.form \in {0, 2, 8} /\ f.masked \in BOOLEAN /\ f.payload \in Seq(0..255)
  BY <1>3 DEF FrameFields
<1>5. Len(f.payload) \in Nat
  BY <1>4, LenProperties
<1> HIDE DEF f
<1>6. /\ w \in Seq(0..255)
      /\ Len(w) = 2 + f.form + MaskLen(f) + Len(f.payload)
      /\ w[1] = FirstByte(f) /\ w[2] = SecondByte(f)
      /\ \A j \in 1..f.form : w[2 + j] = Extended(f)[j]
      /\ f.masked => \A j \in 1..4 : w[2 + f.form + j] = f.mask[j]
      /\ f.masked => \A j \in 1..Len(f.payload) : w[6 + f.form + j] = Masked(f)[j]
  BY <1>2, <1>3, WireAt
<1> HIDE DEF w
<1>7. DOMAIN w = 1..(2 + f.form + MaskLen(f) + Len(f.payload))
  BY <1>6, LenProperties
<1>8. f.form \in Nat /\ MaskLen(f) \in Nat /\ (f.masked => MaskLen(f) = 4)
  BY <1>4 DEF MaskLen
<1>9. stream[starts[k] + 1] = FirstByte(f) /\ stream[starts[k] + 2] = SecondByte(f)
  <2>1. 1 \in DOMAIN w /\ 2 \in DOMAIN w
    BY <1>5, <1>7, <1>8
  <2> QED
    BY <1>2, <1>6, <2>1
<1>10. ASSUME NEW j \in 1..f.form
       PROVE  stream[starts[k] + 2 + j] = Extended(f)[j]
  <2>1. 2 + j \in DOMAIN w
    BY <1>5, <1>7, <1>8
  <2>2. starts[k] + 2 + j = starts[k] + (2 + j)
    BY <1>3, <1>8
  <2> QED
    BY <1>2, <1>6, <2>1, <2>2
<1>11. ASSUME f.masked, NEW j \in 1..4
       PROVE  stream[starts[k] + 2 + f.form + j] = f.mask[j]
  <2>1. 2 + f.form + j \in DOMAIN w
    <3>1. MaskLen(f) = 4
      BY <1>8, <1>11
    <3>2. j <= 4 /\ 1 <= j /\ j \in Nat
      OBVIOUS
    <3> DEFINE g == f.form
               n == Len(f.payload)
    <3>3. g \in Nat /\ n \in Nat /\ DOMAIN w = 1..(2 + g + 4 + n)
      BY <1>5, <1>7, <1>8, <3>1
    <3> HIDE DEF g, n
    <3>4. 2 + g + j \in 1..(2 + g + 4 + n)
      BY <3>2, <3>3
    <3> QED
      BY <3>3, <3>4 DEF g
  <2>2. starts[k] + 2 + f.form + j = starts[k] + (2 + f.form + j)
    <3>1. starts[k] \in Nat /\ f.form \in Nat /\ j \in Nat /\ 2 \in Nat
      BY <1>3, <1>8
    <3> QED
      BY <3>1, Assoc
  <2> QED
    BY <1>2, <1>6, <1>11, <2>1, <2>2
<1>12. ASSUME f.masked, NEW j \in 1..Len(f.payload)
       PROVE  stream[starts[k] + 6 + f.form + j] = Masked(f)[j]
  <2>1. 6 + f.form + j \in DOMAIN w
    <3> DEFINE g == f.form
               n == Len(f.payload)
    <3>1. g \in Nat /\ n \in Nat /\ DOMAIN w = 1..(2 + g + 4 + n) /\ j \in 1..n
      BY <1>5, <1>7, <1>8, <1>12
    <3> HIDE DEF g, n
    <3>2. 6 + g + j \in 1..(2 + g + 4 + n)
      BY <3>1
    <3> QED
      BY <3>1, <3>2 DEF g
  <2>2. starts[k] + 6 + f.form + j = starts[k] + (6 + f.form + j)
    <3>1. starts[k] \in Nat /\ f.form \in Nat /\ j \in Nat /\ 6 \in Nat
      BY <1>3, <1>5, <1>8
    <3> QED
      BY <3>1, Assoc
  <2> QED
    BY <1>2, <1>6, <1>12, <2>1, <2>2
<1>13. starts[k + 1] = starts[k] + 2 + f.form + MaskLen(f) + Len(f.payload)
  <2>1. starts[k + 1] = starts[k] + Len(w) /\ Len(w) = 2 + f.form + MaskLen(f) + Len(f.payload)
    BY <1>2, <1>6
  <2>2. starts[k] \in Nat /\ f.form \in Nat /\ MaskLen(f) \in Nat /\ Len(f.payload) \in Nat
    BY <1>3, <1>5, <1>8
  <2> DEFINE s == starts[k]
             g == f.form
             m == MaskLen(f)
             n == Len(f.payload)
  <2>3. s \in Nat /\ g \in Nat /\ m \in Nat /\ n \in Nat /\ 2 \in Nat
    BY <2>2
  <2> HIDE DEF s, g, m, n
  <2>4. s + 2 + g + m + n = s + (2 + g + m + n)
    BY <2>3, SMTT(30)
  <2> QED
    BY <2>1, <2>4 DEF s, g, m, n
<1> QED
  BY <1>2, <1>3, <1>9, <1>10, <1>11, <1>12, <1>13 DEF f

\* The fields of frame k, as numbers.
LEMMA FieldFacts ==
  ASSUME client \in Streams, NEW k \in DOMAIN frames
  PROVE  /\ frames[k].fin \in BOOLEAN /\ frames[k].masked \in BOOLEAN
         /\ frames[k].rsv \in 0..7 /\ frames[k].opcode \in 0..15 /\ frames[k].form \in {0, 2, 8}
         /\ frames[k].len \in 0..Huge /\ frames[k].top \in 0..255
         /\ frames[k].mask \in [1..4 -> 0..255] /\ frames[k].payload \in Seq(0..255)
         /\ Len(frames[k].payload) \in Nat /\ Announced(frames[k]) \in 0..Huge
         /\ Len(frames[k].payload) <= Announced(frames[k])
<1>1. frames[k] \in FrameFields /\ FrameOk(frames[k])
  BY FrameFacts, Zenon
<1>2. /\ frames[k].fin \in BOOLEAN /\ frames[k].masked \in BOOLEAN
      /\ frames[k].rsv \in 0..7 /\ frames[k].opcode \in 0..15 /\ frames[k].form \in {0, 2, 8}
      /\ frames[k].len \in 0..Huge /\ frames[k].top \in 0..255
      /\ frames[k].mask \in [1..4 -> 0..255] /\ frames[k].payload \in Seq(0..255)
  BY <1>1 DEF FrameFields
<1>3. Len(frames[k].payload) \in Nat
  BY <1>2, LenProperties
<1>4. Announced(frames[k]) \in 0..Huge
  BY <1>2, HugeNat DEF Announced
<1>5. Len(frames[k].payload) <= Announced(frames[k])
  BY <1>1 DEF FrameOk
<1> QED
  BY <1>2, <1>3, <1>4, <1>5
-----------------------------------------------------------------------------
(* Steps of the parser.                                                    *)

LEMMA Kept ==
  ASSUME client' = client
  PROVE  /\ request' = request /\ frames' = frames /\ starts' = starts /\ stream' = stream
         /\ \A k : Open(k)' <=> Open(k)
         /\ \A k : Bad(k)' <=> Bad(k)
         /\ \A k : Accepted(k)' <=> Accepted(k)
         /\ \A k : HeadEnd(k)' = HeadEnd(k)
<1>1. request' = request /\ frames' = frames /\ starts' = starts /\ stream' = stream
  BY DEF request, frames, starts, stream
<1>2. \A k : Open(k)' <=> Open(k)
  BY <1>1, Zenon DEF Open
<1>3. \A k : Bad(k)' <=> Bad(k)
  BY <1>1, <1>2, SMT DEF Bad, Announced
<1>4. \A k : Accepted(k)' <=> Accepted(k)
  BY <1>3, Zenon DEF Accepted
<1>5. \A k : HeadEnd(k)' = HeadEnd(k)
  BY <1>1, Zenon DEF HeadEnd
<1> QED
  BY <1>1, <1>2, <1>3, <1>4, <1>5

\* A step of the parser leaves the request and the writer alone.
LEMMA ParserStep ==
  ASSUME WsInv, handshake_done, UNCHANGED <<client, upgrade, received, written>>,
         pos' \in pos..received, parser' \in ParserType, messages' \in Seq(MessageType),
         capacity' \in Nat, pc' \in {"caller", "feed", "protocol", "overflow"}, FramesInv'
  PROVE  WsInv'
<1>1. /\ client' = client /\ handshake_done' = handshake_done /\ accept' = accept
      /\ received' = received /\ written' = written
  BY DEF upgrade
<1>2. TypeOK /\ RequestExactly /\ WrittenInv
  BY DEF WsInv
<1>3. client \in Streams /\ received \in 0..Len(stream) /\ pos \in 0..received
  BY <1>2 DEF TypeOK
<1>4. Len(stream) \in Nat /\ Len(request) \in Nat
  <2>1. Len(stream) \in Nat /\ RequestOk(request)
    BY <1>3, StreamFacts
  <2> QED
    BY <2>1, LenProperties DEF RequestOk
<1>5. pos' \in 0..received' /\ pos' >= pos
  BY <1>1, <1>3, <1>4
<1>6. TypeOK'
  BY <1>1, <1>2, <1>5, Kept DEF TypeOK
<1>7. RequestExactly'
  <2>1. /\ ValidRequest /\ received >= Len(request) /\ pos >= Len(request)
        /\ \E k \in DOMAIN request :
             /\ IsKey(k) /\ accept = request[k]
             /\ \A j \in (k + 1)..Len(request) : ~IsKey(j)
    BY <1>2 DEF RequestExactly
  <2>2. pos' >= Len(request)
    BY <1>3, <1>4, <1>5, <2>1
  <2>3. \A k : IsKey(k)' <=> IsKey(k)
    BY <1>1, Kept DEF IsKey
  <2>4. \A name : Holds(name)' <=> Holds(name)
    BY <1>1, Kept DEF Holds
  <2>5. ValidRequest'
    BY <1>1, <2>1, <2>4, Kept DEF ValidRequest
  <2> QED
    BY <1>1, <2>1, <2>2, <2>3, <2>5, Kept DEF RequestExactly
<1>8. WrittenInv'
  BY <1>1, <1>2, Zenon DEF WrittenInv
<1> QED
  BY <1>1, <1>6, <1>7, <1>8 DEF WsInv, UpgradeInv

\* Where nothing is delivered the parser stays in its frame.
LEMMA SameFrame ==
  ASSUME client' = client, messages' = messages, NEW k, k = Current, Before(k)
  PROVE  k = Current' /\ Before(k)'
<1>1. k = Current'
  BY DEF Current
<1>2. Before(k)'
  <2>1. \A j, n : Delivered(j, n)' <=> Delivered(j, n)
    BY Kept DEF Delivered, Begins, Announced
  <2> QED
    BY <2>1, Kept DEF Before
<1> QED
  BY <1>1, <1>2
\* Where the parser is called.
LEMMA Feeding ==
  ASSUME WsInv, pc = "feed"
  PROVE  /\ handshake_done /\ client \in Streams
         /\ received \in Nat /\ received <= Len(stream) /\ pos \in Nat /\ pos <= received
         /\ parser \in ParserType /\ messages \in Seq(MessageType) /\ Len(messages) \in Nat
         /\ capacity \in Nat /\ capacity > 0
         /\ \E k \in 1..(Len(frames) + 1) :
              /\ k = Current /\ Before(k) /\ Standing(k)
              /\ (parser.fragmented_opcode # 0) <=> Open(k)
<1>1. /\ client \in Streams /\ received \in 0..Len(stream) /\ pos \in 0..received
      /\ parser \in ParserType /\ messages \in Seq(MessageType) /\ capacity \in Nat
      /\ handshake_done \in BOOLEAN
  BY DEF WsInv, TypeOK
<1>2. handshake_done
  BY DEF WsInv, UpgradeInv
<1>3. PICK k \in 1..(Len(frames) + 1) : FramesAt(k)
  BY <1>2 DEF WsInv, FramesInv
<1>4. /\ k = Current /\ Before(k) /\ Standing(k) /\ capacity > 0
      /\ (parser.fragmented_opcode # 0) <=> Open(k)
  BY <1>3 DEF FramesAt
<1>5. received \in Nat /\ received <= Len(stream) /\ pos \in Nat /\ pos <= received
  BY <1>1, StreamFacts
<1>6. Len(messages) \in Nat
  BY <1>1, LenProperties
<1> QED
  BY <1>1, <1>2, <1>4, <1>5, <1>6

\* A byte of the head is taken: the parser goes on in its frame or refuses it.
LEMMA GoesOnInv ==
  ASSUME WsInv, pc = "feed", UNCHANGED <<client, upgrade, received, capacity, written>>,
         NEW k \in DOMAIN frames, k = Current, Before(k), k = Len(messages) + 1,
         (parser.fragmented_opcode # 0) <=> Open(k),
         NEW p, NEW ok \in BOOLEAN, GoesOn(p, ok), pos' = pos + 1, pos < received,
         p \in ParserType, p.fragmented_opcode = parser.fragmented_opcode,
         ok => Standing(k)',
         ~ok => Bad(k) /\ pos + 1 <= HeadEnd(k)
  PROVE  WsInv'
<1>1. /\ parser' = p /\ messages' = messages /\ pc' = IF ok THEN "feed" ELSE "protocol"
      /\ client' = client /\ capacity' = capacity
  BY DEF GoesOn
<1>2. /\ handshake_done /\ client \in Streams /\ received \in Nat /\ pos \in Nat
      /\ messages \in Seq(MessageType) /\ capacity \in Nat /\ capacity > 0
  BY Feeding
<1>3. pos' \in pos..received
  BY <1>2
<1>4. k = Current' /\ Before(k)'
  BY <1>1, SameFrame
<1>5. ~ok => Refused(k)'
  BY <1>1, Kept DEF Refused
<1>6. ok => ((parser.fragmented_opcode # 0)' <=> Open(k)')
  BY <1>1, Kept
<1>7. FramesAt(k)'
  <2>1. CASE ok
    BY <2>1, <1>1, <1>2, <1>4, <1>6 DEF FramesAt
  <2>2. CASE ~ok
    BY <2>2, <1>1, <1>2, <1>4, <1>5 DEF FramesAt
  <2> QED
    BY <2>1, <2>2
<1>8. k \in 1..(Len(frames') + 1)
  BY <1>1, <1>2, Kept, StreamFacts
<1>9. FramesInv'
  BY <1>7, <1>8 DEF FramesInv
<1>10. pc' \in {"caller", "feed", "protocol", "overflow"}
  BY <1>1
<1> QED
  BY <1>1, <1>2, <1>3, <1>9, <1>10, ParserStep

\* Where the head of frame k ends.
LEMMA HeadEndIs ==
  ASSUME client \in Streams, NEW k \in DOMAIN frames
  PROVE  HeadEnd(k) = starts[k] + 2 + frames[k].form + MaskLen(frames[k])
<1>1. starts[k + 1] = starts[k] + 2 + frames[k].form + MaskLen(frames[k]) + Len(frames[k].payload)
  BY FrameFacts
<1>2. starts[k] \in Nat /\ Len(frames[k].payload) \in Nat /\ frames[k].form \in Nat
  BY FrameFacts, FieldFacts
<1>3. MaskLen(frames[k]) \in Nat
  BY DEF MaskLen
<1> QED
  BY <1>1, <1>2, <1>3, SMTT(30) DEF HeadEnd

\* There are bytes to come, so there is a frame.
LEMMA FrameToCome ==
  ASSUME client \in Streams, NEW k \in 1..(Len(frames) + 1), pos = starts[k], pos < Len(stream)
  PROVE  k \in DOMAIN frames
<1>1. Len(frames) \in Nat /\ DOMAIN frames = 1..Len(frames) /\ Len(stream) = starts[Len(frames) + 1]
      /\ Len(stream) \in Nat
  BY StreamFacts
<1>2. k # Len(frames) + 1
  BY <1>1
<1> QED
  BY <1>1, <1>2

LEMMA Header1Keeps == WsInv /\ Header1 => WsInv'
<1> SUFFICES ASSUME WsInv, Header1
             PROVE  WsInv'
  OBVIOUS
<1> DEFINE op == Byte % 16
           p == [parser EXCEPT !.fin = (Byte >= 128), !.opcode = op, !.state = "HEADER_2"]
           ok == (Byte \div 16) % 8 = 0 /\ valid_opcode(op)
<1>1. /\ pc = "feed" /\ parser.state = "HEADER_1" /\ pos < received /\ pos' = pos + 1
      /\ UNCHANGED <<client, upgrade, received, capacity, written>> /\ GoesOn(p, ok)
  BY DEF Header1, Takes, InState
<1>2. /\ client \in Streams /\ received \in Nat /\ received <= Len(stream) /\ pos \in Nat
      /\ parser \in ParserType
  BY <1>1, Feeding
<1>3. PICK k \in 1..(Len(frames) + 1) :
        /\ k = Current /\ Before(k) /\ Standing(k)
        /\ (parser.fragmented_opcode # 0) <=> Open(k)
  BY <1>1, Feeding
<1>4. /\ pos = starts[k] /\ k = Len(messages) + 1
      /\ parser.ext_len_bytes = <<>> /\ parser.mask = <<>> /\ parser.payload_offset = 0
  BY <1>1, <1>3 DEF Standing, AtHeader1
<1>5. k \in DOMAIN frames
  <2>1. Len(stream) \in Nat
    BY <1>2, StreamFacts, SMTT(30), ZenonT(40)
  <2>2. pos < Len(stream)
    BY <1>1, <1>2, <2>1
  <2> QED
    BY <1>2, <1>3, <1>4, <2>2, FrameToCome
<1> DEFINE f == frames[k]
<1>6. Byte = FirstByte(f) /\ f \in FrameFields /\ FrameOk(f)
  BY <1>2, <1>4, <1>5, FrameFacts DEF Byte
<1>7. /\ Byte \in 0..255 /\ (Byte >= 128 <=> f.fin) /\ op = f.opcode
      /\ (Byte \div 16) % 8 = f.rsv
  BY <1>6, FirstBytes, SMTT(30)
<1>8. f.fin \in BOOLEAN /\ f.opcode \in 0..15 /\ f.form \in Nat
  BY <1>2, <1>5, FieldFacts
<1>9. (Byte >= 128) = f.fin
  <2>1. CASE Byte >= 128
    BY <2>1, <1>7, <1>8
  <2>2. CASE ~(Byte >= 128)
    BY <2>2, <1>7, <1>8
  <2> QED
    BY <2>1, <2>2
<1>10. ok <=> f.rsv = 0 /\ valid_opcode(f.opcode)
  BY <1>7
<1>11. p \in ParserType /\ p.fragmented_opcode = parser.fragmented_opcode
  BY <1>2, <1>7, <1>8, <1>9, ZenonT(40) DEF ParserType
<1>12. ASSUME ok
       PROVE  Standing(k)'
  <2>1. /\ p.state = "HEADER_2" /\ p.fin = f.fin /\ p.opcode = f.opcode
        /\ p.ext_len_bytes = <<>> /\ p.mask = <<>> /\ p.payload_offset = 0
    BY <1>2, <1>4, <1>7, <1>9 DEF ParserType
  <2>2. parser' = p /\ messages' = messages /\ client' = client
    BY <1>1 DEF GoesOn
  <2> HIDE DEF p, ok, op
  <2>3. AtHeader2(k)'
    BY <1>1, <1>4, <1>5, <1>10, <1>12, <2>1, <2>2, Kept DEF AtHeader2, Reached
  <2> QED
    BY <2>1, <2>2, <2>3 DEF Standing
<1>13. ASSUME ~ok
       PROVE  Bad(k) /\ pos + 1 <= HeadEnd(k)
  <2>1. Bad(k)
    BY <1>10, <1>13 DEF Bad, valid_opcode, CONTINUATION, TEXT, BINARY, CLOSE, PING, PONG
  <2>2. HeadEnd(k) = pos + 2 + f.form + MaskLen(f) /\ MaskLen(f) \in Nat
    BY <1>2, <1>4, <1>5, HeadEndIs DEF MaskLen
  <2> QED
    BY <1>2, <1>8, <2>1, <2>2
<1> HIDE DEF p, ok, f
<1>14. ok \in BOOLEAN
  BY DEF ok
<1> QED
  BY <1>1, <1>3, <1>4, <1>5, <1>11, <1>12, <1>13, <1>14, GoesOnInv
\* validate_frame_header finds what is left to find when the other checks have
\* passed.
LEMMA HeaderValid ==
  ASSUME client \in Streams, NEW k \in DOMAIN frames, NEW p,
         p.opcode = frames[k].opcode, p.fin = frames[k].fin,
         p.payload_len = Announced(frames[k]), (p.fragmented_opcode # 0) <=> Open(k),
         frames[k].rsv = 0, frames[k].masked, valid_opcode(frames[k].opcode),
         frames[k].form = 2 => frames[k].len > 125,
         frames[k].form = 8 => frames[k].top < 128 /\ (frames[k].top # 0 \/ frames[k].len > 65535)
  PROVE  validate_frame_header(p) <=> ~Bad(k)
<1> DEFINE f == frames[k]
<1>1. /\ f.opcode \in 0..15 /\ f.fin \in BOOLEAN /\ f.form \in {0, 2, 8} /\ f.top \in 0..255
      /\ f.len \in Nat /\ Announced(f) \in Nat
  BY FieldFacts, HugeNat
<1> HIDE DEF f
<1>2. ~Bad(k) <=> /\ f.opcode >= 8 => f.fin /\ ~(Announced(f) > 125)
                  /\ f.opcode = 0 => Open(k)
                  /\ f.opcode \in {1, 2} => ~Open(k)
  <2>1. ~(f.form = 2 /\ f.len <= 125)
    BY <1>1 DEF f
  <2>2. ~(f.form = 8 /\ (f.top >= 128 \/ (f.top = 0 /\ f.len <= 65535)))
    BY <1>1, SMT DEF f
  <2>3. f.opcode \in {0, 1, 2, 8, 9, 10} /\ f.rsv = 0 /\ f.masked
    BY DEF f, valid_opcode, CONTINUATION, TEXT, BINARY, CLOSE, PING, PONG
  <2> QED
    BY <2>1, <2>2, <2>3, SMT DEF Bad, f
<1>3. validate_frame_header(p) <=>
        IF f.opcode >= 8 THEN f.fin /\ Announced(f) <= 125
        ELSE (f.opcode = 0) = (p.fragmented_opcode # 0)
  BY DEF validate_frame_header, is_control_opcode, CONTINUATION, f
<1>4. f.opcode \in {0, 1, 2, 8, 9, 10}
  BY DEF f, valid_opcode, CONTINUATION, TEXT, BINARY, CLOSE, PING, PONG
<1>5. CASE f.opcode >= 8
  BY <1>1, <1>2, <1>3, <1>4, <1>5
<1>6. CASE ~(f.opcode >= 8)
  <2>1. (f.opcode = 0) = (p.fragmented_opcode # 0) <=> (f.opcode = 0 <=> Open(k))
    OBVIOUS
  <2> QED
    BY <1>1, <1>2, <1>3, <1>4, <1>6, <2>1
<1> QED
  BY <1>5, <1>6

\* What is in the bytes of the length is refused by its form alone.
LEMMA FormBad ==
  ASSUME NEW k,
         \/ frames[k].form = 2 /\ frames[k].len <= 125
         \/ frames[k].form = 8 /\ (frames[k].top >= 128 \/ (frames[k].top = 0 /\ frames[k].len <= 65535))
  PROVE  Bad(k)
  BY SMT DEF Bad

LEMMA Header2Keeps == WsInv /\ Header2 => WsInv'
<1> SUFFICES ASSUME WsInv, Header2
             PROVE  WsInv'
  OBVIOUS
<1> DEFINE len == Byte % 128
           p == [parser EXCEPT !.payload_len = len]
           pe == [p EXCEPT !.ext_len_needed = IF len = 126 THEN 2 ELSE 8, !.state = "EXT_LEN"]
           pm == [p EXCEPT !.payload_remaining = len, !.state = "MASK"]
<1>1. /\ pc = "feed" /\ parser.state = "HEADER_2" /\ pos < received /\ pos' = pos + 1
      /\ UNCHANGED <<client, upgrade, received, capacity, written>>
      /\ \/ Byte < 128 /\ GoesOn(p, FALSE)
         \/ Byte >= 128 /\ len >= 126 /\ GoesOn(pe, TRUE)
         \/ Byte >= 128 /\ len < 126 /\ GoesOn(pm, validate_frame_header(p))
  BY Zenon DEF Header2, Takes, InState
<1>2. /\ client \in Streams /\ received \in Nat /\ received <= Len(stream) /\ pos \in Nat
      /\ parser \in ParserType
  BY <1>1, Feeding
<1>3. PICK k \in 1..(Len(frames) + 1) :
        /\ k = Current /\ Before(k) /\ Standing(k)
        /\ (parser.fragmented_opcode # 0) <=> Open(k)
  BY <1>1, Feeding
<1> DEFINE f == frames[k]
<1>4. /\ k \in DOMAIN frames /\ pos = starts[k] + 1 /\ k = Len(messages) + 1
      /\ parser.opcode = f.opcode /\ parser.fin = f.fin /\ f.rsv = 0 /\ valid_opcode(f.opcode)
      /\ parser.ext_len_bytes = <<>> /\ parser.mask = <<>> /\ parser.payload_offset = 0
  BY <1>1, <1>3 DEF Standing, AtHeader2, Reached
<1>5. Byte = SecondByte(f) /\ f \in FrameFields /\ FrameOk(f) /\ starts[k] \in Nat
  <2>1. f \in FrameFields /\ FrameOk(f) /\ starts[k] \in Nat /\ stream[starts[k] + 2] = SecondByte(f)
    BY <1>2, <1>4, FrameFacts, Zenon
  <2>2. pos = starts[k] + 1
    BY <1>4, Zenon
  <2>3. pos + 1 = starts[k] + 2
    BY <2>1, <2>2, SMTT(30)
  <2> QED
    BY <2>1, <2>3, Zenon DEF Byte
<1>6. /\ f.fin \in BOOLEAN /\ f.masked \in BOOLEAN /\ f.opcode \in 0..15 /\ f.form \in {0, 2, 8}
      /\ f.len \in Nat /\ f.mask \in [1..4 -> 0..255] /\ Announced(f) \in Nat /\ f.top \in 0..255
  BY <1>2, <1>4, FieldFacts, HugeNat
<1>7. /\ Byte \in 0..255 /\ (Byte >= 128 <=> f.masked) /\ (f.form = 0 => len = f.len)
      /\ (f.form = 2 => len = 126) /\ (f.form = 8 => len = 127)
  BY <1>5, FirstBytes, SMTT(30)
<1>8. (f.form = 0 => f.len <= 125) /\ (f.top # 0 => f.form = 8)
  BY <1>5 DEF FrameOk
<1> HIDE DEF f, len
<1>9. len \in 0..127 /\ len \in 0..Huge
  BY <1>7, HugeNat DEF len
<1>10. pos + 1 <= HeadEnd(k)
  <2>1. HeadEnd(k) = starts[k] + 2 + f.form + MaskLen(f) /\ MaskLen(f) \in Nat
    BY <1>2, <1>4, HeadEndIs DEF MaskLen, f
  <2>2. f.form \in Nat /\ starts[k] \in Nat /\ pos + 1 = starts[k] + 2
    <3>1. f.form \in Nat
      BY <1>6
    <3>2. starts[k] \in Nat /\ pos = starts[k] + 1
      BY <1>4, <1>5, Zenon
    <3> QED
      BY <3>1, <3>2
  <2> QED
    BY <2>1, <2>2
<1>11. CASE Byte < 128 /\ GoesOn(p, FALSE)
  <2>0. Byte < 128
    BY <1>11, Zenon
  <2>1. ~f.masked
    BY <1>6, <1>7, <2>0
  <2>2. Bad(k)
    BY <2>1, SMT DEF Bad, f
  <2>3. p \in ParserType /\ p.fragmented_opcode = parser.fragmented_opcode
    BY <1>2, <1>9 DEF ParserType
  <2> HIDE DEF p
  <2> QED
    BY <1>1, <1>3, <1>4, <1>10, <1>11, <2>2, <2>3, GoesOnInv
<1>12. CASE Byte >= 128 /\ len >= 126 /\ GoesOn(pe, TRUE)
  <2>2. f.masked /\ f.form \in {2, 8} /\ (IF len = 126 THEN 2 ELSE 8) = f.form
    BY <1>6, <1>7, <1>8, <1>9, <1>12
  <2>3. pe \in ParserType /\ pe.fragmented_opcode = parser.fragmented_opcode
    BY <1>2, <1>9, ZenonT(40) DEF ParserType
  <2>4. /\ pe.state = "EXT_LEN" /\ pe.fin = f.fin /\ pe.opcode = f.opcode /\ pe.ext_len_needed = f.form
        /\ pe.ext_len_bytes = <<>> /\ pe.mask = <<>> /\ pe.payload_offset = 0
    BY <1>2, <1>4, <2>2 DEF ParserType, f
  <2>5. parser' = pe /\ messages' = messages /\ client' = client
    BY <1>1, <1>12 DEF GoesOn
  <2> HIDE DEF pe
  <2>6. Begins(<<>>, Extended(f))
    <3>1. Len(Extended(f)) = f.form
      BY <1>5, ExtendedSeq DEF f
    <3> QED
      BY <1>6, <3>1 DEF Begins
  <2>7. Standing(k)'
    <3>1. Reached(k, 2)'
      BY <1>1, <1>4, <1>5, <2>4, <2>5, Kept DEF Reached, f
    <3>2. AtExtLen(k)'
      <4>1. Len(parser'.ext_len_bytes) = 0 /\ 2 + Len(parser'.ext_len_bytes) = 2
        BY <2>4, <2>5
      <4> QED
        BY <1>4, <1>6, <2>2, <2>4, <2>5, <2>6, <3>1, <4>1, Kept DEF AtExtLen, f, Reached
    <3> QED
      BY <2>4, <2>5, <3>2 DEF Standing
  <2> QED
    BY <1>1, <1>3, <1>4, <1>12, <2>3, <2>7, GoesOnInv
<1>13. CASE Byte >= 128 /\ len < 126 /\ GoesOn(pm, validate_frame_header(p))
  <2> DEFINE ok == validate_frame_header(p)
  <2>2. f.masked /\ f.form = 0 /\ len = f.len /\ Announced(f) = len
    BY <1>6, <1>7, <1>8, <1>9, <1>13 DEF Announced
  <2>3. ok <=> ~Bad(k)
    <3>1. p.opcode = f.opcode /\ p.fin = f.fin /\ p.payload_len = Announced(f)
          /\ p.fragmented_opcode = parser.fragmented_opcode
      BY <1>2, <1>4, <2>2 DEF ParserType, f
    <3> HIDE DEF p
    <3> QED
      BY <1>2, <1>3, <1>4, <2>2, <3>1, HeaderValid DEF f
  <2>4. pm \in ParserType /\ pm.fragmented_opcode = parser.fragmented_opcode
    BY <1>2, <1>9 DEF ParserType
  <2>5. /\ pm.state = "MASK" /\ pm.fin = f.fin /\ pm.opcode = f.opcode
        /\ pm.mask = <<>> /\ pm.payload_offset = 0 /\ pm.payload_remaining = len
    BY <1>2, <1>4 DEF ParserType, f
  <2>6. parser' = pm /\ messages' = messages /\ client' = client
    BY <1>1, <1>13 DEF GoesOn
  <2> HIDE DEF pm
  <2>7. Begins(<<>>, f.mask)
    <3>1. Len(f.mask) = 4
      BY <1>6
    <3> QED
      BY <3>1 DEF Begins
  <2>8. ASSUME ok
        PROVE  Standing(k)'
    <3>1. Reached(k, 2)'
      BY <1>1, <1>4, <1>5, <2>5, <2>6, Kept DEF Reached, f
    <3>2. ~Bad(k)'
      BY <2>3, <2>6, <2>8, Kept
    <3>3. AtMask(k)'
      <4>1. Len(parser'.mask) = 0 /\ frames'[k].form = 0
        BY <2>2, <2>5, <2>6, Kept DEF f
      <4>2. 2 + frames'[k].form + Len(parser'.mask) = 2
        BY <4>1
      <4> QED
        BY <1>4, <2>2, <2>5, <2>6, <2>7, <3>1, <3>2, <4>1, <4>2, Kept DEF AtMask, f, Reached
    <3> QED
      BY <2>5, <2>6, <3>3 DEF Standing
  <2>9. ok \in BOOLEAN
    BY DEF validate_frame_header
  <2>10. GoesOn(pm, ok)
    BY <1>13
  <2> HIDE DEF ok
  <2> QED
    BY <1>1, <1>3, <1>4, <1>10, <2>10, <2>3, <2>4, <2>8, <2>9, GoesOnInv
<1> QED
  BY <1>1, <1>11, <1>12, <1>13

LEMMA BeginsNext ==
  ASSUME NEW B, NEW s \in Seq(B), NEW t \in Seq(B), Begins(s, t), Len(s) < Len(t),
         NEW x, x = t[Len(s) + 1]
  PROVE  /\ Append(s, x) \in Seq(B) /\ Len(Append(s, x)) = Len(s) + 1
         /\ Begins(Append(s, x), t)
         /\ Len(s) + 1 = Len(t) => Append(s, x) = t
<1>1. Len(s) \in Nat /\ Len(t) \in Nat /\ DOMAIN s = 1..Len(s)
  BY LenProperties
<1>2. Len(s) + 1 \in 1..Len(t)
  BY <1>1
<1>3. x \in B
  BY <1>2, ElementOfSeq
<1>4. Append(s, x) \in Seq(B) /\ Len(Append(s, x)) = Len(s) + 1
  BY <1>3, AppendProperties
<1>5. DOMAIN Append(s, x) = 1..(Len(s) + 1)
  BY <1>4, LenProperties
<1>6. \A j \in 1..(Len(s) + 1) : Append(s, x)[j] = t[j]
  <2> SUFFICES ASSUME NEW j \in 1..(Len(s) + 1)
               PROVE  Append(s, x)[j] = t[j]
    OBVIOUS
  <2>1. CASE j = Len(s) + 1
    BY <2>1, <1>3, AppendProperties
  <2>2. CASE j # Len(s) + 1
    <3>1. j \in 1..Len(s)
      BY <1>1, <2>2
    <3>2. Append(s, x)[j] = s[j]
      BY <3>1, <1>3, AppendProperties
    <3> QED
      BY <1>1, <3>1, <3>2 DEF Begins
  <2> QED
    BY <2>1, <2>2
<1>7. Begins(Append(s, x), t)
  BY <1>1, <1>2, <1>4, <1>5, <1>6 DEF Begins
<1>8. ASSUME Len(s) + 1 = Len(t)
      PROVE  Append(s, x) = t
  <2>1. Len(Append(s, x)) = Len(t) /\ \A j \in 1..Len(t) : Append(s, x)[j] = t[j]
    BY <1>4, <1>6, <1>8
  <2> QED
    BY <1>4, <2>1, SeqEqual
<1> QED
  BY <1>4, <1>7, <1>8

\* finish_length on the length of frame k.
LEMMA LengthRead ==
  ASSUME client \in Streams, NEW k \in DOMAIN frames, NEW p \in ParserType,
         frames[k].form \in {2, 8}, p.ext_len_needed = frames[k].form,
         p.ext_len_bytes = Extended(frames[k]),
         p.opcode = frames[k].opcode, p.fin = frames[k].fin,
         (p.fragmented_opcode # 0) <=> Open(k),
         frames[k].rsv = 0, frames[k].masked, valid_opcode(frames[k].opcode)
  PROVE  /\ Lengthened(p) = [p EXCEPT !.payload_len = Announced(frames[k]),
                                      !.payload_remaining = Announced(frames[k])]
         /\ finish_length(p) <=> ~Bad(k)
<1> DEFINE f == frames[k]
           q == Lengthened(p)
<1>1. /\ f \in FrameFields /\ FrameOk(f) /\ f.len \in Nat /\ f.top \in 0..255
      /\ Announced(f) \in 0..Huge /\ Announced(f) \in Nat
  BY FrameFacts, FieldFacts, HugeNat
<1>2. /\ f.form = 2 => sockify_read_be16(Extended(f)) = f.len /\ f.top = 0
      /\ f.form = 8 => sockify_read_be64(Extended(f)) = Announced(f) /\ Extended(f)[1] = f.top
  <2>1. f.form = 2 => f.top = 0
    BY <1>1 DEF FrameOk
  <2> QED
    BY <1>1, <2>1, ExtendedReads
<1> HIDE DEF f
<1>3. (IF p.ext_len_needed = 2 THEN sockify_read_be16(p.ext_len_bytes)
       ELSE sockify_read_be64(p.ext_len_bytes)) = Announced(f)
  <2>1. CASE f.form = 2
    BY <1>1, <1>2, <2>1 DEF Announced, f
  <2>2. CASE f.form = 8
    BY <1>2, <2>2 DEF f
  <2> QED
    BY <2>1, <2>2 DEF f
<1>4. q = [p EXCEPT !.payload_len = Announced(f), !.payload_remaining = Announced(f)]
  BY <1>3, Zenon DEF Lengthened
<1>5. /\ q.payload_len = Announced(f) /\ q.opcode = f.opcode /\ q.fin = f.fin
      /\ q.fragmented_opcode = p.fragmented_opcode
  BY <1>4 DEF ParserType, f
<1> HIDE DEF q
<1>6. finish_length(p) <=>
        /\ f.form = 2 => Announced(f) >= 126
        /\ f.form = 8 => Announced(f) >= 65536 /\ f.top < 128
        /\ validate_frame_header(q)
  BY <1>2, <1>5, SMT DEF finish_length, q, f
<1>7. /\ f.form = 2 => (Announced(f) >= 126 <=> f.len > 125)
      /\ f.form = 8 => (Announced(f) >= 65536 <=> f.top # 0 \/ f.len > 65535)
  BY <1>1, <1>2, HugeNat, SMT DEF Announced
<1>8. finish_length(p) <=> ~Bad(k)
  <2>1. CASE /\ f.form = 2 => f.len > 125
             /\ f.form = 8 => f.top < 128 /\ (f.top # 0 \/ f.len > 65535)
    <3>1. validate_frame_header(q) <=> ~Bad(k)
      BY <1>5, <2>1, HeaderValid DEF f
    <3> QED
      BY <1>6, <1>7, <2>1, <3>1, SMT
  <2>2. CASE ~(/\ f.form = 2 => f.len > 125
               /\ f.form = 8 => f.top < 128 /\ (f.top # 0 \/ f.len > 65535))
    <3>1. \/ f.form = 2 /\ f.len <= 125
          \/ f.form = 8 /\ (f.top >= 128 \/ (f.top = 0 /\ f.len <= 65535))
      BY <1>1, <2>2, SMT
    <3>2. Bad(k)
      BY <3>1, FormBad DEF f
    <3>3. ~finish_length(p)
      BY <1>6, <1>7, <2>2, SMT
    <3> QED
      BY <3>2, <3>3
  <2> QED
    BY <2>1, <2>2
<1> QED
  BY <1>4, <1>8, Zenon DEF q, f

LEMMA Shift ==
  ASSUME NEW a \in Nat, NEW b \in Nat, NEW c \in Nat
  PROVE  /\ (a + (b + c)) + 1 = a + b + (c + 1)
         /\ (a + (b + c)) + 1 = a + (b + (c + 1))
  OBVIOUS

LEMMA ExtLenKeeps == WsInv /\ ExtLen => WsInv'
<1> SUFFICES ASSUME WsInv, ExtLen
             PROVE  WsInv'
  OBVIOUS
<1> DEFINE p == [parser EXCEPT !.ext_len_bytes = Append(@, Byte)]
           pm == [Lengthened(p) EXCEPT !.state = "MASK"]
           n == Len(parser.ext_len_bytes)
<1>1. /\ pc = "feed" /\ parser.state = "EXT_LEN" /\ pos < received /\ pos' = pos + 1
      /\ UNCHANGED <<client, upgrade, received, capacity, written>>
      /\ \/ Len(p.ext_len_bytes) < p.ext_len_needed /\ GoesOn(p, TRUE)
         \/ ~(Len(p.ext_len_bytes) < p.ext_len_needed) /\ GoesOn(pm, finish_length(p))
  BY Zenon DEF ExtLen, Takes, InState
<1>2. /\ client \in Streams /\ received \in Nat /\ received <= Len(stream) /\ pos \in Nat
      /\ parser \in ParserType
  BY <1>1, Feeding
<1>3. PICK k \in 1..(Len(frames) + 1) :
        /\ k = Current /\ Before(k) /\ Standing(k)
        /\ (parser.fragmented_opcode # 0) <=> Open(k)
  BY <1>1, Feeding
<1> DEFINE f == frames[k]
<1>4. /\ k \in DOMAIN frames /\ pos = starts[k] + (2 + n) /\ k = Len(messages) + 1
      /\ parser.opcode = f.opcode /\ parser.fin = f.fin /\ f.rsv = 0 /\ valid_opcode(f.opcode)
      /\ f.masked /\ n < f.form /\ parser.ext_len_needed = f.form
      /\ Begins(parser.ext_len_bytes, Extended(f)) /\ parser.mask = <<>> /\ parser.payload_offset = 0
  BY <1>1, <1>3 DEF Standing, AtExtLen, Reached
<1>5. f \in FrameFields /\ FrameOk(f) /\ starts[k] \in Nat
  BY <1>2, <1>4, FrameFacts, Zenon
<1>6. /\ f.form \in {0, 2, 8} /\ f.mask \in [1..4 -> 0..255] /\ Announced(f) \in 0..Huge
  BY <1>2, <1>4, FieldFacts
<1>7. Extended(f) \in Seq(0..255) /\ Len(Extended(f)) = f.form
  BY <1>5, ExtendedSeq
<1>8. parser.ext_len_bytes \in Seq(0..255) /\ n \in Nat
  BY <1>2, LenProperties DEF ParserType
<1>15. pos = starts[k] + (2 + n) /\ n < f.form
  BY <1>4, Zenon
<1> HIDE DEF f, n
<1>9. Byte = Extended(f)[n + 1]
  <2>1. n + 1 \in 1..f.form
    BY <1>15, <1>6, <1>8, SMTT(30)
  <2>2. pos + 1 = starts[k] + 2 + (n + 1)
    <3>1. starts[k] \in Nat /\ 2 \in Nat /\ n \in Nat
      BY <1>5, <1>8
    <3> QED
      BY <1>15, <3>1, Shift, SMTT(30), ZenonT(40)
  <2>3. \A j \in 1..f.form : stream[starts[k] + 2 + j] = Extended(f)[j]
    BY <1>2, <1>4, FrameFacts, Zenon DEF f
  <2>4. stream[starts[k] + 2 + (n + 1)] = Extended(f)[n + 1]
    BY <2>1, <2>3, Zenon
  <2>5. Byte = stream[pos + 1]
    BY Zenon DEF Byte
  <2> QED
    BY <2>2, <2>4, <2>5, Zenon
<1> DEFINE b == Append(parser.ext_len_bytes, Byte)
<1>10. /\ b \in Seq(0..255) /\ Len(b) = n + 1 /\ Begins(b, Extended(f))
       /\ n + 1 = f.form => b = Extended(f)
  <2> DEFINE B == 0..255
             t == Extended(f)
             s == parser.ext_len_bytes
  <2>1. s \in Seq(B) /\ t \in Seq(B) /\ Begins(s, t) /\ Len(t) = f.form
    BY <1>4, <1>7, <1>8 DEF f
  <2>2. Len(s) < Len(t) /\ Byte = t[Len(s) + 1] /\ n = Len(s)
    BY <1>7, <1>9, <1>15 DEF n
  <2> HIDE DEF B, t, s
  <2>3. /\ Append(s, Byte) \in Seq(B) /\ Len(Append(s, Byte)) = Len(s) + 1
        /\ Begins(Append(s, Byte), t)
        /\ Len(s) + 1 = Len(t) => Append(s, Byte) = t
    BY <2>1, <2>2, BeginsNext
  <2> QED
    BY <2>1, <2>2, <2>3, Zenon DEF B, s, t
<1>16. p = [parser EXCEPT !.ext_len_bytes = b]
  OBVIOUS
<1> HIDE DEF b, p
<1>17. p \in ParserType
  <2>1. b \in Seq(0..255)
    BY <1>10
  <2> QED
    BY <1>2, <1>16, <2>1, ZenonT(40) DEF ParserType
<1>11. /\ p.ext_len_bytes = b
       /\ p.fragmented_opcode = parser.fragmented_opcode /\ p.state = "EXT_LEN"
       /\ p.fin = f.fin /\ p.opcode = f.opcode /\ p.ext_len_needed = f.form
       /\ p.mask = <<>> /\ p.payload_offset = 0
  BY <1>1, <1>2, <1>4, <1>16 DEF ParserType, f
<1>12. pos + 1 <= HeadEnd(k)
  <2>1. HeadEnd(k) = starts[k] + 2 + f.form + MaskLen(f) /\ MaskLen(f) \in Nat
    BY <1>2, <1>4, HeadEndIs DEF MaskLen, f
  <2>2. f.form \in Nat /\ starts[k] \in Nat /\ pos = starts[k] + (2 + n) /\ n < f.form
    BY <1>4, <1>5, <1>6 DEF f
  <2> DEFINE a == starts[k]
             g == f.form
             l == MaskLen(f)
             z == HeadEnd(k)
  <2>3. a \in Nat /\ g \in Nat /\ l \in Nat /\ z = a + 2 + g + l /\ pos = a + (2 + n) /\ n < g
    BY <2>1, <2>2
  <2> HIDE DEF a, g, l, z
  <2>4. pos + 1 <= z
    BY <1>8, <2>3
  <2> QED
    BY <2>4 DEF z
<1>13. CASE Len(p.ext_len_bytes) < p.ext_len_needed /\ GoesOn(p, TRUE)
  <2>1. parser' = p /\ messages' = messages /\ client' = client
    BY <1>1, <1>13 DEF GoesOn
  <2>2. Standing(k)'
    <3>1. Len(parser'.ext_len_bytes) = n + 1 /\ n + 1 < f.form
      BY <1>10, <1>11, <1>13, <2>1
    <3>2. pos' = starts[k] + (2 + (n + 1))
      <4>1. starts[k] \in Nat /\ 2 \in Nat /\ n \in Nat
        BY <1>5, <1>8
      <4> QED
        BY <1>1, <1>15, <4>1, Shift, ZenonT(40)
    <3>3. frames' = frames /\ starts' = starts
      BY <2>1, Kept
    <3>4. Reached(k, 2 + Len(parser.ext_len_bytes))'
      BY <1>4, <1>11, <2>1, <3>1, <3>2, <3>3 DEF Reached, f
    <3>5. Begins(parser.ext_len_bytes, Extended(frames[k]))'
      BY <1>10, <1>11, <2>1, <3>3 DEF f
    <3>6. AtExtLen(k)'
      BY <1>4, <1>11, <2>1, <3>1, <3>3, <3>4, <3>5 DEF AtExtLen, f
    <3> QED
      BY <1>11, <2>1, <3>6 DEF Standing
  <2> QED
    BY <1>1, <1>3, <1>4, <1>11, <1>13, <1>17, <2>2, GoesOnInv
<1>14. CASE ~(Len(p.ext_len_bytes) < p.ext_len_needed) /\ GoesOn(pm, finish_length(p))
  <2> DEFINE ok == finish_length(p)
  <2>1. n + 1 = f.form /\ f.form \in {2, 8}
    <3> DEFINE g == f.form
    <3>1. g \in {0, 2, 8} /\ n < g /\ n \in Nat
      BY <1>6, <1>8, <1>15
    <3>2. ~(n + 1 < g)
      BY <1>10, <1>11, <1>14
    <3> HIDE DEF g
    <3>3. n + 1 = g /\ g \in {2, 8}
      BY <3>1, <3>2
    <3> QED
      BY <3>3 DEF g
  <2>2. p.ext_len_bytes = Extended(f)
    BY <1>10, <1>11, <2>1
  <2>3. /\ Lengthened(p) = [p EXCEPT !.payload_len = Announced(f), !.payload_remaining = Announced(f)]
        /\ ok <=> ~Bad(k)
    BY <1>2, <1>3, <1>4, <1>11, <1>17, <2>1, <2>2, LengthRead DEF f
  <2>4. pm = [[p EXCEPT !.payload_len = Announced(f), !.payload_remaining = Announced(f)]
                EXCEPT !.state = "MASK"]
    BY <2>3, Zenon
  <2>5. GoesOn(pm, ok)
    BY <1>14
  <2>6. ok \in BOOLEAN
    BY DEF finish_length
  <2> HIDE DEF pm, ok
  <2> DEFINE r == [p EXCEPT !.payload_len = Announced(f), !.payload_remaining = Announced(f)]
  <2>11. /\ r \in ParserType /\ r.fragmented_opcode = p.fragmented_opcode
         /\ r.fin = p.fin /\ r.opcode = p.opcode /\ r.mask = p.mask
         /\ r.payload_offset = p.payload_offset /\ r.payload_remaining = Announced(f)
    BY <1>6, <1>17 DEF ParserType
  <2>12. pm = [r EXCEPT !.state = "MASK"]
    BY <2>4
  <2> HIDE DEF r
  <2>7. /\ pm \in ParserType /\ pm.fragmented_opcode = parser.fragmented_opcode
        /\ pm.state = "MASK" /\ pm.fin = f.fin /\ pm.opcode = f.opcode
        /\ pm.mask = <<>> /\ pm.payload_offset = 0 /\ pm.payload_remaining = Announced(f)
    <3>1. /\ pm \in ParserType /\ pm.fragmented_opcode = r.fragmented_opcode
          /\ pm.state = "MASK" /\ pm.fin = r.fin /\ pm.opcode = r.opcode /\ pm.mask = r.mask
          /\ pm.payload_offset = r.payload_offset /\ pm.payload_remaining = r.payload_remaining
      BY <2>11, <2>12, ZenonT(40) DEF ParserType
    <3> QED
      BY <1>11, <2>11, <3>1, Zenon
  <2>8. parser' = pm /\ messages' = messages /\ client' = client
    BY <1>1, <2>5 DEF GoesOn
  <2>9. Begins(<<>>, f.mask)
    <3>1. Len(f.mask) = 4
      BY <1>6
    <3> QED
      BY <3>1 DEF Begins
  <2>10. ASSUME ok
        PROVE  Standing(k)'
    <3>1. Reached(k, 2 + f.form)'
      <4>1. pos' = starts[k] + (2 + f.form)
        <5>1. pos' = pos + 1
          BY <1>1
        <5> DEFINE a == starts[k]
                   g == f.form
        <5>2. a \in Nat /\ pos = a + (2 + n) /\ n + 1 = g
          BY <1>5, <1>15, <2>1
        <5> HIDE DEF a, g
        <5>3. pos' = a + (2 + g)
          BY <1>8, <5>1, <5>2
        <5> QED
          BY <5>3 DEF a, g
      <4> QED
        BY <1>4, <2>7, <2>8, <4>1, Kept DEF Reached, f
    <3>2. ~Bad(k)'
      BY <2>3, <2>8, <2>10, Kept
    <3>3. AtMask(k)'
      <4>1. Len(parser'.mask) = 0 /\ frames'[k] = f
        BY <2>7, <2>8, Kept DEF f
      <4>2. 2 + frames'[k].form + Len(parser'.mask) = 2 + f.form
        BY <1>6, <4>1
      <4>3. Announced(f)' = Announced(f)
        BY <2>8, Kept DEF Announced, f
      <4> QED
        BY <1>4, <2>7, <2>8, <2>9, <3>1, <3>2, <4>1, <4>2, <4>3, Kept DEF AtMask, f, Reached
    <3> QED
      BY <2>7, <2>8, <3>3 DEF Standing
  <2> QED
    BY <1>1, <1>3, <1>4, <1>12, <2>3, <2>5, <2>6, <2>7, <2>10, GoesOnInv
<1> QED
  BY <1>1, <1>13, <1>14

-----------------------------------------------------------------------------
(* The end of a frame.                                                     *)

LEMMA OpenNext ==
  ASSUME client \in Streams, NEW k \in DOMAIN frames
  PROVE  Open(k + 1) <=> IF frames[k].opcode < 8 THEN ~frames[k].fin ELSE Open(k)
<1>1. Len(frames) \in Nat /\ k \in 1..Len(frames)
  BY StreamFacts
<1>2. k \in Nat /\ k >= 1 /\ (k + 1) - 1 = k
  BY <1>1
<1>3. \A j \in 1..k : frames[j].opcode \in 0..15
  <2> SUFFICES ASSUME NEW j \in 1..k
               PROVE  frames[j].opcode \in 0..15
    OBVIOUS
  <2>1. j \in DOMAIN frames
    BY <1>1, StreamFacts
  <2> QED
    BY <2>1, FieldFacts
<1> DEFINE Runs(j, last) == /\ frames[j].opcode < 8 /\ ~frames[j].fin
                            /\ \A m \in (j + 1)..last : frames[m].opcode >= 8
<1>4. /\ Open(k + 1) <=> \E j \in 1..k : Runs(j, k)
      /\ Open(k) <=> \E j \in 1..(k - 1) : Runs(j, k - 1)
  BY <1>2 DEF Open
<1>5. CASE frames[k].opcode < 8
  <2>1. CASE ~frames[k].fin
    <3>1. Runs(k, k) /\ k \in 1..k
      BY <1>2, <1>5, <2>1
    <3> QED
      BY <1>4, <1>5, <2>1, <3>1
  <2>2. CASE frames[k].fin
    <3> SUFFICES ASSUME NEW j \in 1..k, Runs(j, k)
                 PROVE  FALSE
      BY <1>4, <1>5, <2>2
    <3>1. j # k
      BY <2>2
    <3>2. k \in (j + 1)..k
      BY <1>2, <3>1
    <3>3. frames[k].opcode >= 8 /\ frames[k].opcode \in 0..15
      BY <1>2, <1>3, <3>2
    <3> QED
      BY <1>5, <3>3
  <2> QED
    BY <2>1, <2>2
<1>6. CASE ~(frames[k].opcode < 8)
  <2>1. frames[k].opcode >= 8
    BY <1>2, <1>3, <1>6
  <2>2. ASSUME NEW j \in 1..k, Runs(j, k)
        PROVE  j \in 1..(k - 1) /\ Runs(j, k - 1)
    <3>1. j # k
      BY <1>6, <2>2
    <3>2. j \in 1..(k - 1)
      BY <1>2, <3>1
    <3>3. \A m \in (j + 1)..(k - 1) : m \in (j + 1)..k
      BY <1>2
    <3> QED
      BY <2>2, <3>2, <3>3
  <2>3. ASSUME NEW j \in 1..(k - 1), Runs(j, k - 1)
        PROVE  j \in 1..k /\ Runs(j, k)
    <3>1. j \in 1..k
      BY <1>2
    <3>2. \A m \in (j + 1)..k : m = k \/ m \in (j + 1)..(k - 1)
      BY <1>2
    <3> QED
      BY <2>1, <2>3, <3>1, <3>2
  <2> HIDE DEF Runs
  <2> QED
    BY <1>4, <1>6, <2>2, <2>3
<1> QED
  BY <1>5, <1>6

LEMMA FragmentedSet ==
  ASSUME NEW r \in ParserType, NEW g \in 0..2
  PROVE  /\ [r EXCEPT !.fragmented_opcode = g] \in ParserType
         /\ [r EXCEPT !.fragmented_opcode = g].state = r.state
         /\ [r EXCEPT !.fragmented_opcode = g].ext_len_bytes = r.ext_len_bytes
         /\ [r EXCEPT !.fragmented_opcode = g].mask = r.mask
         /\ [r EXCEPT !.fragmented_opcode = g].payload_offset = r.payload_offset
         /\ [r EXCEPT !.fragmented_opcode = g].fragmented_opcode = g
  BY DEF ParserType

LEMMA Apart ==
  ASSUME NEW a \in Nat, NEW b \in Nat, a = b + 1
  PROVE  a - 1 = b /\ a # b
  OBVIOUS

\* reset_frame, behind a frame that was let pass.
LEMMA ResetStep ==
  ASSUME client \in Streams, NEW k \in DOMAIN frames, ~Bad(k), NEW p \in ParserType,
         p.opcode = frames[k].opcode, p.fin = frames[k].fin,
         (p.fragmented_opcode # 0) <=> Open(k)
  PROVE  /\ ~ResetFails(p)
         /\ reset_frame(p) \in ParserType
         /\ reset_frame(p).state = "HEADER_1" /\ reset_frame(p).ext_len_bytes = <<>>
         /\ reset_frame(p).mask = <<>> /\ reset_frame(p).payload_offset = 0
         /\ (reset_frame(p).fragmented_opcode # 0) <=> Open(k + 1)
<1> DEFINE f == frames[k]
           g == CASE p.opcode \in {TEXT, BINARY} /\ ~p.fin -> p.opcode
                  [] p.opcode = CONTINUATION /\ p.fin -> 0
                  [] OTHER -> p.fragmented_opcode
<1>1. f.opcode \in 0..15 /\ f.fin \in BOOLEAN
  BY FieldFacts
<1>2. /\ f.opcode \in {0, 1, 2, 8, 9, 10}
      /\ f.opcode = 0 => Open(k)
      /\ f.opcode \in {1, 2} => ~Open(k)
  BY SMT DEF Bad, f
<1>3. p.fragmented_opcode \in 0..2
  BY DEF ParserType
<1>4. Open(k + 1) <=> IF f.opcode < 8 THEN ~f.fin ELSE Open(k)
  BY OpenNext
<1> HIDE DEF f
<1>5. ~ResetFails(p)
  BY <1>2 DEF ResetFails, TEXT, BINARY, CONTINUATION, f
<1>6. /\ f.opcode \in {1, 2} /\ ~f.fin => g = f.opcode
      /\ f.opcode = 0 /\ f.fin => g = 0
      /\ ~(f.opcode \in {1, 2} /\ ~f.fin) /\ ~(f.opcode = 0 /\ f.fin) => g = p.fragmented_opcode
  BY <1>1, <1>2 DEF TEXT, BINARY, CONTINUATION, f
<1> HIDE DEF g
<1>7. g \in 0..2
  BY <1>1, <1>3, <1>6
<1>8. g # 0 <=> Open(k + 1)
  <2>1. (p.fragmented_opcode # 0) <=> Open(k)
    OBVIOUS
  <2>2. CASE f.opcode \in {8, 9, 10}
    <3>1. ~(f.opcode < 8) /\ g = p.fragmented_opcode
      BY <1>6, <2>2
    <3> QED
      BY <1>4, <2>1, <3>1
  <2>3. CASE f.opcode \in {1, 2}
    <3>1. f.opcode < 8 /\ f.opcode # 0
      BY <2>3
    <3> QED
      BY <1>1, <1>2, <1>4, <1>6, <2>1, <2>3, <3>1
  <2>4. CASE f.opcode = 0
    <3>1. f.opcode < 8 /\ f.opcode \notin {1, 2}
      BY <2>4
    <3> QED
      BY <1>1, <1>2, <1>4, <1>6, <2>1, <2>4, <3>1
  <2> QED
    BY <1>2, <2>2, <2>3, <2>4
<1>9. reset_frame(p) = [NewParser EXCEPT !.fragmented_opcode = g]
  BY Zenon DEF reset_frame, g
<1>10. /\ NewParser \in ParserType
       /\ NewParser.state = "HEADER_1" /\ NewParser.ext_len_bytes = <<>>
       /\ NewParser.mask = <<>> /\ NewParser.payload_offset = 0
  BY HugeNat DEF NewParser, ParserType
<1> QED
  <2> DEFINE r == NewParser
  <2>1. reset_frame(p) = [r EXCEPT !.fragmented_opcode = g]
    BY <1>9
  <2>2. r \in ParserType /\ r.state = "HEADER_1" /\ r.ext_len_bytes = <<>>
        /\ r.mask = <<>> /\ r.payload_offset = 0
    BY <1>10
  <2> HIDE DEF r
  <2>3. /\ reset_frame(p) \in ParserType
        /\ reset_frame(p).state = "HEADER_1" /\ reset_frame(p).ext_len_bytes = <<>>
        /\ reset_frame(p).mask = <<>> /\ reset_frame(p).payload_offset = 0
        /\ reset_frame(p).fragmented_opcode = g
    <3> DEFINE x == [r EXCEPT !.fragmented_opcode = g]
    <3>1. r \in ParserType
      BY <2>2
    <3>2. /\ x \in ParserType /\ x.state = r.state /\ x.ext_len_bytes = r.ext_len_bytes
          /\ x.mask = r.mask /\ x.payload_offset = r.payload_offset /\ x.fragmented_opcode = g
      BY <1>7, <3>1, FragmentedSet, Zenon
    <3> HIDE DEF x
    <3>3. reset_frame(p) = x
      BY <2>1 DEF x
    <3> QED
      BY <2>2, <3>2, <3>3, Zenon
  <2> QED
    BY <1>5, <1>8, <2>3

\* Where the parts of a frame are put together.
LEMMA Delivers ==
  ASSUME client \in Streams, messages \in Seq(MessageType), NEW k \in DOMAIN frames,
         k = Current, parser.fin = frames[k].fin, parser.opcode = frames[k].opcode,
         NEW b \in Seq(0..255), NEW c \in BOOLEAN, Deliver(parser, b, c),
         parser.payload_offset \in Nat,
         parser.payload_offset + Len(b) <= Len(frames[k].payload),
         \A j \in 1..Len(b) : b[j] = frames[k].payload[parser.payload_offset + j],
         parser.payload_offset = 0 => k = Len(messages) + 1,
         parser.payload_offset # 0 =>
           /\ k = Len(messages) /\ Len(messages[k].payload) = parser.payload_offset
           /\ Begins(messages[k].payload, frames[k].payload)
  PROVE  /\ messages' \in Seq(MessageType) /\ Len(messages') = k
         /\ \A j \in 1..(k - 1) : messages'[j] = messages[j]
         /\ messages'[k].fin = frames[k].fin /\ messages'[k].opcode = frames[k].opcode
         /\ messages'[k].complete <=> c
         /\ messages'[k].payload \in Seq(0..255)
         /\ Len(messages'[k].payload) = parser.payload_offset + Len(b)
         /\ Begins(messages'[k].payload, frames[k].payload)
<1> DEFINE f == frames[k]
           M == messages
           n == parser.payload_offset
           pf == parser.fin
           po == parser.opcode
<1>0. /\ n \in Nat /\ n + Len(b) <= Len(f.payload)
      /\ \A j \in 1..Len(b) : b[j] = f.payload[n + j]
      /\ n = 0 => k = Len(messages) + 1
      /\ n # 0 => /\ k = Len(messages) /\ Len(messages[k].payload) = n
                   /\ Begins(messages[k].payload, f.payload)
      /\ pf = f.fin /\ po = f.opcode
  OBVIOUS
<1>1. /\ f.fin \in BOOLEAN /\ f.opcode \in 0..15 /\ f.payload \in Seq(0..255)
      /\ Len(f.payload) \in Nat
  BY FieldFacts
<1>2. Len(M) \in Nat /\ Len(b) \in Nat /\ k \in Nat /\ DOMAIN M = 1..Len(M)
      /\ DOMAIN b = 1..Len(b) /\ k >= 1
  <2>1. k \in 1..Len(frames) /\ Len(frames) \in Nat
    BY StreamFacts
  <2> QED
    BY <2>1, LenProperties
<1> HIDE DEF f, n, pf, po
<1>3. CASE n = 0
  <2> DEFINE m == [fin |-> pf, opcode |-> po, payload |-> b, complete |-> c]
  <2>1. k = Len(M) + 1
    BY <1>0, <1>3, Zenon
  <2>2. M = <<>> \/ M[Len(M)].complete
    <3> SUFFICES ASSUME ~(M = <<>> \/ M[Len(M)].complete)
                 PROVE  FALSE
      OBVIOUS
    <3>1. Current = Len(M)
      BY Zenon DEF Current
    <3> QED
      BY <1>2, <2>1, <3>1, Apart, Zenon
  <2>3. messages' = Append(M, m)
    BY <2>2, Zenon DEF Deliver, pf, po
  <2>4. /\ m \in MessageType /\ m.fin = f.fin /\ m.opcode = f.opcode
        /\ m.payload = b /\ m.complete = c
    BY <1>0, <1>1, SMTT(30) DEF MessageType
  <2> HIDE DEF m
  <2>5. /\ messages' \in Seq(MessageType) /\ Len(messages') = k
        /\ \A j \in 1..(k - 1) : messages'[j] = M[j]
        /\ messages'[k] = m
    <3>1. /\ Append(M, m) \in Seq(MessageType) /\ Len(Append(M, m)) = Len(M) + 1
          /\ \A j \in 1..Len(M) : Append(M, m)[j] = M[j]
          /\ Append(M, m)[Len(M) + 1] = m
      BY <2>4, AppendProperties
    <3>2. k - 1 = Len(M)
      BY <1>2, <2>1, Apart, Zenon
    <3> QED
      BY <2>1, <2>3, <3>1, <3>2, ZenonT(40)
  <2>6. Begins(b, f.payload)
    <3>1. \A j \in 1..Len(b) : n + j = j
      BY <1>2, <1>3
    <3>2. Len(b) <= Len(f.payload)
      <4> DEFINE l == Len(f.payload)
                 lb == Len(b)
      <4>1. l \in Nat /\ lb \in Nat /\ 0 + lb <= l
        BY <1>0, <1>1, <1>2, <1>3, Zenon
      <4> HIDE DEF l, lb
      <4>2. lb <= l
        BY <4>1
      <4> QED
        BY <4>2 DEF l, lb
    <3> QED
      BY <1>0, <1>2, <3>1, <3>2 DEF Begins
  <2>7. Len(b) = n + Len(b)
    BY <1>2, <1>3
  <2> QED
    BY <2>4, <2>5, <2>6, <2>7, ZenonT(40) DEF f, n
<1>4. CASE n # 0
  <2> DEFINE q == M[k].payload
             m == [fin |-> pf, opcode |-> po, payload |-> q \o b, complete |-> c]
  <2>1. k = Len(M) /\ Len(q) = n /\ Begins(q, f.payload)
    BY <1>0, <1>4, Zenon
  <2>2. ~(M = <<>> \/ M[Len(M)].complete)
    <3> SUFFICES ASSUME M = <<>> \/ M[Len(M)].complete
                 PROVE  FALSE
      OBVIOUS
    <3>1. Current = Len(M) + 1
      BY Zenon DEF Current
    <3> QED
      BY <1>2, <2>1, <3>1, Apart, Zenon
  <2>3. messages' = [M EXCEPT ![k] = m]
    BY <2>1, <2>2, Zenon DEF Deliver, pf, po
  <2>4. M[k] \in MessageType
    BY <1>2, <2>1, ElementOfSeq
  <2>5. q \in Seq(0..255)
    BY <2>4 DEF MessageType
  <2> HIDE DEF q
  <2> DEFINE B == 0..255
  <2>6. q \in Seq(B) /\ b \in Seq(B)
    BY <2>5
  <2> HIDE DEF B
  <2>7. /\ q \o b \in Seq(B) /\ Len(q \o b) = n + Len(b)
        /\ \A j \in 1..n : (q \o b)[j] = q[j]
        /\ \A j \in 1..Len(b) : (q \o b)[n + j] = b[j]
    <3>1. /\ q \o b \in Seq(B) /\ Len(q \o b) = Len(q) + Len(b)
          /\ \A j \in 1..Len(q) : (q \o b)[j] = q[j]
          /\ \A j \in 1..Len(b) : (q \o b)[Len(q) + j] = b[j]
      BY <2>6, ConcatAt
    <3>2. Len(q) = n
      BY <2>1
    <3> QED
      BY <3>1, <3>2
  <2> DEFINE u == q \o b
  <2>8. u \in Seq(0..255) /\ Len(u) = n + Len(b)
    BY <2>7 DEF B
  <2>9. Begins(u, f.payload)
    <3>1. DOMAIN u = 1..(n + Len(b)) /\ DOMAIN q = 1..n
      BY <2>1, <2>6, <2>8, LenProperties
    <3>2. \A j \in 1..(n + Len(b)) : u[j] = f.payload[j]
      <4> SUFFICES ASSUME NEW j \in 1..(n + Len(b))
                   PROVE  u[j] = f.payload[j]
        OBVIOUS
      <4>1. CASE j <= n
        <5>1. j \in 1..n
          BY <1>0, <1>2, <4>1
        <5> QED
          BY <2>1, <2>7, <3>1, <5>1 DEF Begins
      <4>2. CASE ~(j <= n)
        <5>1. j - n \in 1..Len(b) /\ n + (j - n) = j
          BY <1>0, <1>2, <4>2
        <5>2. u[n + (j - n)] = b[j - n] /\ b[j - n] = f.payload[n + (j - n)]
          BY <1>0, <2>7, <5>1
        <5> QED
          BY <5>1, <5>2
      <4> QED
        BY <4>1, <4>2
    <3>3. Len(u) <= Len(f.payload)
      BY <1>0, <2>8
    <3> QED
      BY <3>1, <3>2, <3>3 DEF Begins
  <2> HIDE DEF u
  <2>10. m = [fin |-> pf, opcode |-> po, payload |-> u, complete |-> c]
    BY DEF u
  <2>11. /\ m \in MessageType /\ m.fin = f.fin /\ m.opcode = f.opcode
        /\ m.payload = u /\ m.complete = c
    BY <1>0, <1>1, <2>8, <2>10, ZenonT(40) DEF MessageType
  <2> HIDE DEF m
  <2>12. /\ messages' \in Seq(MessageType) /\ Len(messages') = k
         /\ \A j \in 1..(k - 1) : messages'[j] = M[j]
         /\ messages'[k] = m
    BY <1>2, <2>1, <2>3, <2>11
  <2> QED
    BY <2>8, <2>9, <2>11, <2>12, Zenon DEF f, n
<1> QED
  BY <1>3, <1>4

\* The last part of frame k has been delivered.
LEMMA FrameDone ==
  ASSUME WsInv, pc = "feed", UNCHANGED <<client, upgrade, received, capacity, written>>,
         NEW k \in DOMAIN frames, Before(k), ~Bad(k),
         (parser.fragmented_opcode # 0) <=> Open(k),
         NEW p \in ParserType, p.opcode = frames[k].opcode, p.fin = frames[k].fin,
         p.fragmented_opcode = parser.fragmented_opcode, Resets(p),
         pos' \in pos..received, pos' = starts[k + 1],
         messages' \in Seq(MessageType), Len(messages') = k,
         \A j \in 1..(k - 1) : messages'[j] = messages[j],
         messages'[k].fin = frames[k].fin, messages'[k].opcode = frames[k].opcode,
         messages'[k].complete, Len(frames[k].payload) = Announced(frames[k]),
         Len(messages'[k].payload) = Len(frames[k].payload),
         Begins(messages'[k].payload, frames[k].payload)
  PROVE  WsInv'
<1>1. /\ handshake_done /\ client \in Streams /\ client' = client
      /\ capacity \in Nat /\ capacity' = capacity
  BY Feeding
<1>2. k \in 1..Len(frames) /\ Len(frames) \in Nat /\ k \in Nat /\ k >= 1
  <2>1. k \in 1..Len(frames) /\ Len(frames) \in Nat
    BY <1>1, StreamFacts
  <2> QED
    BY <2>1
<1>3. (p.fragmented_opcode # 0) <=> Open(k)
  OBVIOUS
<1>4. /\ ~ResetFails(p) /\ reset_frame(p) \in ParserType
      /\ reset_frame(p).state = "HEADER_1" /\ reset_frame(p).ext_len_bytes = <<>>
      /\ reset_frame(p).mask = <<>> /\ reset_frame(p).payload_offset = 0
      /\ (reset_frame(p).fragmented_opcode # 0) <=> Open(k + 1)
  BY <1>1, <1>3, ResetStep
<1>5. parser' = reset_frame(p) /\ pc' = "caller"
  BY <1>4, Zenon DEF Resets
<1>6. /\ frames' = frames /\ starts' = starts
      /\ \A j : Open(j)' <=> Open(j)
      /\ \A j : Accepted(j)' <=> Accepted(j)
  BY <1>1, Kept
<1>7. Current' = k + 1
  BY <1>2 DEF Current
<1>8. Before(k + 1)'
  <2>1. (k + 1) - 1 = k
    BY <1>2
  <2>2. Accepted(k)
    <3>1. \A j \in 1..k : j = k \/ j \in 1..(k - 1)
      BY <1>2
    <3>2. \A j \in 1..(k - 1) : ~Bad(j)
      BY DEF Before, Accepted
    <3> QED
      BY <3>1, <3>2 DEF Accepted
  <2>3. messages'[k].complete /\ Delivered(k, Len(frames[k].payload))'
    BY <1>6 DEF Delivered
  <2>4. \A j \in 1..(k - 1) : messages'[j].complete /\ Delivered(j, Len(frames[j].payload))'
    BY <1>6 DEF Before, Delivered
  <2>5. \A j \in 1..k : messages'[j].complete /\ Delivered(j, Len(frames[j].payload))'
    <3>1. \A j \in 1..k : j = k \/ j \in 1..(k - 1)
      BY <1>2
    <3> QED
      BY <2>3, <2>4, <3>1
  <2> QED
    BY <1>6, <2>1, <2>2, <2>5 DEF Before
<1>9. Standing(k + 1)'
  BY <1>4, <1>5, <1>6 DEF Standing, AtHeader1
<1>10. FramesAt(k + 1)'
  BY <1>4, <1>5, <1>6, <1>7, <1>8, <1>9 DEF FramesAt
<1>11. k + 1 \in 1..(Len(frames') + 1)
  BY <1>2, <1>6
<1>12. FramesInv'
  BY <1>10, <1>11 DEF FramesInv
<1>13. pc' \in {"caller", "feed", "protocol", "overflow"} /\ parser' \in ParserType
  BY <1>4, <1>5
<1> QED
  BY <1>1, <1>12, <1>13, ParserStep

LEMMA Sums ==
  ASSUME NEW a \in Nat, NEW b \in Nat, NEW c \in Nat
  PROVE  /\ a + (b + c) = a + b + c
         /\ a + ((2 + b) + 4) = a + 2 + b + 4 + 0
  OBVIOUS

LEMMA DeliversNone ==
  ASSUME client \in Streams, messages \in Seq(MessageType), NEW k \in DOMAIN frames,
         k = Current, NEW p, p.fin = frames[k].fin, p.opcode = frames[k].opcode,
         Deliver(p, <<>>, TRUE), k = Len(messages) + 1
  PROVE  /\ messages' \in Seq(MessageType) /\ Len(messages') = k
         /\ \A j \in 1..(k - 1) : messages'[j] = messages[j]
         /\ messages'[k].fin = frames[k].fin /\ messages'[k].opcode = frames[k].opcode
         /\ messages'[k].complete /\ Len(messages'[k].payload) = 0
         /\ Begins(messages'[k].payload, frames[k].payload)
<1> DEFINE f == frames[k]
           M == messages
           m == [fin |-> p.fin, opcode |-> p.opcode, payload |-> <<>>, complete |-> TRUE]
<1>1. f.fin \in BOOLEAN /\ f.opcode \in 0..15 /\ Len(f.payload) \in Nat
  BY FieldFacts
<1>2. Len(M) \in Nat /\ k \in Nat
  <2>1. k \in 1..Len(frames) /\ Len(frames) \in Nat
    BY StreamFacts
  <2> QED
    BY <2>1, LenProperties
<1>3. M = <<>> \/ M[Len(M)].complete
  <2> SUFFICES ASSUME ~(M = <<>> \/ M[Len(M)].complete)
               PROVE  FALSE
    OBVIOUS
  <2>1. Current = Len(M)
    BY Zenon DEF Current
  <2> QED
    BY <1>2, <2>1, Apart, Zenon
<1>4. messages' = Append(M, m)
  BY <1>3, Zenon DEF Deliver
<1>5. /\ m \in MessageType /\ m.fin = f.fin /\ m.opcode = f.opcode
      /\ m.payload = <<>> /\ m.complete = TRUE
  BY <1>1 DEF MessageType
<1> HIDE DEF m
<1>6. /\ Append(M, m) \in Seq(MessageType) /\ Len(Append(M, m)) = Len(M) + 1
      /\ \A j \in 1..Len(M) : Append(M, m)[j] = M[j]
      /\ Append(M, m)[Len(M) + 1] = m
  BY <1>5, AppendProperties
<1>7. k - 1 = Len(M)
  BY <1>2, Apart, Zenon
<1>8. Begins(<<>>, f.payload)
  BY <1>1 DEF Begins
<1>9. Len(<<>>) = 0
  OBVIOUS
<1> QED
  BY <1>4, <1>5, <1>6, <1>7, <1>8, <1>9, Zenon

LEMMA MaskKeeps == WsInv /\ Mask => WsInv'
<1> SUFFICES ASSUME WsInv, Mask
             PROVE  WsInv'
  OBVIOUS
<1> DEFINE p == [parser EXCEPT !.mask = Append(@, Byte)]
           pp == [p EXCEPT !.state = "PAYLOAD"]
           n == Len(parser.mask)
<1>1. /\ pc = "feed" /\ parser.state = "MASK" /\ pos < received /\ pos' = pos + 1
      /\ UNCHANGED <<client, upgrade, received, capacity, written>>
      /\ \/ Len(p.mask) < 4 /\ GoesOn(p, TRUE)
         \/ Len(p.mask) = 4 /\ p.payload_remaining > 0 /\ GoesOn(pp, TRUE)
         \/ /\ Len(p.mask) = 4 /\ p.payload_remaining = 0
            /\ Deliver(p, <<>>, TRUE) /\ Resets(p)
  BY Zenon DEF Mask, Takes, InState
<1>2. /\ client \in Streams /\ received \in Nat /\ received <= Len(stream) /\ pos \in Nat
      /\ parser \in ParserType /\ messages \in Seq(MessageType)
  BY <1>1, Feeding
<1>3. PICK k \in 1..(Len(frames) + 1) :
        /\ k = Current /\ Before(k) /\ Standing(k)
        /\ (parser.fragmented_opcode # 0) <=> Open(k)
  BY <1>1, Feeding
<1> DEFINE f == frames[k]
<1>4. /\ k \in DOMAIN frames /\ pos = starts[k] + (2 + f.form + n) /\ k = Len(messages) + 1
      /\ parser.opcode = f.opcode /\ parser.fin = f.fin /\ f.rsv = 0 /\ valid_opcode(f.opcode)
      /\ ~Bad(k) /\ n < 4 /\ Begins(parser.mask, f.mask)
      /\ parser.payload_remaining = Announced(f) /\ parser.payload_offset = 0
  BY <1>1, <1>3 DEF Standing, AtMask, Reached
<1>5. starts[k] \in Nat /\ f \in FrameFields
  BY <1>2, <1>4, FrameFacts, Zenon
<1>6. /\ f.form \in {0, 2, 8} /\ f.form \in Nat /\ f.mask \in [1..4 -> 0..255]
      /\ Announced(f) \in Nat /\ Len(f.payload) \in Nat
      /\ f.payload \in Seq(0..255) /\ Len(f.payload) <= Announced(f)
  <2>1. /\ f.form \in {0, 2, 8} /\ f.mask \in [1..4 -> 0..255] /\ f.opcode \in 0..15
        /\ Announced(f) \in 0..Huge /\ Len(f.payload) \in Nat
        /\ f.payload \in Seq(0..255) /\ Len(f.payload) <= Announced(f)
    BY <1>2, <1>4, FieldFacts, SMTT(30), ZenonT(40)
  <2>2. f.form \in {0, 2, 8} /\ Announced(f) \in 0..Huge
    BY <2>1, Zenon
  <2>3. f.form \in Nat /\ Announced(f) \in Nat
    BY <2>2, HugeNat
  <2> QED
    BY <2>1, <2>3, ZenonT(40), SMTT(30)
<1>7. f.masked
  BY <1>4, SMT DEF Bad
<1>8. parser.mask \in Seq(0..255) /\ n \in Nat
  BY <1>2, LenProperties DEF ParserType
<1>9. pos = starts[k] + (2 + f.form + n) /\ n < 4
  BY <1>4, Zenon
<1> HIDE DEF f, n
<1>10. n + 1 \in 1..4
  BY <1>8, <1>9
<1> DEFINE h == 2 + f.form
<1>11. h \in Nat /\ pos = starts[k] + (h + n) /\ starts[k] + h = starts[k] + 2 + f.form
  <2>1. h \in Nat /\ pos = starts[k] + (h + n)
    BY <1>6, <1>9
  <2>2. 2 \in Nat /\ starts[k] \in Nat /\ f.form \in Nat
    BY <1>5, <1>6
  <2>3. starts[k] + (2 + f.form) = starts[k] + 2 + f.form
    BY <2>2, Sums, Zenon
  <2> QED
    BY <2>1, <2>3
<1> HIDE DEF h
<1>12. pos + 1 = starts[k] + h + (n + 1) /\ pos + 1 = starts[k] + (h + (n + 1))
  BY <1>5, <1>8, <1>11, Shift, Zenon
<1>13. Byte = f.mask[n + 1]
  <2>1. \A j \in 1..4 : stream[starts[k] + 2 + f.form + j] = f.mask[j]
    BY <1>2, <1>4, <1>7, FrameFacts DEF f
  <2>2. stream[starts[k] + 2 + f.form + (n + 1)] = f.mask[n + 1]
    BY <1>10, <2>1
  <2>3. starts[k] + 2 + f.form + (n + 1) = pos + 1
    BY <1>11, <1>12, Zenon
  <2> QED
    BY <2>2, <2>3 DEF Byte
<1> DEFINE b == Append(parser.mask, Byte)
<1>14. b \in Seq(0..255) /\ Len(b) = n + 1 /\ Begins(b, f.mask) /\ (n + 1 = 4 => b = f.mask)
  <2> DEFINE B == 0..255
             t == f.mask
             s == parser.mask
  <2>1. t \in [1..4 -> B] /\ 4 \in Nat
    BY <1>6
  <2>2. s \in Seq(B) /\ Begins(s, t)
    BY <1>4, <1>8 DEF f
  <2>3. Byte = t[Len(s) + 1] /\ n = Len(s)
    BY <1>13 DEF n
  <2> HIDE DEF B, t, s
  <2>4. t \in Seq(B) /\ Len(t) = 4
    BY <2>1, FcnIsSeq, ZenonT(40)
  <2>5. Len(s) < Len(t)
    BY <1>9, <2>3, <2>4
  <2>6. /\ Append(s, Byte) \in Seq(B) /\ Len(Append(s, Byte)) = Len(s) + 1
        /\ Begins(Append(s, Byte), t)
        /\ Len(s) + 1 = Len(t) => Append(s, Byte) = t
    BY <2>2, <2>3, <2>4, <2>5, BeginsNext, ZenonT(40)
  <2> QED
    BY <2>3, <2>4, <2>6, Zenon DEF B, s, t
<1>15. p = [parser EXCEPT !.mask = b]
  OBVIOUS
<1> HIDE DEF b, p
<1>16. p \in ParserType
  <2>1. b \in Seq(0..255)
    BY <1>14
  <2> QED
    BY <1>2, <1>15, <2>1, ZenonT(40) DEF ParserType
<1>17. /\ p.mask = b /\ p.fragmented_opcode = parser.fragmented_opcode /\ p.state = "MASK"
       /\ p.fin = f.fin /\ p.opcode = f.opcode /\ p.payload_offset = 0
       /\ p.payload_remaining = Announced(f)
  BY <1>1, <1>2, <1>4, <1>15 DEF ParserType, f
<1>18. frames' = frames /\ starts' = starts /\ (Bad(k)' <=> Bad(k)) /\ client' = client
  BY <1>1, Kept
<1>19. Len(p.mask) = n + 1
  BY <1>14, <1>17
<1>20. CASE Len(p.mask) < 4 /\ GoesOn(p, TRUE)
  <2>1. parser' = p /\ messages' = messages
    BY <1>20 DEF GoesOn
  <2>2. Len(parser'.mask) = n + 1 /\ n + 1 < 4
    BY <1>19, <1>20, <2>1
  <2>3. pos' = starts[k] + (2 + f.form + (n + 1))
    BY <1>1, <1>12 DEF h
  <2>4. Reached(k, 2 + frames[k].form + Len(parser.mask))'
    BY <1>4, <1>17, <1>18, <2>1, <2>2, <2>3 DEF Reached, f
  <2>5. Begins(parser.mask, frames[k].mask)'
    BY <1>14, <1>17, <1>18, <2>1 DEF f
  <2>6. AtMask(k)'
    BY <1>4, <1>17, <1>18, <2>1, <2>2, <2>4, <2>5 DEF AtMask, f
  <2>7. Standing(k)'
    BY <1>17, <2>1, <2>6 DEF Standing
  <2> QED
    BY <1>1, <1>3, <1>4, <1>16, <1>17, <1>20, <2>7, GoesOnInv
<1>21. CASE Len(p.mask) = 4 /\ p.payload_remaining > 0 /\ GoesOn(pp, TRUE)
  <2>1. parser' = pp /\ messages' = messages
    BY <1>21, Zenon DEF GoesOn
  <2>2. n + 1 = 4 /\ Announced(f) > 0
    <3>1. Len(p.mask) = 4 /\ p.payload_remaining > 0
      BY <1>21, Zenon
    <3> QED
      BY <1>17, <1>19, <3>1
  <2>3. pp \in ParserType
    BY <1>16 DEF ParserType
  <2>4. /\ pp.state = "PAYLOAD" /\ pp.mask = p.mask /\ pp.fragmented_opcode = p.fragmented_opcode
        /\ pp.fin = p.fin /\ pp.opcode = p.opcode /\ pp.payload_offset = p.payload_offset
        /\ pp.payload_remaining = p.payload_remaining
    BY <1>16 DEF ParserType
  <2>5. GoesOn(pp, TRUE)
    BY <1>21
  <2> HIDE DEF pp
  <2>6. pos' = starts[k] + (6 + f.form + 0)
    <3>1. h + (n + 1) = 6 + f.form + 0
      BY <1>6, <2>2 DEF h
    <3> QED
      BY <1>1, <1>12, <3>1
  <2>7. parser'.payload_offset = 0 /\ parser'.mask = f.mask
    BY <1>14, <1>17, <2>1, <2>2, <2>4
  <2>8. Reached(k, 6 + frames[k].form + parser.payload_offset)'
    BY <1>4, <1>17, <1>18, <2>1, <2>4, <2>6, <2>7 DEF Reached, f
  <2>9. AtPayload(k)'
    <3>1. Announced(f) - 0 = Announced(f) /\ 0 <= Len(f.payload) /\ 0 < Announced(f)
      BY <1>6, <2>2
    <3>2. parser'.payload_remaining = Announced(f)
      BY <1>17, <2>1, <2>4
    <3> QED
      BY <1>4, <1>18, <2>1, <2>7, <2>8, <3>1, <3>2 DEF AtPayload, f
  <2>10. Standing(k)'
    BY <2>1, <2>4, <2>9 DEF Standing
  <2> QED
    BY <1>1, <1>3, <1>4, <1>17, <2>3, <2>4, <2>5, <2>10, GoesOnInv
<1>22. CASE /\ Len(p.mask) = 4 /\ p.payload_remaining = 0
            /\ Deliver(p, <<>>, TRUE) /\ Resets(p)
  <2>1. n + 1 = 4 /\ Announced(f) = 0 /\ Len(f.payload) = 0
    <3>1. Len(p.mask) = 4 /\ p.payload_remaining = 0
      BY <1>22, Zenon
    <3> QED
      <4>1. n + 1 = 4
        BY <1>19, <3>1
      <4>2. Announced(f) = 0
        BY <1>17, <3>1
      <4>3. Len(f.payload) \in Nat /\ Len(f.payload) <= 0
        BY <1>6, <4>2
      <4> QED
        BY <4>1, <4>2, <4>3
  <2>2. pos + 1 = starts[k + 1]
    <3>1. starts[k + 1] = starts[k] + 2 + f.form + MaskLen(f) + Len(f.payload)
      BY <1>2, <1>4, FrameFacts DEF f
    <3>2. MaskLen(f) = 4
      BY <1>7 DEF MaskLen
    <3>3. h + (n + 1) = 2 + f.form + 4
      BY <2>1 DEF h
    <3> QED
      <4>1. starts[k] \in Nat /\ f.form \in Nat
        BY <1>5, <1>6
      <4>2. starts[k] + ((2 + f.form) + 4) = starts[k] + 2 + f.form + 4 + 0
        BY <4>1, Sums, Zenon
      <4> QED
        BY <1>12, <2>1, <3>1, <3>2, <3>3, <4>2, Zenon
  <2>3. /\ messages' \in Seq(MessageType) /\ Len(messages') = k
        /\ \A j \in 1..(k - 1) : messages'[j] = messages[j]
        /\ messages'[k].fin = frames[k].fin /\ messages'[k].opcode = frames[k].opcode
        /\ messages'[k].complete
        /\ Len(messages'[k].payload) = 0
        /\ Begins(messages'[k].payload, frames[k].payload)
    <3>1. Deliver(p, <<>>, TRUE)
      BY <1>22
    <3>2. p.fin = frames[k].fin /\ p.opcode = frames[k].opcode
      BY <1>17 DEF f
    <3> QED
      BY <1>2, <1>3, <1>4, <3>1, <3>2, DeliversNone
  <2>4. Len(messages'[k].payload) = Len(frames[k].payload)
    BY <2>1, <2>3 DEF f
  <2>5. pos' \in pos..received /\ pos' = starts[k + 1]
    BY <1>1, <1>2, <2>2
  <2>6. Len(frames[k].payload) = Announced(frames[k]) /\ Resets(p)
    BY <1>22, <2>1 DEF f
  <2> QED
    BY <1>1, <1>3, <1>4, <1>16, <1>17, <2>3, <2>4, <2>5, <2>6, FrameDone DEF f
<1> QED
  BY <1>1, <1>20, <1>21, <1>22, Zenon

\* n bytes of the payload of frame k, from byte o on.
LEMMA UnmaskedPayload ==
  ASSUME client \in Streams, NEW k \in DOMAIN frames, frames[k].masked,
         parser.payload_offset \in Nat, parser.mask = frames[k].mask,
         NEW n \in Nat, parser.payload_offset + n <= Len(frames[k].payload),
         pos = starts[k] + (6 + frames[k].form + parser.payload_offset)
  PROVE  /\ Unmasked(parser, n) \in Seq(0..255) /\ Len(Unmasked(parser, n)) = n
         /\ \A j \in 1..n : Unmasked(parser, n)[j] = frames[k].payload[parser.payload_offset + j]
<1> DEFINE o == parser.payload_offset
           f == frames[k]
           h == 6 + f.form
           M(j) == f.mask[((o + j - 1) % 4) + 1]
<1>0. /\ o \in Nat /\ o + n <= Len(f.payload) /\ pos = starts[k] + (6 + f.form + o)
  OBVIOUS
<1>1. /\ f.form \in Nat /\ f.mask \in [1..4 -> 0..255] /\ f.payload \in Seq(0..255)
      /\ Len(f.payload) \in Nat /\ starts[k] \in Nat
  <2>1. /\ f.form \in {0, 2, 8} /\ f.mask \in [1..4 -> 0..255] /\ f.payload \in Seq(0..255)
        /\ Len(f.payload) \in Nat
    BY FieldFacts, ZenonT(40)
  <2>2. starts[k] \in Nat
    BY FrameFacts, Zenon
  <2>3. f.form \in Nat
    BY <2>1
  <2> QED
    BY <2>1, <2>2, <2>3, Zenon
<1>2. \A j \in 1..Len(f.payload) : stream[starts[k] + 6 + f.form + j] = Masked(f)[j]
  BY FrameFacts
<1> HIDE DEF f, o
<1>3. ASSUME NEW j \in 1..n
      PROVE  Xor(stream[pos + j], M(j)) = f.payload[o + j] /\ f.payload[o + j] \in 0..255
  <2>1. o + j \in 1..Len(f.payload) /\ o + j - 1 \in Nat /\ j \in Nat
    <3>1. Len(f.payload) \in Nat /\ o + n <= Len(f.payload)
      BY <1>0, <1>1
    <3> QED
      BY <1>0, <3>1
  <2>2. pos + j = starts[k] + 6 + f.form + (o + j)
    <3> DEFINE a == starts[k]
               g == f.form
    <3>1. a \in Nat /\ g \in Nat /\ pos = a + (6 + g + o)
      BY <1>0, <1>1
    <3> HIDE DEF a, g
    <3>2. pos + j = a + 6 + g + (o + j)
      BY <1>0, <2>1, <3>1, SMTT(30)
    <3> QED
      BY <3>2 DEF a, g
  <2>3. Masked(f)[o + j] = Xor(f.payload[o + j], M(j))
    <3>1. DOMAIN f.payload = 1..Len(f.payload)
      BY <1>1, LenProperties
    <3> QED
      <4>1. Masked(f) = [i \in 1..Len(f.payload) |->
                           Xor(f.payload[i], f.mask[((i - 1) % 4) + 1])]
        BY <3>1, Zenon DEF Masked
      <4> DEFINE i == o + j
      <4>2. i \in 1..Len(f.payload)
        BY <2>1
      <4> HIDE DEF i
      <4>3. Masked(f)[i] = Xor(f.payload[i], f.mask[((i - 1) % 4) + 1])
        BY <4>1, <4>2
      <4> QED
        BY <1>0, <4>3 DEF i
  <2>4. f.payload[o + j] \in 0..255
    BY <1>1, <2>1, ElementOfSeq, ZenonT(40)
  <2>5. M(j) \in 0..255
    <3>1. (o + j - 1) % 4 \in 0..3
      BY <2>1, SMTT(30)
    <3>2. ((o + j - 1) % 4) + 1 \in 1..4
      BY <3>1
    <3> QED
      BY <1>1, <3>2, ZenonT(40)
  <2> HIDE DEF M
  <2>6. stream[pos + j] = Xor(f.payload[o + j], M(j))
    BY <1>2, <2>1, <2>2, <2>3, Zenon
  <2>7. Xor(Xor(f.payload[o + j], M(j)), M(j)) = f.payload[o + j]
    <3> DEFINE x == f.payload[o + j]
               y == M(j)
    <3>1. x \in 0..255 /\ y \in 0..255
      BY <2>4, <2>5
    <3> HIDE DEF x, y
    <3>2. Xor(Xor(x, y), y) = x
      BY <3>1, XorTwice, ZenonT(40)
    <3> QED
      BY <3>2 DEF x, y
  <2> QED
    BY <2>4, <2>6, <2>7
<1>4. Unmasked(parser, n) = [j \in 1..n |-> Xor(stream[pos + j], M(j))]
  BY SMTT(30) DEF Unmasked, f, o
<1> HIDE DEF M
<1> DEFINE B == 0..255
<1> HIDE DEF B
<1>5. Unmasked(parser, n) \in [1..n -> B]
  BY <1>3, <1>4, ZenonT(40) DEF B
<1>6. Unmasked(parser, n) \in Seq(B) /\ Len(Unmasked(parser, n)) = n
  BY <1>5, FcnIsSeq, Zenon
<1>7. \A j \in 1..n : Unmasked(parser, n)[j] = f.payload[o + j]
  BY <1>3, <1>4
<1> QED
  BY <1>6, <1>7 DEF B, f, o

LEMMA LeastOf ==
  ASSUME NEW a \in Nat, NEW b \in Nat, NEW c \in Nat
  PROVE  /\ Least({a, b, c}) \in {a, b, c} /\ Least({a, b, c}) \in Nat
         /\ Least({a, b, c}) <= a /\ Least({a, b, c}) <= b /\ Least({a, b, c}) <= c
<1> DEFINE S == {a, b, c}
<1>1. S \subseteq Nat /\ S # {}
  OBVIOUS
<1> HIDE DEF S
<1>2. \E n \in S : \A m \in S : n <= m
  BY <1>1, NatMin
<1>3. Least(S) \in S /\ \A m \in S : Least(S) <= m
  BY <1>2, Zenon DEF Least
<1>4. a \in S /\ b \in S /\ c \in S
  BY DEF S
<1> QED
  BY <1>1, <1>3, <1>4 DEF S

LEMMA PayloadSet ==
  ASSUME NEW r \in ParserType, NEW x \in Nat, NEW y \in 0..Huge
  PROVE  [r EXCEPT !.payload_offset = x, !.payload_remaining = y] \in ParserType
  BY DEF ParserType

LEMMA PayloadKeeps == WsInv /\ Payload => WsInv'
<1> SUFFICES ASSUME WsInv, Payload
             PROVE  WsInv'
  OBVIOUS
<1> DEFINE n == Least({received - pos, capacity, parser.payload_remaining})
           p == [parser EXCEPT !.payload_offset = @ + n, !.payload_remaining = @ - n]
           complete == p.payload_remaining = 0
           o == parser.payload_offset
<1>1. /\ pc = "feed" /\ parser.state = "PAYLOAD" /\ pos < received
      /\ UNCHANGED <<client, upgrade, received, capacity, written>>
      /\ \/ Overflows(parser) /\ pc' = "overflow" /\ UNCHANGED <<pos, parser, messages>>
         \/ /\ ~Overflows(parser) /\ pos' = pos + n
            /\ Deliver(parser, Unmasked(parser, n), complete)
            /\ \/ complete /\ Resets(p)
               \/ ~complete /\ parser' = p /\ pc' = "caller"
  BY Zenon DEF Payload, InState
<1>2. /\ client \in Streams /\ received \in Nat /\ received <= Len(stream) /\ pos \in Nat
      /\ parser \in ParserType /\ messages \in Seq(MessageType)
      /\ handshake_done /\ capacity \in Nat /\ capacity > 0
  BY <1>1, Feeding
<1>3. PICK k \in 1..(Len(frames) + 1) :
        /\ k = Current /\ Before(k) /\ Standing(k)
        /\ (parser.fragmented_opcode # 0) <=> Open(k)
  BY <1>1, Feeding
<1> DEFINE f == frames[k]
<1>4. /\ k \in DOMAIN frames /\ pos = starts[k] + (6 + f.form + o)
      /\ parser.opcode = f.opcode /\ parser.fin = f.fin /\ f.rsv = 0 /\ valid_opcode(f.opcode)
      /\ ~Bad(k) /\ parser.mask = f.mask
      /\ parser.payload_remaining = Announced(f) - o /\ o < Announced(f)
      /\ o <= Len(f.payload)
      /\ IF o = 0 THEN k = Len(messages) + 1 ELSE k = Len(messages) /\ Delivered(k, o)
  BY <1>1, <1>3 DEF Standing, AtPayload, Reached
<1>5. starts[k] \in Nat
  BY <1>2, <1>4, FrameFacts, Zenon
<1>6. /\ f.form \in Nat /\ Announced(f) \in Nat /\ Len(f.payload) \in Nat
      /\ f.payload \in Seq(0..255) /\ Len(f.payload) <= Announced(f)
      /\ f.opcode \in 0..15
  <2>1. /\ f.form \in {0, 2, 8} /\ f.mask \in [1..4 -> 0..255] /\ f.opcode \in 0..15
        /\ Announced(f) \in 0..Huge /\ Len(f.payload) \in Nat
        /\ f.payload \in Seq(0..255) /\ Len(f.payload) <= Announced(f)
    BY <1>2, <1>4, FieldFacts, SMTT(30), ZenonT(40)
  <2>2. f.form \in {0, 2, 8} /\ Announced(f) \in 0..Huge
    BY <2>1, Zenon
  <2>3. f.form \in Nat /\ Announced(f) \in Nat
    BY <2>2, HugeNat
  <2> QED
    BY <2>1, <2>3, ZenonT(40), SMTT(30)
<1>7. f.masked
  BY <1>4, SMT DEF Bad
<1>8. o \in Nat /\ parser.payload_remaining \in 0..Huge /\ parser.payload_remaining \in Nat
  BY <1>2, HugeNat DEF ParserType
<1>9. /\ pos = starts[k] + (6 + f.form + o) /\ parser.payload_remaining = Announced(f) - o
      /\ o < Announced(f) /\ o <= Len(f.payload)
  BY <1>4, Zenon
<1>10. frames' = frames /\ starts' = starts /\ (Bad(k)' <=> Bad(k)) /\ client' = client
       /\ (Open(k)' <=> Open(k)) /\ capacity' = capacity
  BY <1>1, Kept
<1>11. k \in 1..(Len(frames') + 1)
  BY <1>10
<1> HIDE DEF o, f
<1>12. CASE Overflows(parser) /\ pc' = "overflow" /\ UNCHANGED <<pos, parser, messages>>
  <2>1. pos' = pos /\ parser' = parser /\ messages' = messages /\ pc' = "overflow"
    BY <1>12
  <2>2. parser.opcode >= 8 /\ parser.payload_remaining > capacity
    <3>1. capacity # 0
      BY <1>2
    <3> QED
      BY <1>12, <3>1 DEF Overflows, is_control_opcode
  <2>3. k = Current' /\ Before(k)'
    BY <1>3, <1>10, <2>1, SameFrame
  <2>4. Standing(k)'
    <3>1. AtPayload(k)
      BY <1>1, <1>3 DEF Standing
    <3>2. Reached(k, 6 + frames[k].form + parser.payload_offset)'
      BY <1>10, <2>1, <3>1 DEF AtPayload, Reached
    <3>3. Delivered(k, parser.payload_offset)' <=> Delivered(k, parser.payload_offset)
      BY <1>10, <2>1 DEF Delivered
    <3>4. AtPayload(k)'
      BY <1>10, <2>1, <3>1, <3>2, <3>3 DEF AtPayload
    <3> QED
      BY <1>1, <2>1, <3>4 DEF Standing
  <2>5. FramesAt(k)'
    BY <1>1, <1>2, <1>3, <1>10, <2>1, <2>2, <2>3, <2>4 DEF FramesAt
  <2>6. FramesInv'
    BY <1>11, <2>5 DEF FramesInv
  <2>7. pos' \in pos..received /\ pc' \in {"caller", "feed", "protocol", "overflow"}
    BY <1>1, <1>2, <2>1
  <2> QED
    BY <1>1, <1>2, <1>10, <2>1, <2>6, <2>7, ParserStep
<1>13. CASE /\ ~Overflows(parser) /\ pos' = pos + n
            /\ Deliver(parser, Unmasked(parser, n), complete)
            /\ \/ complete /\ Resets(p)
               \/ ~complete /\ parser' = p /\ pc' = "caller"
  <2>1. n \in Nat /\ n <= received - pos /\ n <= parser.payload_remaining /\ n > 0
    <3>1. received - pos \in Nat /\ received - pos > 0 /\ parser.payload_remaining > 0
      <4>1. pos < received /\ pos \in Nat /\ received \in Nat
        BY <1>1, <1>2
      <4>2. received - pos \in Nat /\ received - pos > 0
        BY <4>1
      <4>3. o \in Nat /\ Announced(f) \in Nat /\ o < Announced(f)
        BY <1>6, <1>8, <1>9
      <4>4. Announced(f) - o > 0
        BY <4>3
      <4> QED
        BY <1>9, <4>2, <4>4
    <3>2. /\ n \in {received - pos, capacity, parser.payload_remaining} /\ n \in Nat
          /\ n <= received - pos /\ n <= parser.payload_remaining
      BY <1>2, <1>8, <3>1, LeastOf
    <3> HIDE DEF n
    <3> QED
      BY <1>2, <3>1, <3>2
  <2> HIDE DEF n
  <2>2. pos' = pos + n /\ pos' \in pos..received
    <3>1. pos' = pos + n
      BY <1>13, Zenon
    <3> QED
      BY <1>2, <2>1, <3>1
  <2>3. o + n <= Announced(f) /\ (parser.payload_remaining - n = 0 <=> o + n = Announced(f))
    <3> DEFINE a == Announced(f)
               r == parser.payload_remaining
    <3>1. a \in Nat /\ r \in Nat /\ r = a - o /\ n <= r
      BY <1>6, <1>8, <1>9, <2>1
    <3> HIDE DEF a, r
    <3>2. o + n <= a /\ (r - n = 0 <=> o + n = a)
      BY <1>8, <2>1, <3>1
    <3> QED
      BY <3>2 DEF a, r
  <2>4. starts[k + 1] = starts[k] + (6 + f.form + Len(f.payload))
    <3>1. starts[k + 1] = starts[k] + 2 + f.form + MaskLen(f) + Len(f.payload)
      BY <1>2, <1>4, FrameFacts DEF f
    <3>2. MaskLen(f) = 4
      BY <1>7 DEF MaskLen
    <3> DEFINE a == starts[k]
               g == f.form
               l == Len(f.payload)
    <3>3. a \in Nat /\ g \in Nat /\ l \in Nat
      BY <1>5, <1>6
    <3> HIDE DEF a, g, l
    <3>4. a + 2 + g + 4 + l = a + (6 + g + l)
      BY <3>3
    <3> QED
      BY <3>1, <3>2, <3>4 DEF a, g, l
  <2>5. o + n <= Len(f.payload)
    <3>1. CASE k < Len(frames)
      <4>1. Len(f.payload) = Announced(f)
        BY <1>2, <1>4, <3>1, FrameFacts DEF f
      <4> QED
        BY <2>3, <4>1
    <3>2. CASE ~(k < Len(frames))
      <4>1. k = Len(frames)
        BY <1>2, <1>4, <3>2, StreamFacts
      <4>2. Len(stream) = starts[k + 1]
        BY <1>2, <4>1, StreamFacts
      <4>3. pos + n <= starts[k] + (6 + f.form + Len(f.payload))
        BY <1>2, <2>1, <2>4, <4>2
      <4> DEFINE a == starts[k]
                 g == f.form
                 l == Len(f.payload)
      <4>4. a \in Nat /\ g \in Nat /\ l \in Nat /\ pos = a + (6 + g + o) /\ pos + n <= a + (6 + g + l)
        BY <1>5, <1>6, <1>9, <4>3
      <4> HIDE DEF a, g, l
      <4>5. o + n <= l
        BY <1>8, <2>1, <4>4
      <4> QED
        BY <4>5 DEF l
    <3> QED
      BY <3>1, <3>2
  <2> DEFINE b == Unmasked(parser, n)
  <2>6. b \in Seq(0..255) /\ Len(b) = n /\ \A j \in 1..n : b[j] = f.payload[o + j]
    <3>1. /\ client \in Streams /\ k \in DOMAIN frames /\ frames[k].masked /\ o \in Nat /\ n \in Nat
          /\ o + n <= Len(frames[k].payload) /\ pos = starts[k] + (6 + frames[k].form + o)
          /\ parser.mask = frames[k].mask
      BY <1>2, <1>4, <1>7, <1>8, <2>1, <2>5 DEF f, o
    <3> QED
      BY <3>1, UnmaskedPayload, Zenon DEF f, o
  <2>7. /\ p.payload_remaining = parser.payload_remaining - n /\ p.payload_offset = o + n
        /\ p.state = "PAYLOAD" /\ p.mask = parser.mask /\ p.opcode = parser.opcode
        /\ p.fin = parser.fin /\ p.fragmented_opcode = parser.fragmented_opcode
    BY <1>1, <1>2 DEF ParserType, o
  <2>8. p \in ParserType
    <3>1. o + n \in Nat /\ parser.payload_remaining - n \in 0..Huge
      BY <1>8, <2>1, HugeNat
    <3>2. p = [parser EXCEPT !.payload_offset = o + n,
                             !.payload_remaining = parser.payload_remaining - n]
      BY DEF o
    <3> DEFINE x == o + n
               y == parser.payload_remaining - n
    <3> HIDE DEF x, y
    <3>3. p = [parser EXCEPT !.payload_offset = x, !.payload_remaining = y]
      BY <3>2 DEF x, y
    <3>4. x \in Nat /\ y \in 0..Huge
      BY <3>1 DEF x, y
    <3> QED
      BY <1>2, <3>3, <3>4, PayloadSet, Zenon
  <2>9. complete <=> o + n = Announced(f)
    BY <2>3, <2>7
  <2>10. /\ complete \in BOOLEAN /\ Deliver(parser, b, complete)
         /\ \/ complete /\ Resets(p)
            \/ ~complete /\ parser' = p /\ pc' = "caller"
    BY <1>13, Zenon
  <2> HIDE DEF b, p, complete
  <2>11. /\ messages' \in Seq(MessageType) /\ Len(messages') = k
         /\ \A j \in 1..(k - 1) : messages'[j] = messages[j]
         /\ messages'[k].fin = frames[k].fin /\ messages'[k].opcode = frames[k].opcode
         /\ messages'[k].complete <=> complete
         /\ messages'[k].payload \in Seq(0..255)
         /\ Len(messages'[k].payload) = o + Len(b)
         /\ Begins(messages'[k].payload, frames[k].payload)
    <3>1. /\ parser.fin = frames[k].fin /\ parser.opcode = frames[k].opcode
          /\ parser.payload_offset \in Nat
          /\ parser.payload_offset + Len(b) <= Len(frames[k].payload)
          /\ \A j \in 1..Len(b) : b[j] = frames[k].payload[parser.payload_offset + j]
      BY <1>4, <1>8, <2>5, <2>6 DEF f, o
    <3>2. /\ parser.payload_offset = 0 => k = Len(messages) + 1
          /\ parser.payload_offset # 0 =>
               /\ k = Len(messages) /\ Len(messages[k].payload) = parser.payload_offset
               /\ Begins(messages[k].payload, frames[k].payload)
      <4>1. IF o = 0 THEN k = Len(messages) + 1 ELSE k = Len(messages) /\ Delivered(k, o)
        BY <1>4
      <4> QED
        BY <4>1, Zenon DEF Delivered, o
    <3>3. b \in Seq(0..255) /\ complete \in BOOLEAN /\ Deliver(parser, b, complete)
      BY <2>6, <2>10
    <3>4. client \in Streams /\ messages \in Seq(MessageType) /\ k \in DOMAIN frames /\ k = Current
      BY <1>2, <1>3, <1>4
    <3>5. PICK c \in BOOLEAN : c = complete
      BY <3>3, Zenon
    <3>6. Deliver(parser, b, c)
      BY <3>3, <3>5, Zenon
    <3>7. /\ messages' \in Seq(MessageType) /\ Len(messages') = k
          /\ \A j \in 1..(k - 1) : messages'[j] = messages[j]
          /\ messages'[k].fin = frames[k].fin /\ messages'[k].opcode = frames[k].opcode
          /\ messages'[k].complete <=> c
          /\ messages'[k].payload \in Seq(0..255)
          /\ Len(messages'[k].payload) = parser.payload_offset + Len(b)
          /\ Begins(messages'[k].payload, frames[k].payload)
      BY <3>1, <3>2, <3>3, <3>4, <3>6, Delivers
    <3>8. c <=> complete
      BY <3>3, <3>5
    <3> QED
      BY <3>7, <3>8, Zenon DEF o
  <2>12. Len(messages'[k].payload) = o + n
    BY <2>6, <2>11
  <2>13. CASE complete /\ Resets(p)
    <3>1. o + n = Announced(f) /\ Len(f.payload) = Announced(f)
      BY <1>6, <2>5, <2>9, <2>13
    <3>2. pos' = starts[k + 1]
      <4> DEFINE a == starts[k]
                 g == f.form
                 l == Len(f.payload)
      <4>1. /\ a \in Nat /\ g \in Nat /\ l \in Nat /\ pos = a + (6 + g + o) /\ o + n = l
            /\ starts[k + 1] = a + (6 + g + l) /\ pos' = pos + n
        BY <1>5, <1>6, <1>9, <2>2, <2>4, <3>1
      <4> HIDE DEF a, g, l
      <4> QED
        BY <1>8, <2>1, <4>1
    <3>3. /\ messages'[k].complete /\ Len(frames[k].payload) = Announced(frames[k])
          /\ Len(messages'[k].payload) = Len(frames[k].payload)
      BY <2>10, <2>11, <2>12, <2>13, <3>1 DEF f
    <3>4. /\ p.opcode = frames[k].opcode /\ p.fin = frames[k].fin
          /\ p.fragmented_opcode = parser.fragmented_opcode
      BY <1>4, <2>7 DEF f
    <3>5. Resets(p)
      BY <2>13
    <3> QED
      BY <1>1, <1>3, <1>4, <2>2, <2>8, <2>11, <3>2, <3>3, <3>4, <3>5, FrameDone
  <2>14. CASE ~complete /\ parser' = p /\ pc' = "caller"
    <3>1. o + n < Announced(f) /\ ~complete
      <4>1. o + n # Announced(f)
        BY <2>9, <2>14
      <4> QED
        BY <1>6, <1>8, <2>1, <2>3, <2>14, <4>1, SMTT(30)
    <3>2. parser' = p /\ pc' = "caller"
      BY <2>14
    <3>3. /\ parser'.payload_offset = o + n /\ parser'.mask = f.mask
          /\ parser'.payload_remaining = Announced(f) - (o + n)
          /\ parser'.state = "PAYLOAD" /\ parser'.opcode = f.opcode /\ parser'.fin = f.fin
      <4>1. parser.payload_remaining - n = Announced(f) - (o + n)
        BY <1>6, <1>8, <1>9, <2>1
      <4> QED
        BY <1>4, <2>7, <3>2, <4>1 DEF f
    <3>4. o + n # 0 /\ o + n \in Nat
      BY <1>8, <2>1
    <3>5. pos' = starts[k] + (6 + f.form + (o + n))
      <4> DEFINE a == starts[k]
                 g == f.form
      <4>1. a \in Nat /\ g \in Nat /\ pos = a + (6 + g + o) /\ pos' = pos + n
        BY <1>5, <1>6, <1>9, <2>2
      <4> HIDE DEF a, g
      <4>2. pos' = a + (6 + g + (o + n))
        BY <1>8, <2>1, <4>1
      <4> QED
        BY <4>2 DEF a, g
    <3>6. Reached(k, 6 + frames[k].form + parser.payload_offset)'
      BY <1>4, <1>10, <3>3, <3>5 DEF Reached, f
    <3>7. Delivered(k, parser.payload_offset)'
      <4>1. ~messages'[k].complete /\ o + n # Announced(f)
        BY <2>11, <3>1, <2>9
      <4> QED
        BY <1>10, <2>11, <2>12, <3>3, <4>1 DEF Delivered, f
    <3>8. AtPayload(k)'
      BY <1>4, <1>10, <2>5, <2>11, <3>1, <3>3, <3>4, <3>6, <3>7 DEF AtPayload, f
    <3>9. Standing(k)'
      BY <3>3, <3>8 DEF Standing
    <3>10. k \in Nat /\ k >= 1
      <4>1. k \in 1..Len(frames) /\ Len(frames) \in Nat
        BY <1>2, <1>4, StreamFacts
      <4> QED
        BY <4>1
    <3>11. Current' = k
      <4>1. messages' # <<>> /\ ~messages'[Len(messages')].complete
        BY <2>11, <3>1, <3>10
      <4> QED
        BY <2>11, <4>1 DEF Current
    <3>12. Before(k)'
      <4>1. \A j \in 1..(k - 1) : messages'[j].complete /\ Delivered(j, Len(frames[j].payload))'
        BY <1>3, <1>10, <2>11 DEF Before, Delivered
      <4>2. Accepted(k - 1)' <=> Accepted(k - 1)
        BY <1>10, Kept
      <4>3. k <= Len(messages') + 1
        BY <2>11, <3>10
      <4> QED
        BY <1>3, <1>10, <4>1, <4>2, <4>3 DEF Before
    <3>13. (parser'.fragmented_opcode # 0) <=> Open(k)'
      BY <1>3, <1>10, <2>7, <3>2
    <3>14. FramesAt(k)'
      BY <3>2, <3>9, <3>11, <3>12, <3>13 DEF FramesAt
    <3>15. FramesInv'
      BY <1>11, <3>14 DEF FramesInv
    <3>16. parser' \in ParserType /\ pc' \in {"caller", "feed", "protocol", "overflow"}
      BY <2>8, <3>2
    <3> QED
      BY <1>1, <1>2, <1>10, <2>2, <2>11, <3>15, <3>16, ParserStep
  <2> QED
    BY <2>10, <2>13, <2>14
<1> QED
  BY <1>1, <1>12, <1>13, Zenon

-----------------------------------------------------------------------------
(* The caller.                                                             *)

LEMMA StandingStays ==
  ASSUME UNCHANGED <<client, pos, parser, messages>>, NEW k, Standing(k)
  PROVE  Standing(k)'
<1>1. pos' = pos /\ parser' = parser /\ messages' = messages
  OBVIOUS
<1>2. frames' = frames /\ starts' = starts /\ (Bad(k)' <=> Bad(k))
  BY Kept
<1>3. \A n : Reached(k, n)' <=> Reached(k, n)
  BY <1>1, <1>2 DEF Reached
<1>4. \A n : Delivered(k, n)' <=> Delivered(k, n)
  BY <1>1, <1>2 DEF Delivered
<1>5. parser.state = "HEADER_1" => AtHeader1(k)'
  BY <1>1, <1>2 DEF Standing, AtHeader1
<1>6. parser.state = "HEADER_2" => AtHeader2(k)'
  BY <1>1, <1>2, <1>3 DEF Standing, AtHeader2, Reached
<1>7. parser.state = "EXT_LEN" => AtExtLen(k)'
  BY <1>1, <1>2, <1>3 DEF Standing, AtExtLen, Reached
<1>8. parser.state = "MASK" => AtMask(k)'
  BY <1>1, <1>2, <1>3 DEF Standing, AtMask, Reached
<1>9. parser.state = "PAYLOAD" => AtPayload(k)'
  BY <1>1, <1>2, <1>3, <1>4 DEF Standing, AtPayload, Reached, Delivered
<1> QED
  BY <1>1, <1>5, <1>6, <1>7, <1>8, <1>9 DEF Standing

LEMMA FramesStay ==
  ASSUME UNCHANGED <<client, pos, parser, messages>>, FramesInv,
         \/ pc' = pc /\ capacity' = capacity
         \/ /\ pc \in {"caller", "feed"} /\ pc' \in {"caller", "feed"}
            /\ pc' = "feed" => capacity' > 0
  PROVE  FramesInv'
<1>1. PICK k \in 1..(Len(frames) + 1) : FramesAt(k)
  BY DEF FramesInv
<1>2. pos' = pos /\ parser' = parser /\ messages' = messages /\ client' = client
  OBVIOUS
<1>3. frames' = frames /\ (Bad(k)' <=> Bad(k)) /\ (Open(k)' <=> Open(k)) /\ HeadEnd(k)' = HeadEnd(k)
  BY <1>2, Kept
<1>4. k = Current' /\ Before(k)'
  BY <1>1, <1>2, SameFrame DEF FramesAt
<1>5. Standing(k) => Standing(k)'
  BY StandingStays
<1>6. Refused(k) => Refused(k)'
  BY <1>2, <1>3 DEF Refused
<1>7. FramesAt(k)'
  BY <1>1, <1>2, <1>3, <1>4, <1>5, <1>6 DEF FramesAt
<1> QED
  BY <1>3, <1>7 DEF FramesInv

LEMMA AgainKeeps == WsInv /\ Again => WsInv'
<1> SUFFICES ASSUME WsInv, Again
             PROVE  WsInv'
  OBVIOUS
<1>1. /\ pc = "feed" /\ pc' = "caller"
      /\ UNCHANGED <<client, upgrade, received, pos, parser, capacity, messages, written>>
  BY DEF Again
<1>2. /\ handshake_done /\ received \in Nat /\ pos \in Nat /\ pos <= received
      /\ parser \in ParserType /\ messages \in Seq(MessageType) /\ capacity \in Nat
  BY <1>1, Feeding
<1>3. FramesInv'
  BY <1>1, <1>2, FramesStay DEF WsInv
<1>4. pos' \in pos..received
  BY <1>1, <1>2
<1> QED
  BY <1>1, <1>2, <1>3, <1>4, ParserStep

LEMMA FeedKeeps == WsInv /\ Feed => WsInv'
<1> SUFFICES ASSUME WsInv, Feed
             PROVE  WsInv'
  OBVIOUS
<1>1. /\ pc = "caller" /\ handshake_done /\ pc' = "feed" /\ capacity' \in Capacities \ {0}
      /\ UNCHANGED <<client, upgrade, received, pos, parser, messages, written>>
  BY DEF Feed
<1>2. /\ client \in Streams /\ received \in 0..Len(stream) /\ pos \in 0..received
      /\ parser \in ParserType /\ messages \in Seq(MessageType)
  BY DEF WsInv, TypeOK
<1>3. capacity' \in Nat /\ capacity' > 0
  BY <1>1, StreamAssumption
<1>4. FramesInv'
  BY <1>1, <1>3, FramesStay DEF WsInv
<1>5. pos' \in pos..received
  BY <1>1, <1>2, StreamFacts
<1> QED
  BY <1>1, <1>2, <1>3, <1>4, <1>5, ParserStep

\* What was said of an accepted request stays true.
LEMMA RequestKept ==
  ASSUME RequestExactly, handshake_done, UNCHANGED <<client, upgrade>>, pc' # "refused",
         received \in Nat, received' \in Nat, received' >= received, Len(request) \in Nat,
         pos' = pos
  PROVE  RequestExactly'
<1>1. client' = client /\ handshake_done' = handshake_done /\ accept' = accept
  BY DEF upgrade
<1>2. /\ ValidRequest /\ received >= Len(request) /\ pos >= Len(request)
      /\ \E k \in DOMAIN request :
           /\ IsKey(k) /\ accept = request[k]
           /\ \A j \in (k + 1)..Len(request) : ~IsKey(j)
  BY DEF RequestExactly
<1>3. received' >= Len(request)
  BY <1>2
<1>4. \A k : IsKey(k)' <=> IsKey(k)
  BY <1>1, Kept DEF IsKey
<1>5. \A name : Holds(name)' <=> Holds(name)
  BY <1>1, Kept DEF Holds
<1>6. ValidRequest'
  BY <1>1, <1>2, <1>5, Kept DEF ValidRequest
<1> QED
  BY <1>1, <1>2, <1>3, <1>4, <1>6, Kept DEF RequestExactly

LEMMA ReceiveKeeps == WsInv /\ Receive => WsInv'
<1> SUFFICES ASSUME WsInv, Receive
             PROVE  WsInv'
  OBVIOUS
<1>1. /\ pc = "caller" /\ handshake_done /\ Reads
      /\ UNCHANGED <<client, upgrade, pos, parser, capacity, pc, messages, written>>
  BY DEF Receive
<1>2. client' = client /\ handshake_done' = handshake_done /\ stream' = stream
  BY <1>1, Kept DEF upgrade
<1>3. /\ client \in Streams /\ received \in 0..Len(stream) /\ pos \in 0..received
      /\ RequestExactly /\ FramesInv /\ WrittenInv
  BY <1>1 DEF WsInv, TypeOK
<1>4. Len(stream) \in Nat /\ Len(request) \in Nat
  <2>1. Len(stream) \in Nat /\ RequestOk(request)
    BY <1>3, StreamFacts
  <2> QED
    BY <2>1, LenProperties DEF RequestOk
<1>5. PICK n \in 1..MaxRead : received + n <= Len(stream) /\ received' = received + n
  BY <1>1 DEF Reads
<1>6. received' \in 0..Len(stream) /\ received' >= received /\ received \in Nat /\ received' \in Nat
      /\ pos \in 0..received'
  BY <1>3, <1>4, <1>5, StreamAssumption
<1>7. TypeOK'
  BY <1>1, <1>2, <1>6 DEF WsInv, TypeOK
<1>8. RequestExactly'
  BY <1>1, <1>3, <1>4, <1>6, RequestKept
<1>9. FramesInv'
  BY <1>1, <1>3, FramesStay
<1>10. WrittenInv'
  BY <1>1, <1>3, Zenon DEF WrittenInv
<1> QED
  BY <1>1, <1>2, <1>7, <1>8, <1>9, <1>10 DEF WsInv, UpgradeInv

LEMMA WriteKeeps == WsInv /\ sockify_ws_write_frame => WsInv'
<1> SUFFICES ASSUME WsInv, sockify_ws_write_frame
             PROVE  WsInv'
  OBVIOUS
<1>1. /\ pc = "caller" /\ received = 0 /\ pc' = "wrote"
      /\ UNCHANGED <<client, upgrade, received, pos, parser, capacity, messages>>
      /\ \E op \in {BINARY, CLOSE, PONG}, n \in WriteLengths :
           written' = [opcode |-> op, len |-> n, head |-> WriteHead(op, n)]
  BY Zenon DEF sockify_ws_write_frame
<1>2. /\ client' = client /\ handshake_done' = handshake_done /\ accept' = accept
      /\ stream' = stream /\ received' = received /\ pos' = pos /\ parser' = parser
      /\ messages' = messages /\ capacity' = capacity
  BY <1>1, Kept DEF upgrade
<1>3. client \in Streams /\ RequestExactly /\ UpgradeInv /\ TypeOK /\ handshake_done \in BOOLEAN
  BY DEF WsInv, TypeOK
<1>4. ~handshake_done
  <2>1. RequestOk(request)
    BY <1>3, StreamFacts
  <2>2. Len(request) >= 4 /\ Len(request) \in Nat
    BY <2>1, LenProperties DEF RequestOk
  <2>3. handshake_done => received >= Len(request)
    BY <1>3 DEF RequestExactly
  <2> QED
    BY <1>1, <2>2, <2>3
<1>5. TypeOK'
  BY <1>1, <1>2, <1>3 DEF TypeOK
<1>6. RequestExactly'
  BY <1>1, <1>2, <1>4 DEF RequestExactly
<1>7. UpgradeInv'
  BY <1>1, <1>2, <1>3, <1>4 DEF UpgradeInv
<1>8. WrittenInv'
  <2>1. WriteLengths \subseteq 0..Huge
    BY StreamAssumption
  <2> QED
    BY <1>1, <2>1, Zenon DEF WrittenInv
<1> QED
  BY <1>2, <1>4, <1>5, <1>6, <1>7, <1>8 DEF WsInv

-----------------------------------------------------------------------------
(* The upgrade request.                                                    *)

LEMMA LeastIs ==
  ASSUME NEW S, S \subseteq Nat, NEW n \in S, \A m \in S : n <= m
  PROVE  Least(S) = n
<1>1. \E x \in S : \A m \in S : x <= m
  OBVIOUS
<1>2. Least(S) \in S /\ \A m \in S : Least(S) <= m
  BY <1>1, Zenon DEF Least
<1>3. Least(S) <= n /\ n <= Least(S) /\ Least(S) \in Nat /\ n \in Nat
  BY <1>2
<1> QED
  BY <1>3

\* The tokens and the characters of a request.
LEMMA RequestShape ==
  ASSUME client \in Streams
  PROVE  /\ request \in Seq(Tokens \cup {CR, LF}) /\ Len(request) \in Nat /\ Len(request) >= 4
         /\ DOMAIN request = 1..Len(request)
         /\ Len(request) - 3 \in LineEnds(request) /\ Len(request) - 1 \in LineEnds(request)
         /\ \A k \in 1..Len(request) :
              /\ request[k] \in Tokens \/ request[k] = CR \/ request[k] = LF
              /\ stream[k] = request[k]
              /\ request[k] = CR => k \in LineEnds(request)
              /\ request[k] = LF => k - 1 \in LineEnds(request)
              /\ request[k] \in Tokens =>
                   k + 1 \in LineEnds(request) /\ (k = 1 \/ k - 2 \in LineEnds(request))
              /\ k \in LineEnds(request) /\ k + 2 \in LineEnds(request) => k = Len(request) - 3
<1>1. RequestOk(request) /\ \A k \in DOMAIN request : stream[k] = request[k]
  BY StreamFacts
<1>2. /\ request \in Seq(Tokens \cup {CR, LF}) /\ Len(request) >= 4
      /\ {Len(request) - 3, Len(request) - 1} \subseteq LineEnds(request)
      /\ \A k \in DOMAIN request :
           /\ request[k] = CR => k \in LineEnds(request)
           /\ request[k] = LF => k - 1 \in LineEnds(request)
           /\ request[k] \in Tokens =>
                k + 1 \in LineEnds(request) /\ (k = 1 \/ k - 2 \in LineEnds(request))
           /\ {k, k + 2} \subseteq LineEnds(request) => k = Len(request) - 3
  BY <1>1, Zenon DEF RequestOk
<1>3. Len(request) \in Nat /\ DOMAIN request = 1..Len(request)
  BY <1>2, LenProperties
<1>4. \A k \in 1..Len(request) : request[k] \in Tokens \cup {CR, LF}
  BY <1>2, ElementOfSeq, Zenon
<1>5. Len(request) - 3 \in LineEnds(request) /\ Len(request) - 1 \in LineEnds(request)
  BY <1>2, Zenon
<1>6. \A k : k \in LineEnds(request) /\ k + 2 \in LineEnds(request)
               => {k, k + 2} \subseteq LineEnds(request)
  BY Zenon
<1>8. \A k \in 1..Len(request) : request[k] \in Tokens \/ request[k] = CR \/ request[k] = LF
  BY <1>4, Zenon
<1>9. ASSUME NEW k \in 1..Len(request)
      PROVE  /\ stream[k] = request[k]
             /\ request[k] = CR => k \in LineEnds(request)
             /\ request[k] = LF => k - 1 \in LineEnds(request)
             /\ request[k] \in Tokens =>
                  k + 1 \in LineEnds(request) /\ (k = 1 \/ k - 2 \in LineEnds(request))
             /\ k \in LineEnds(request) /\ k + 2 \in LineEnds(request) => k = Len(request) - 3
  <2>1. k \in DOMAIN request
    BY <1>3
  <2> QED
    BY <1>1, <1>2, <1>6, <2>1, ZenonT(40)
<1> QED
  BY <1>2, <1>3, <1>5, <1>8, <1>9, Zenon

\* The ends of lines in what has been received.
LEMMA EndsReceived ==
  ASSUME client \in Streams, NEW m \in 1..Len(stream), NEW s, s = SubSeq(stream, 1, m)
  PROVE  /\ s \in Seq(Nat) /\ Len(s) = m /\ \A k \in 1..m : s[k] = stream[k]
         /\ \A k \in LineEnds(s) : k \in Nat /\ k >= 1 /\ k + 1 <= m
         /\ \A k \in LineEnds(request) : k \in Nat /\ k >= 1 /\ k + 1 <= Len(request)
         /\ \A k \in LineEnds(s) : k + 1 <= Len(request) => k \in LineEnds(request)
         /\ \A k \in LineEnds(request) : k + 1 <= m => k \in LineEnds(s)
<1>1. stream \in Seq(Nat) /\ Len(stream) \in Nat /\ m \in Nat /\ m >= 1 /\ m <= Len(stream)
  BY StreamFacts
<1>2. s \in Seq(Nat) /\ Len(s) = m /\ \A k \in 1..m : s[k] = stream[k]
  <2>1. /\ SubSeq(stream, 1, m) \in Seq(Nat) /\ Len(SubSeq(stream, 1, m)) = m
        /\ \A k \in 1..m : SubSeq(stream, 1, m)[k] = stream[k]
    BY <1>1, SMTT(30)
  <2> QED
    BY <2>1
<1>3. Len(request) \in Nat /\ \A k \in 1..Len(request) : stream[k] = request[k]
  BY RequestShape, ZenonT(40)
<1>4. \A k \in LineEnds(s) : k \in 1..(m - 1) /\ s[k] = CR /\ s[k + 1] = LF
  BY <1>2 DEF LineEnds
<1>5. \A k \in LineEnds(request) :
        k \in 1..(Len(request) - 1) /\ request[k] = CR /\ request[k + 1] = LF
  BY DEF LineEnds
<1>6. \A k \in LineEnds(s) : k \in Nat /\ k >= 1 /\ k + 1 <= m
  BY <1>1, <1>4
<1>7. \A k \in LineEnds(request) : k \in Nat /\ k >= 1 /\ k + 1 <= Len(request)
  BY <1>3, <1>5
<1>8. ASSUME NEW k \in LineEnds(s), k + 1 <= Len(request)
      PROVE  k \in LineEnds(request)
  <2>1. k \in 1..(Len(request) - 1) /\ k \in 1..Len(request) /\ k + 1 \in 1..Len(request)
        /\ k \in 1..m /\ k + 1 \in 1..m
    BY <1>1, <1>3, <1>6, <1>8
  <2>2. request[k] = CR /\ request[k + 1] = LF
    BY <1>2, <1>3, <1>4, <2>1
  <2> QED
    BY <2>1, <2>2 DEF LineEnds
<1>9. ASSUME NEW k \in LineEnds(request), k + 1 <= m
      PROVE  k \in LineEnds(s)
  <2>1. k \in 1..(m - 1) /\ k \in 1..Len(request) /\ k + 1 \in 1..Len(request)
        /\ k \in 1..m /\ k + 1 \in 1..m
    BY <1>1, <1>3, <1>7, <1>9
  <2>2. s[k] = CR /\ s[k + 1] = LF
    BY <1>2, <1>3, <1>5, <2>1
  <2> QED
    BY <1>2, <2>1, <2>2 DEF LineEnds
<1> QED
  BY <1>2, <1>6, <1>7, <1>8, <1>9

\* The end of the header is found when all of the request is there, and where it is.
LEMMA HeaderEnds ==
  ASSUME client \in Streams, NEW m \in 1..Len(stream)
  PROVE  /\ m < Len(request) => find_header_end(SubSeq(stream, 1, m)) = {}
         /\ m >= Len(request) =>
              /\ find_header_end(SubSeq(stream, 1, m)) # {}
              /\ Least(find_header_end(SubSeq(stream, 1, m))) = Len(request)
              /\ SubSeq(SubSeq(stream, 1, m), 1, Len(request)) = request
<1> DEFINE s == SubSeq(stream, 1, m)
           E == find_header_end(s)
           L == Len(request)
<1>1. /\ s \in Seq(Nat) /\ Len(s) = m /\ \A k \in 1..m : s[k] = stream[k]
      /\ \A k \in LineEnds(s) : k \in Nat /\ k >= 1 /\ k + 1 <= m
      /\ \A k \in LineEnds(request) : k \in Nat /\ k >= 1 /\ k + 1 <= L
      /\ \A k \in LineEnds(s) : k + 1 <= L => k \in LineEnds(request)
      /\ \A k \in LineEnds(request) : k + 1 <= m => k \in LineEnds(s)
  BY EndsReceived
<1>2. /\ L \in Nat /\ L >= 4 /\ L - 3 \in LineEnds(request) /\ L - 1 \in LineEnds(request)
      /\ \A k \in 1..L : k \in LineEnds(request) /\ k + 2 \in LineEnds(request) => k = L - 3
      /\ \A k \in 1..L : stream[k] = request[k]
      /\ request \in Seq(Tokens \cup {CR, LF}) /\ DOMAIN request = 1..L
  BY RequestShape, Zenon
<1>3. m \in Nat /\ Len(stream) \in Nat
  BY StreamFacts
<1>4. \A x \in E : \E e \in LineEnds(s) : e + 2 \in LineEnds(s) /\ x = e + 3
  BY DEF find_header_end
<1>5. \A e \in LineEnds(s) : e + 2 \in LineEnds(s) => e + 3 \in E
  BY DEF find_header_end
<1> HIDE DEF s, E, L
<1>6. ASSUME NEW x \in E
      PROVE  x \in Nat /\ x >= L /\ x <= m
  <2>1. PICK e \in LineEnds(s) : e + 2 \in LineEnds(s) /\ x = e + 3
    BY <1>4
  <2>2. e \in Nat /\ e >= 1 /\ (e + 2) + 1 <= m
    BY <1>1, <2>1
  <2>3. ASSUME e + 3 < L
        PROVE  FALSE
    <3>1. e + 1 <= L /\ (e + 2) + 1 <= L /\ e \in 1..L
      BY <1>2, <2>2, <2>3
    <3>2. e \in LineEnds(request) /\ e + 2 \in LineEnds(request)
      BY <1>1, <2>1, <3>1
    <3>3. e = L - 3
      BY <1>2, <3>1, <3>2
    <3> QED
      BY <1>2, <2>2, <2>3, <3>3
  <2> QED
    BY <1>2, <1>3, <2>1, <2>2, <2>3
<1>7. ASSUME m < L
      PROVE  E = {}
  BY <1>2, <1>3, <1>6, <1>7
<1>8. ASSUME m >= L
      PROVE  E # {} /\ Least(E) = L /\ SubSeq(s, 1, L) = request
  <2>1. L - 3 \in LineEnds(s) /\ L - 1 \in LineEnds(s)
    <3>1. (L - 3) + 1 <= m /\ (L - 1) + 1 <= m
      BY <1>2, <1>3, <1>8
    <3> QED
      BY <1>1, <1>2, <3>1
  <2>2. (L - 3) + 2 = L - 1 /\ (L - 3) + 3 = L
    BY <1>2
  <2>3. L \in E
    <3>1. (L - 3) + 2 \in LineEnds(s)
      BY <2>1, <2>2
    <3>2. (L - 3) + 3 \in E
      BY <1>5, <2>1, <3>1
    <3> QED
      BY <2>2, <3>2
  <2>4. Least(E) = L
    BY <1>6, <2>3, LeastIs
  <2>5. SubSeq(s, 1, L) = request
    <3>1. /\ SubSeq(s, 1, L) \in Seq(Nat) /\ Len(SubSeq(s, 1, L)) = L
          /\ \A k \in 1..L : SubSeq(s, 1, L)[k] = s[k]
      <4>1. s \in Seq(Nat) /\ Len(s) = m
        BY <1>1
      <4> QED
        BY <1>2, <1>3, <1>8, <4>1, SMTT(30)
    <3>2. \A k \in 1..L : SubSeq(s, 1, L)[k] = request[k]
      <4>1. \A k \in 1..L : k \in 1..m
        BY <1>2, <1>3, <1>8
      <4> QED
        BY <1>1, <1>2, <3>1, <4>1
    <3>3. DOMAIN SubSeq(s, 1, L) = 1..L
      BY <3>1, LenProperties
    <3> QED
      BY <1>2, <3>1, <3>2, <3>3, SeqEqual, LenProperties
  <2> QED
    BY <2>3, <2>4, <2>5
<1> QED
  BY <1>7, <1>8 DEF E, s, L

LEMMA FieldsAre ==
  /\ DOMAIN Fields = 1..10
  /\ \A i \in 1..10 : /\ Fields[i].good \in BOOLEAN
                      /\ Fields[i] = [name |-> Fields[i].name, good |-> Fields[i].good]
  /\ \A i \in 1..10 : (Fields[i].name = "Sec-WebSocket-Key" /\ Fields[i].good) <=> i \in {7, 8}
<1>1. DOMAIN Fields = 1..10
  BY DEF Fields
<1>2. ASSUME NEW i \in 1..10
      PROVE  /\ Fields[i].good \in BOOLEAN
             /\ Fields[i] = [name |-> Fields[i].name, good |-> Fields[i].good]
             /\ (Fields[i].name = "Sec-WebSocket-Key" /\ Fields[i].good) <=> i \in {7, 8}
  <2>1. i \in {1, 2, 3, 4, 5, 6, 7, 8, 9, 10}
    OBVIOUS
  <2>2. /\ Fields[1] = [name |-> "Upgrade", good |-> TRUE]
        /\ Fields[2] = [name |-> "Upgrade", good |-> FALSE]
        /\ Fields[3] = [name |-> "Connection", good |-> TRUE]
        /\ Fields[4] = [name |-> "Connection", good |-> FALSE]
        /\ Fields[5] = [name |-> "Sec-WebSocket-Version", good |-> TRUE]
        /\ Fields[6] = [name |-> "Sec-WebSocket-Version", good |-> FALSE]
        /\ Fields[7] = [name |-> "Sec-WebSocket-Key", good |-> TRUE]
        /\ Fields[8] = [name |-> "Sec-WebSocket-Key", good |-> TRUE]
        /\ Fields[9] = [name |-> "Sec-WebSocket-Key", good |-> FALSE]
        /\ Fields[10] = [name |-> "other", good |-> FALSE]
    BY DEF Fields
  <2>3. ASSUME NEW n, NEW g \in BOOLEAN, Fields[i] = [name |-> n, good |-> g]
        PROVE  /\ Fields[i].name = n /\ Fields[i].good = g /\ Fields[i].good \in BOOLEAN
               /\ Fields[i] = [name |-> Fields[i].name, good |-> Fields[i].good]
    BY <2>3
  <2>4. /\ Fields[i].good \in BOOLEAN
        /\ Fields[i] = [name |-> Fields[i].name, good |-> Fields[i].good]
    BY <2>1, <2>2, <2>3
  <2>5. CASE i \in {7, 8}
    <3>1. Fields[i] = [name |-> "Sec-WebSocket-Key", good |-> TRUE]
      BY <2>2, <2>5
    <3> QED
      BY <2>4, <2>5, <3>1
  <2>6. CASE i \in {2, 4, 6, 9, 10}
    <3>1. \E n : Fields[i] = [name |-> n, good |-> FALSE]
      BY <2>2, <2>6
    <3>2. ~Fields[i].good
      BY <3>1
    <3> QED
      BY <2>4, <2>6, <3>2
  <2>7. CASE i \in {1, 3, 5}
    <3>1. Fields[i].name # "Sec-WebSocket-Key"
      BY <2>2, <2>7
    <3> QED
      BY <2>4, <2>7, <3>1
  <2> QED
    BY <2>1, <2>5, <2>6, <2>7
<1> QED
  BY <1>1, <1>2

\* A token is a number no byte has.
LEMMA TokenValues ==
  ASSUME NEW t \in Tokens
  PROVE  /\ t \in Nat /\ t # CR /\ t # LF
         /\ t > 300 => t - 300 \in 1..10
         /\ ~(t > 300) <=> t \in {GET, POST, NoColon}
         /\ t \in {FieldToken(7), FieldToken(8)} <=> t > 300 /\ t - 300 \in {7, 8}
<1>1. t \in {256, 257, 299} \/ \E i \in 1..10 : t = 300 + i
  BY FieldsAre, SMT DEF Tokens, GET, POST, NoColon, FieldToken
<1> QED
  BY <1>1, SMT DEF CR, LF, GET, POST, NoColon, FieldToken

\* A line is one token.
LEMMA LineIs ==
  ASSUME client \in Streams, NEW q \in 1..Len(request), request[q] \in Tokens
  PROVE  Line(request, q) = <<request[q]>>
<1> DEFINE K == {k \in LineEnds(request) : k >= q}
           L == Len(request)
<1>1. q + 1 \in LineEnds(request) /\ L \in Nat /\ request \in Seq(Tokens \cup {CR, LF})
  BY RequestShape, ZenonT(40)
<1>2. q \notin LineEnds(request)
  BY TokenValues DEF LineEnds
<1>3. \A k \in LineEnds(request) : k \in 1..(L - 1)
  BY DEF LineEnds
<1> HIDE DEF L
<1>4. q + 1 \in K /\ K \subseteq Nat /\ \A k \in K : q + 1 <= k
  <2>1. q \in Nat
    BY DEF L
  <2>2. \A k \in LineEnds(request) : k \in Nat /\ k # q
    BY <1>1, <1>2, <1>3
  <2> QED
    BY <1>1, <2>1, <2>2
<1> HIDE DEF K
<1>5. Least(K) = q + 1
  BY <1>4, LeastIs
<1>6. Line(request, q) = SubSeq(request, q, (q + 1) - 1)
  BY <1>5, Zenon DEF Line, K
<1>7. (q + 1) - 1 = q
  BY <1>1 DEF L
<1>8. SubSeq(request, q, q) = <<request[q]>>
  <2> DEFINE T == Tokens \cup {CR, LF}
  <2>1. request \in Seq(T) /\ q \in 1..Len(request)
    BY <1>1
  <2> HIDE DEF T
  <2> DEFINE u == SubSeq(request, q, q)
             x == request[q]
  <2>2. u \in Seq(T) /\ Len(u) = 1 /\ u[1] = x
    BY <2>1
  <2>3. x \in T
    BY <2>1, ElementOfSeq
  <2> HIDE DEF u, x
  <2>4. <<x>> \in Seq(T) /\ Len(<<x>>) = 1 /\ <<x>>[1] = x
    BY <2>3
  <2>5. \A j \in 1..1 : u[j] = <<x>>[j]
    BY <2>2, <2>4
  <2>6. u = <<x>>
    BY <2>2, <2>4, <2>5, SeqEqual
  <2> QED
    BY <2>6 DEF u, x
<1> QED
  BY <1>6, <1>7, <1>8, SMTT(30)

LEMMA FirstLine ==
  ASSUME client \in Streams
  PROVE  Line(request, 1) = <<GET>> <=> request[1] = GET
<1>1. /\ Len(request) \in Nat /\ Len(request) >= 4 /\ request \in Seq(Tokens \cup {CR, LF})
      /\ \A k \in 1..Len(request) :
           /\ request[k] \in Tokens \/ request[k] = CR \/ request[k] = LF
           /\ request[k] = CR => k \in LineEnds(request)
           /\ request[k] = LF => k - 1 \in LineEnds(request)
  BY RequestShape, Zenon
<1>2. 1 \in 1..Len(request)
  BY <1>1
<1>3. GET \in Tokens
  BY Zenon DEF Tokens
<1>4. CASE request[1] \in Tokens
  <2>1. Line(request, 1) = <<request[1]>>
    BY <1>2, <1>4, LineIs
  <2> QED
    BY <2>1
<1>5. CASE request[1] = CR
  <2> DEFINE K == {k \in LineEnds(request) : k >= 1}
  <2>1. 1 \in LineEnds(request)
    BY <1>1, <1>2, <1>5
  <2>2. \A k \in LineEnds(request) : k \in Nat /\ k >= 1
    BY <1>1 DEF LineEnds
  <2>3. 1 \in K /\ K \subseteq Nat /\ \A k \in K : 1 <= k
    BY <2>1, <2>2
  <2> HIDE DEF K
  <2>4. Least(K) = 1
    BY <2>3, LeastIs
  <2>5. Line(request, 1) = SubSeq(request, 1, 1 - 1)
    BY <2>4, Zenon DEF Line, K
  <2>6. SubSeq(request, 1, 1 - 1) = <<>>
    BY <1>1
  <2>7. <<>> # <<GET>>
    OBVIOUS
  <2>8. request[1] # GET
    BY <1>3, <1>5, TokenValues
  <2> QED
    BY <2>5, <2>6, <2>7, <2>8
<1>6. CASE request[1] = LF
  <2>1. 1 - 1 \in LineEnds(request)
    BY <1>1, <1>2, <1>6
  <2> QED
    BY <1>1, <2>1 DEF LineEnds
<1> QED
  BY <1>1, <1>2, <1>4, <1>5, <1>6

\* The other lines of the header start at the other tokens.
LEMMA StartsAre ==
  ASSUME client \in Streams
  PROVE  Starts(request) = {q \in 2..Len(request) : request[q] \in Tokens}
<1> DEFINE L == Len(request)
           E == LineEnds(request)
<1>1. /\ L \in Nat /\ L >= 4 /\ L - 1 \in E
      /\ \A k \in 1..L :
           /\ request[k] \in Tokens \/ request[k] = CR \/ request[k] = LF
           /\ request[k] = CR => k \in E
           /\ request[k] = LF => k - 1 \in E
           /\ request[k] \in Tokens => k + 1 \in E /\ (k = 1 \/ k - 2 \in E)
           /\ k \in E /\ k + 2 \in E => k = L - 3
  BY RequestShape, Zenon
<1>2. \A k \in E : k \in 1..(L - 1) /\ request[k] = CR /\ request[k + 1] = LF
  BY DEF LineEnds
<1>3. CR # LF
  BY DEF CR, LF
<1>4. \A x : x \in Starts(request) <=> (\E e \in E : x = e + 2) /\ x # L - 1 /\ x # L + 1
  BY DEF Starts
<1> HIDE DEF L, E
<1>5. ASSUME NEW x \in Starts(request)
      PROVE  x \in 2..L /\ request[x] \in Tokens
  <2>1. PICK e \in E : x = e + 2
    BY <1>4
  <2>2. x # L - 1 /\ x # L + 1
    BY <1>4
  <2>3. e \in 1..(L - 1) /\ request[e + 1] = LF
    BY <1>2
  <2>4. x \in 2..L /\ x \in 1..L /\ e \in 1..L /\ x - 1 = e + 1 /\ e # L - 3
    BY <1>1, <2>1, <2>2, <2>3
  <2>5. request[x] # CR
    BY <1>1, <2>1, <2>4
  <2>6. request[x] # LF
    <3>1. ASSUME request[x] = LF
          PROVE  FALSE
      <4>1. x - 1 \in E
        BY <1>1, <2>4, <3>1
      <4>2. request[x - 1] = CR
        BY <1>2, <4>1
      <4> QED
        BY <1>3, <2>3, <2>4, <4>2
    <3> QED
      BY <3>1
  <2> QED
    BY <1>1, <2>4, <2>5, <2>6
<1>6. ASSUME NEW x \in 2..L, request[x] \in Tokens
      PROVE  x \in Starts(request)
  <2>1. x \in 1..L /\ x # 1 /\ (x - 2) + 2 = x
    BY <1>1
  <2>2. x - 2 \in E
    BY <1>1, <1>6, <2>1
  <2>3. x # L + 1
    BY <1>1
  <2>4. x # L - 1
    <3>1. request[L - 1] = CR
      BY <1>1, <1>2
    <3>2. request[x] # CR
      BY <1>6, TokenValues
    <3> QED
      BY <3>1, <3>2
  <2> QED
    BY <1>4, <2>1, <2>2, <2>3, <2>4
<1> QED
  BY <1>5, <1>6 DEF L

\* The field of a line.
LEMMA FieldIs ==
  ASSUME client \in Streams, NEW q \in 1..Len(request), request[q] \in Tokens
  PROVE  /\ IsField(Line(request, q)) <=> request[q] > 300
         /\ request[q] > 300 =>
              /\ Field(Line(request, q)).name = Fields[request[q] - 300].name
              /\ Field(Line(request, q)).good <=> Fields[request[q] - 300].good
<1> DEFINE t == request[q]
           line == Line(request, q)
<1>1. line = <<t>>
  BY LineIs
<1> HIDE DEF line, t
<1>2. line # <<>> /\ line[1] = t /\ Len(line) = 1
  BY <1>1
<1>3. IsField(line) <=> t > 300
  BY <1>2 DEF IsField
<1>4. ASSUME t > 300
      PROVE  /\ Field(line).name = Fields[t - 300].name
             /\ Field(line).good <=> Fields[t - 300].good
  <2> DEFINE r == Fields[t - 300]
  <2>1. t - 300 \in 1..10
    BY <1>4, TokenValues DEF t
  <2>2. r.good \in BOOLEAN /\ r = [name |-> r.name, good |-> r.good]
    BY <2>1, FieldsAre, ZenonT(40)
  <2>3. Field(line) = [r EXCEPT !.good = (r.good /\ Len(line) = 1)]
    BY <1>2, ZenonT(40) DEF Field
  <2> HIDE DEF r
  <2> DEFINE n == r.name
             g == r.good
  <2>4. r = [name |-> n, good |-> g]
    BY <2>2, Zenon
  <2>5. r.name = n /\ r.good = g
    OBVIOUS
  <2> HIDE DEF n, g
  <2>6. [r EXCEPT !.good = (r.good /\ Len(line) = 1)]
          = [name |-> n, good |-> (r.good /\ Len(line) = 1)]
    BY <2>4
  <2>7. Field(line).name = n /\ (Field(line).good <=> r.good /\ Len(line) = 1)
    <3> DEFINE b == r.good /\ Len(line) = 1
    <3>1. Field(line) = [name |-> n, good |-> b]
      BY <2>3, <2>6, Zenon
    <3> HIDE DEF b
    <3>2. Field(line).name = n /\ Field(line).good = b
      BY <3>1
    <3> QED
      BY <3>2 DEF b
  <2> QED
    BY <1>2, <2>5, <2>7 DEF r
<1> QED
  BY <1>3, <1>4 DEF t, line

\* The tokens of the request that hold a field of this name with the value that is
\* looked for.
LEMMA SawIs ==
  ASSUME client \in Streams, NEW name,
         \A k \in 2..Len(request) : request[k] \notin {GET, POST, NoColon}
  PROVE  Saw(request, name) =
           {q \in 2..Len(request) : /\ request[q] \in Tokens
                                    /\ Fields[request[q] - 300].name = name
                                    /\ Fields[request[q] - 300].good}
<1>1. Len(request) \in Nat
  BY RequestShape, ZenonT(40)
<1>2. ASSUME NEW q \in 2..Len(request), request[q] \in Tokens
      PROVE  /\ Field(Line(request, q)).name = Fields[request[q] - 300].name
             /\ Field(Line(request, q)).good <=> Fields[request[q] - 300].good
  <2>1. request[q] > 300
    BY <1>2, TokenValues
  <2>2. q \in 1..Len(request)
    BY <1>1
  <2> QED
    BY <1>2, <2>1, <2>2, FieldIs
<1>3. \A q : q \in Starts(request) <=> q \in 2..Len(request) /\ request[q] \in Tokens
  BY StartsAre
<1> DEFINE T == {q \in 2..Len(request) : /\ request[q] \in Tokens
                                         /\ Fields[request[q] - 300].name = name
                                         /\ Fields[request[q] - 300].good}
<1>4. ASSUME NEW q
      PROVE  q \in Saw(request, name) <=> q \in T
  <2>1. q \in Saw(request, name) <=>
          q \in Starts(request) /\ Field(Line(request, q)).name = name /\ Field(Line(request, q)).good
    BY Zenon DEF Saw
  <2>2. CASE q \in 2..Len(request) /\ request[q] \in Tokens
    <3>1. /\ Field(Line(request, q)).name = Fields[request[q] - 300].name
          /\ Field(Line(request, q)).good <=> Fields[request[q] - 300].good
      BY <1>2, <2>2, ZenonT(40)
    <3> QED
      BY <1>3, <2>1, <2>2, <3>1, ZenonT(40)
  <2>3. CASE ~(q \in 2..Len(request) /\ request[q] \in Tokens)
    BY <1>3, <2>1, <2>3, Zenon
  <2> QED
    BY <2>2, <2>3, Zenon
<1> QED
  BY <1>4, ZenonT(40)

\* What is answered to the m bytes that have been received.
LEMMA Answered ==
  ASSUME client \in Streams, NEW m \in 1..Len(stream)
  PROVE  /\ m < Len(request) =>
              build_handshake_response(SubSeq(stream, 1, m)).rc = "again"
         /\ m >= Len(request) /\ ~ValidRequest =>
              build_handshake_response(SubSeq(stream, 1, m)).rc = "protocol"
         /\ m >= Len(request) /\ ValidRequest =>
              /\ build_handshake_response(SubSeq(stream, 1, m)).rc = "ok"
              /\ build_handshake_response(SubSeq(stream, 1, m)).consumed = Len(request)
              /\ \E k \in DOMAIN request :
                   /\ IsKey(k)
                   /\ build_handshake_response(SubSeq(stream, 1, m)).key = request[k]
                   /\ \A j \in (k + 1)..Len(request) : ~IsKey(j)
<1> DEFINE s == SubSeq(stream, 1, m)
           r == build_handshake_response(s)
           E == find_header_end(s)
           Wrong == Line(request, 1) # <<GET>> \/ \E k \in Starts(request) : ~IsField(Line(request, k))
           Lacks == \E name \in Required : Saw(request, name) = {}
           keys == Saw(request, "Sec-WebSocket-Key")
           last == CHOOSE k \in keys : \A j \in keys : j <= k
           Result(rc, consumed, key) == [rc |-> rc, consumed |-> consumed, key |-> key]
<1>1. /\ m < Len(request) => E = {}
      /\ m >= Len(request) =>
           E # {} /\ Least(E) = Len(request) /\ SubSeq(s, 1, Len(request)) = request
  BY HeaderEnds
<1>2. E = {} => r = Result("again", 0, 0)
  BY Zenon DEF build_handshake_response
<1>3. ASSUME E # {}, SubSeq(s, 1, Least(E)) = request
      PROVE  /\ Wrong => r = Result("protocol", 0, 0)
             /\ ~Wrong /\ Lacks => r = Result("protocol", 0, 0)
             /\ ~Wrong /\ ~Lacks => r = Result("ok", Len(request), request[last])
  BY <1>3, Zenon DEF build_handshake_response
<1> HIDE DEF s, r, E
<1>4. Len(request) \in Nat /\ Len(request) >= 4 /\ DOMAIN request = 1..Len(request) /\ m \in Nat
  <2>1. Len(request) \in Nat /\ Len(request) >= 4 /\ DOMAIN request = 1..Len(request)
    BY RequestShape, ZenonT(40)
  <2>2. Len(stream) \in Nat
    BY StreamFacts, SMTT(30), ZenonT(40)
  <2> QED
    BY <2>1, <2>2
<1>5. \A k \in 1..Len(request) : request[k] \in Tokens \/ request[k] = CR \/ request[k] = LF
  BY RequestShape, Zenon
<1>6. \A k \in 1..Len(request) : request[k] > 300 => request[k] \in Tokens
  BY <1>5 DEF CR, LF
<1>7. Wrong <=> request[1] # GET \/ \E k \in 2..Len(request) : request[k] \in {GET, POST, NoColon}
  <2>1. Starts(request) = {q \in 2..Len(request) : request[q] \in Tokens}
    BY StartsAre
  <2>2. ASSUME NEW k \in 2..Len(request), request[k] \in Tokens
        PROVE  ~IsField(Line(request, k)) <=> request[k] \in {GET, POST, NoColon}
    <3>1. k \in 1..Len(request)
      BY <1>4
    <3> QED
      BY <2>2, <3>1, FieldIs, TokenValues
  <2>3. {GET, POST, NoColon} \subseteq Tokens
    BY Zenon DEF Tokens
  <2>4. (\E k \in Starts(request) : ~IsField(Line(request, k)))
          <=> \E k \in 2..Len(request) : request[k] \in {GET, POST, NoColon}
    BY <2>1, <2>2, <2>3, Zenon
  <2> QED
    BY <2>4, FirstLine, Zenon
<1> HIDE DEF Wrong
<1>8. ASSUME ~Wrong, NEW name
      PROVE  /\ Saw(request, name) # {} <=> Holds(name)
             /\ \A q : q \in Saw(request, name) <=>
                  /\ q \in 2..Len(request) /\ request[q] \in Tokens
                  /\ Fields[request[q] - 300].name = name /\ Fields[request[q] - 300].good
  <2>1. \A k \in 2..Len(request) : request[k] \notin {GET, POST, NoColon}
    BY <1>7, <1>8
  <2>2. \A q : q \in Saw(request, name) <=>
                  /\ q \in 2..Len(request) /\ request[q] \in Tokens
                  /\ Fields[request[q] - 300].name = name /\ Fields[request[q] - 300].good
    BY <2>1, SawIs
  <2>3. \A q \in 2..Len(request) : request[q] > 300 <=> request[q] \in Tokens
    <3> SUFFICES ASSUME NEW q \in 2..Len(request)
                 PROVE  request[q] > 300 <=> request[q] \in Tokens
      OBVIOUS
    <3>1. q \in 1..Len(request)
      BY <1>4
    <3>2. request[q] \in Tokens => request[q] > 300
      BY <2>1, TokenValues
    <3> QED
      BY <1>6, <3>1, <3>2
  <2>4. ASSUME Saw(request, name) # {}
        PROVE  Holds(name)
    <3>1. PICK k : k \in Saw(request, name)
      BY <2>4, Zenon
    <3>2. /\ k \in 2..Len(request) /\ request[k] \in Tokens
          /\ Fields[request[k] - 300].name = name /\ Fields[request[k] - 300].good
      BY <2>2, <3>1, ZenonT(40)
    <3>3. request[k] > 300
      BY <2>3, <3>2, Zenon
    <3> QED
      BY <3>2, <3>3, Zenon DEF Holds
  <2>5. ASSUME Holds(name)
        PROVE  Saw(request, name) # {}
    <3>1. PICK k \in 2..Len(request) :
            /\ request[k] > 300
            /\ Fields[request[k] - 300].name = name /\ Fields[request[k] - 300].good
      BY <2>5, Zenon DEF Holds
    <3>2. k \in Saw(request, name)
      BY <2>2, <2>3, <3>1, Zenon
    <3> QED
      BY <3>2, Zenon
  <2> QED
    BY <2>2, <2>4, <2>5, Zenon
<1>9. ValidRequest <=> ~Wrong /\ ~Lacks
  <2>1. request[1] = GET /\ (\A k \in 2..Len(request) : request[k] \notin {GET, POST, NoColon}) <=> ~Wrong
    BY <1>7
  <2>2. ASSUME ~Wrong
        PROVE  (\A name \in Required : Holds(name)) <=> ~Lacks
    BY <1>8, <2>2
  <2> HIDE DEF Lacks
  <2> QED
    BY <2>1, <2>2 DEF ValidRequest
<1>10. ASSUME ~Wrong, ~Lacks
       PROVE  \E k \in DOMAIN request :
                /\ IsKey(k) /\ request[last] = request[k]
                /\ \A j \in (k + 1)..Len(request) : ~IsKey(j)
  <2>1. \A q : q \in keys <=> q \in 2..Len(request) /\ IsKey(q)
    <3> SUFFICES ASSUME NEW q
                 PROVE  q \in keys <=> q \in 2..Len(request) /\ IsKey(q)
      OBVIOUS
    <3>1. q \in keys <=>
            /\ q \in 2..Len(request) /\ request[q] \in Tokens
            /\ Fields[request[q] - 300].name = "Sec-WebSocket-Key" /\ Fields[request[q] - 300].good
      BY <1>8, <1>10
    <3>2. CASE request[q] \in Tokens /\ q \in 2..Len(request)
      <4>1. request[q] > 300
        BY <1>7, <1>10, <3>2, TokenValues
      <4>2. request[q] - 300 \in 1..10
        BY <3>2, <4>1, TokenValues
      <4>3. (Fields[request[q] - 300].name = "Sec-WebSocket-Key" /\ Fields[request[q] - 300].good)
              <=> request[q] - 300 \in {7, 8}
        BY <4>2, FieldsAre, ZenonT(40)
      <4>4. IsKey(q) <=> request[q] - 300 \in {7, 8}
        BY <3>2, <4>1, TokenValues DEF IsKey
      <4> HIDE DEF keys
      <4> QED
        BY <3>1, <3>2, <4>3, <4>4, ZenonT(40)
    <3>3. CASE ~(request[q] \in Tokens /\ q \in 2..Len(request))
      <4>1. {FieldToken(7), FieldToken(8)} \subseteq Tokens
        BY FieldsAre DEF Tokens
      <4> HIDE DEF keys
      <4> QED
        BY <3>1, <3>3, <4>1 DEF IsKey
    <3> QED
      BY <3>2, <3>3
  <2>2. keys # {}
    BY <1>10 DEF Required
  <2> HIDE DEF keys
  <2>3. keys \subseteq 1..Len(request)
    BY <1>4, <2>1
  <2>4. \E n \in keys : \A x \in keys : x <= n
    BY <1>4, <2>2, <2>3, MaxBelow
  <2>5. last \in keys /\ \A j \in keys : j <= last
    BY <2>4, Zenon
  <2> HIDE DEF last
  <2>6. last \in DOMAIN request /\ IsKey(last) /\ last \in 2..Len(request)
    BY <1>4, <2>1, <2>3, <2>5
  <2>7. ASSUME NEW j \in (last + 1)..Len(request), IsKey(j)
        PROVE  FALSE
    <3>1. j \in 2..Len(request) /\ ~(j <= last)
      BY <1>4, <2>6
    <3> QED
      BY <2>1, <2>5, <2>7, <3>1
  <2> QED
    BY <2>6, <2>7
<1> HIDE DEF Lacks, last
<1>11. CASE m < Len(request)
  <2>1. r = Result("again", 0, 0)
    BY <1>1, <1>2, <1>11
  <2>2. r.rc = "again"
    BY <2>1
  <2> QED
    BY <1>4, <1>11, <2>2 DEF r, s
<1>12. CASE m >= Len(request)
  <2>1. E # {} /\ SubSeq(s, 1, Least(E)) = request
    BY <1>1, <1>12
  <2>2. ~(m < Len(request))
    BY <1>4, <1>12
  <2>3. CASE ~ValidRequest
    <3>1. r = Result("protocol", 0, 0)
      BY <1>3, <1>9, <2>1, <2>3
    <3>2. r.rc = "protocol"
      BY <3>1
    <3> QED
      BY <2>2, <2>3, <3>2 DEF r, s
  <2>4. CASE ValidRequest
    <3>1. r = Result("ok", Len(request), request[last])
      BY <1>3, <1>9, <2>1, <2>4
    <3>2. r.rc = "ok" /\ r.consumed = Len(request) /\ r.key = request[last]
      BY <3>1
    <3>3. \E k \in DOMAIN request :
            /\ IsKey(k) /\ r.key = request[k]
            /\ \A j \in (k + 1)..Len(request) : ~IsKey(j)
      BY <1>9, <1>10, <2>4, <3>2
    <3> QED
      BY <2>2, <2>4, <3>2, <3>3 DEF r, s
  <2> QED
    BY <2>3, <2>4
<1> QED
  BY <1>4, <1>11, <1>12

\* Before the first frame.
LEMMA AtFirstFrame ==
  ASSUME client \in Streams, client' = client, messages' = <<>>, parser' = NewParser,
         pos' = Len(request), pc' = "caller"
  PROVE  FramesInv'
<1>1. /\ Len(frames) \in Nat /\ starts[1] = Len(request)
  BY StreamFacts
<1>2. frames' = frames /\ starts' = starts
  BY Kept
<1>3. Current' = 1 /\ Len(messages') = 0
  BY DEF Current
<1>4. Before(1)'
  BY <1>3 DEF Before, Accepted
<1>5. ~Open(1)'
  BY DEF Open
<1>6. /\ parser'.state = "HEADER_1" /\ parser'.ext_len_bytes = <<>> /\ parser'.mask = <<>>
      /\ parser'.payload_offset = 0 /\ parser'.fragmented_opcode = 0
  BY DEF NewParser
<1>7. Standing(1)'
  BY <1>1, <1>2, <1>3, <1>6 DEF Standing, AtHeader1
<1>8. FramesAt(1)'
  BY <1>3, <1>4, <1>5, <1>6, <1>7 DEF FramesAt
<1>9. 1 \in 1..(Len(frames') + 1)
  BY <1>1, <1>2
<1> QED
  BY <1>8, <1>9 DEF FramesInv

LEMMA HandshakeKeeps == WsInv /\ HandshakeBytes => WsInv'
<1> SUFFICES ASSUME WsInv, HandshakeBytes
             PROVE  WsInv'
  OBVIOUS
<1> DEFINE m == received'
           r == build_handshake_response(SubSeq(stream, 1, m))
<1>1. /\ pc = "caller" /\ ~handshake_done /\ Reads
      /\ UNCHANGED <<client, parser, capacity, messages, written>>
      /\ \/ /\ m > MaxRequest \/ r.rc = "protocol"
            /\ pc' = "refused" /\ UNCHANGED <<upgrade, pos>>
         \/ /\ r.rc = "again" /\ UNCHANGED <<upgrade, pos, pc>>
         \/ /\ r.rc = "ok" /\ handshake_done' = TRUE /\ accept' = r.key /\ pos' = r.consumed
            /\ UNCHANGED pc
  BY Zenon DEF HandshakeBytes
<1>2. /\ client' = client /\ stream' = stream /\ request' = request /\ written' = written
      /\ parser' = parser /\ messages' = messages /\ capacity' = capacity
  BY <1>1, Kept
<1>3. /\ client \in Streams /\ received \in 0..Len(stream)
      /\ parser \in ParserType /\ messages \in Seq(MessageType) /\ capacity \in Nat
      /\ pos = 0 /\ messages = <<>> /\ parser = NewParser /\ handshake_done \in BOOLEAN
  BY <1>1 DEF WsInv, TypeOK, UpgradeInv
<1>4. Len(stream) \in Nat
  BY <1>3, StreamFacts
<1>5. Len(request) \in Nat /\ DOMAIN request = 1..Len(request)
  BY <1>3, RequestShape, ZenonT(40)
<1>6. PICK n \in 1..MaxRead : received + n <= Len(stream) /\ received' = received + n
  BY <1>1 DEF Reads
<1>7. m \in 1..Len(stream) /\ m \in Nat
  BY <1>3, <1>4, <1>6, StreamAssumption
<1> HIDE DEF m
<1>8. /\ m < Len(request) => r.rc = "again"
      /\ m >= Len(request) /\ ~ValidRequest => r.rc = "protocol"
      /\ m >= Len(request) /\ ValidRequest =>
           /\ r.rc = "ok" /\ r.consumed = Len(request)
           /\ \E k \in DOMAIN request :
                /\ IsKey(k) /\ r.key = request[k]
                /\ \A j \in (k + 1)..Len(request) : ~IsKey(j)
  BY <1>3, <1>7, Answered, Zenon
<1> HIDE DEF r
<1>9. m < Len(request) \/ m >= Len(request)
  BY <1>5, <1>7
<1>10. \A k : IsKey(k)' <=> IsKey(k)
  BY <1>2 DEF IsKey
<1>11. ValidRequest' <=> ValidRequest
  <2>1. \A name : Holds(name)' <=> Holds(name)
    BY <1>2 DEF Holds
  <2> QED
    BY <1>2, <2>1 DEF ValidRequest
<1>12. WrittenInv'
  <2>1. WrittenInv
    BY DEF WsInv
  <2> QED
    BY <1>2, <2>1, Zenon DEF WrittenInv
<1>13. received' \in 0..Len(stream')
  BY <1>2, <1>4, <1>7 DEF m
<1>14. CASE /\ m > MaxRequest \/ r.rc = "protocol"
            /\ pc' = "refused" /\ UNCHANGED <<upgrade, pos>>
  <2>1. handshake_done' = handshake_done /\ pos' = 0
    BY <1>3, <1>14 DEF upgrade
  <2>2. received' > MaxRequest \/ (~ValidRequest /\ received' >= Len(request))
    BY <1>8, <1>9, <1>14 DEF m
  <2>3. RequestExactly'
    BY <1>1, <1>2, <1>11, <1>14, <2>1, <2>2 DEF RequestExactly
  <2>4. pos' \in 0..received'
    BY <1>7, <2>1 DEF m
  <2>5. TypeOK'
    <3>1. handshake_done' \in BOOLEAN
      BY <1>3, <2>1
    <3> QED
      BY <3>1, <1>1, <1>2, <1>3, <1>13, <1>14, <2>1, <2>4 DEF TypeOK
  <2> QED
    BY <1>1, <1>2, <1>3, <1>12, <1>14, <2>1, <2>3, <2>5 DEF WsInv, UpgradeInv
<1>15. CASE r.rc = "again" /\ UNCHANGED <<upgrade, pos, pc>>
  <2>1. handshake_done' = handshake_done /\ pos' = 0 /\ pc' = "caller"
    BY <1>1, <1>3, <1>15 DEF upgrade
  <2>2. received' < Len(request)
    BY <1>8, <1>9, <1>15 DEF m
  <2>3. RequestExactly'
    BY <1>1, <1>2, <2>1, <2>2 DEF RequestExactly
  <2>4. pos' \in 0..received'
    BY <1>7, <2>1 DEF m
  <2>5. TypeOK'
    <3>1. handshake_done' \in BOOLEAN
      BY <1>3, <2>1
    <3> QED
      BY <3>1, <1>1, <1>2, <1>3, <1>13, <2>1, <2>4 DEF TypeOK
  <2> QED
    BY <1>1, <1>2, <1>3, <1>12, <2>1, <2>3, <2>5 DEF WsInv, UpgradeInv
<1>16. CASE /\ r.rc = "ok" /\ handshake_done' = TRUE /\ accept' = r.key /\ pos' = r.consumed
            /\ UNCHANGED pc
  <2>1. m >= Len(request) /\ ValidRequest
    BY <1>8, <1>9, <1>16
  <2>2. /\ pos' = Len(request) /\ pc' = "caller"
        /\ \E k \in DOMAIN request :
             /\ IsKey(k) /\ accept' = request[k]
             /\ \A j \in (k + 1)..Len(request) : ~IsKey(j)
    BY <1>1, <1>8, <1>16, <2>1
  <2>3. received' >= Len(request') /\ pos' >= Len(request') /\ pos' \in 0..received'
    BY <1>2, <1>5, <1>7, <2>1, <2>2 DEF m
  <2>4. \E k \in DOMAIN request' :
           /\ IsKey(k)' /\ accept' = request'[k]
           /\ \A j \in (k + 1)..Len(request') : ~IsKey(j)'
    BY <1>2, <1>10, <2>2, Zenon
  <2>5. ValidRequest'
    BY <1>11, <2>1
  <2>6. RequestExactly'
    BY <1>16, <2>2, <2>3, <2>4, <2>5, Zenon DEF RequestExactly
  <2>7. TypeOK'
    BY <1>2, <1>3, <1>13, <1>16, <2>2, <2>3 DEF TypeOK
  <2>8. FramesInv'
    BY <1>2, <1>3, <2>2, AtFirstFrame
  <2> QED
    BY <1>12, <1>16, <2>6, <2>7, <2>8 DEF WsInv, UpgradeInv
<1> QED
  BY <1>1, <1>14, <1>15, <1>16, ZenonT(40)

-----------------------------------------------------------------------------
(* The invariant.                                                          *)

LEMMA InitInv == Init => WsInv
<1> SUFFICES ASSUME Init
             PROVE  WsInv
  OBVIOUS
<1>1. /\ client \in Streams /\ handshake_done = FALSE /\ received = 0 /\ pos = 0
      /\ parser = NewParser /\ capacity = 0 /\ pc = "caller" /\ messages = <<>>
      /\ written = [opcode |-> BINARY, len |-> 0, head |-> WriteHead(BINARY, 0)]
  BY ZenonT(40) DEF Init
<1>2. Len(stream) \in Nat
  BY <1>1, StreamFacts, SMTT(30)
<1>3. Len(request) \in Nat /\ Len(request) >= 4
  BY <1>1, RequestShape, ZenonT(40)
<1>4. NewParser \in ParserType
  BY HugeNat, SMT DEF NewParser, ParserType
<1>5. TypeOK
  <2>1. messages \in Seq(MessageType)
    BY <1>1
  <2>2. handshake_done \in BOOLEAN /\ capacity \in Nat /\ parser \in ParserType
    BY <1>1, <1>4, Zenon
  <2>3. received \in 0..Len(stream) /\ pos \in 0..received
    BY <1>1, <1>2
  <2> QED
    BY <1>1, <2>1, <2>2, <2>3 DEF TypeOK
<1>6. RequestExactly
  BY <1>1, <1>3 DEF RequestExactly
<1>7. WrittenInv
  <2>1. 0 \in 0..Huge
    BY HugeNat
  <2> QED
    BY <1>1, <2>1, Zenon DEF WrittenInv
<1> QED
  BY <1>1, <1>5, <1>6, <1>7 DEF WsInv, UpgradeInv

LEMMA StutterKeeps == WsInv /\ UNCHANGED vars => WsInv'
<1> SUFFICES ASSUME WsInv, UNCHANGED vars
             PROVE  WsInv'
  OBVIOUS
<1>1. /\ client' = client /\ handshake_done' = handshake_done /\ accept' = accept
      /\ received' = received /\ pos' = pos /\ parser' = parser /\ capacity' = capacity
      /\ pc' = pc /\ messages' = messages /\ written' = written
  BY DEF vars, upgrade
<1>2. request' = request /\ stream' = stream
  BY <1>1, Kept
<1>3. TypeOK' /\ UpgradeInv'
  BY <1>1, <1>2 DEF WsInv, TypeOK, UpgradeInv
<1>4. RequestExactly'
  <2>1. \A k : IsKey(k)' <=> IsKey(k)
    BY <1>2 DEF IsKey
  <2>2. \A name : Holds(name)' <=> Holds(name)
    BY <1>2 DEF Holds
  <2>3. ValidRequest' <=> ValidRequest
    BY <1>2, <2>2 DEF ValidRequest
  <2>4. RequestExactly
    BY DEF WsInv
  <2> QED
    BY <1>1, <1>2, <2>1, <2>3, <2>4 DEF RequestExactly
<1>5. WrittenInv'
  <2>1. WrittenInv
    BY DEF WsInv
  <2> QED
    BY <1>1, <2>1, Zenon DEF WrittenInv
<1>6. FramesInv => FramesInv'
  BY <1>1, FramesStay
<1> QED
  BY <1>1, <1>3, <1>4, <1>5, <1>6 DEF WsInv

LEMMA NextInv == WsInv /\ [Next]_vars => WsInv'
  BY HandshakeKeeps, ReceiveKeeps, FeedKeeps, Header1Keeps, Header2Keeps, ExtLenKeeps,
     MaskKeeps, PayloadKeeps, AgainKeeps, WriteKeeps, StutterKeeps DEF Next

LEMMA WsAlways == Spec => []WsInv
  BY InitInv, NextInv, PTL DEF Spec

-----------------------------------------------------------------------------
(* What follows from it.                                                   *)

\* Frames start one behind the other.
LEMMA StartsGrow ==
  ASSUME client \in Streams, NEW k \in 1..Len(frames), NEW j \in (k + 1)..(Len(frames) + 1)
  PROVE  starts[k] < starts[j]
<1> DEFINE L == Len(frames)
           S == {i \in (k + 1)..(L + 1) : ~(starts[k] < starts[i])}
<1>1. L \in Nat /\ starts \in [1..(L + 1) -> Nat] /\ DOMAIN frames = 1..L
  BY StreamFacts
<1>2. ASSUME NEW i \in 1..L
      PROVE  starts[i] \in Nat /\ starts[i + 1] \in Nat /\ starts[i] < starts[i + 1]
  <2>1. i \in DOMAIN frames
    BY <1>1
  <2>2. starts[i] \in Nat
    BY <2>1, FrameFacts
  <2>3. starts[i + 1] = starts[i] + 2 + frames[i].form + MaskLen(frames[i]) + Len(frames[i].payload)
    BY <2>1, FrameFacts
  <2>4. frames[i].form \in Nat /\ Len(frames[i].payload) \in Nat
    BY <2>1, FieldFacts
  <2>5. MaskLen(frames[i]) \in Nat
    BY DEF MaskLen
  <2> DEFINE o == starts[i]
             e == starts[i + 1]
             a == frames[i].form
             b == MaskLen(frames[i])
             c == Len(frames[i].payload)
  <2>6. o \in Nat /\ a \in Nat /\ b \in Nat /\ c \in Nat /\ e = o + 2 + a + b + c
    BY <2>2, <2>3, <2>4, <2>5
  <2> HIDE DEF o, e, a, b, c
  <2>7. e \in Nat /\ o < e
    BY <2>6
  <2> QED
    BY <2>6, <2>7 DEF o, e
<1>3. ASSUME S # {}
      PROVE  FALSE
  <2>1. S \subseteq Nat
    BY <1>1
  <2>2. PICK i \in S : \A x \in S : i <= x
    <3> HIDE DEF S
    <3> QED
      BY <1>3, <2>1, NatMin
  <2>3. i \in (k + 1)..(L + 1) /\ ~(starts[k] < starts[i])
    OBVIOUS
  <2>4. CASE i = k + 1
    BY <1>2, <2>3, <2>4
  <2>5. CASE i # k + 1
    <3>1. i - 1 \in (k + 1)..(L + 1) /\ i - 1 \in 1..L /\ (i - 1) + 1 = i /\ ~(i <= i - 1)
      BY <1>1, <2>3, <2>5
    <3>2. i - 1 \notin S
      <4> HIDE DEF S
      <4> QED
        BY <2>2, <3>1
    <3>3. starts[k] < starts[i - 1]
      BY <3>1, <3>2
    <3>4. starts[i - 1] < starts[i] /\ starts[i - 1] \in Nat /\ starts[i] \in Nat
      BY <1>2, <3>1
    <3>5. starts[k] \in Nat
      BY <1>2
    <3> QED
      BY <2>3, <3>3, <3>4, <3>5
  <2> QED
    BY <2>4, <2>5
<1> QED
  BY <1>3

\* A part of a payload that is as long as the payload is all of it.
LEMMA BeginsAll ==
  ASSUME NEW B, NEW s \in Seq(B), NEW t \in Seq(B), Begins(s, t), Len(s) = Len(t)
  PROVE  s = t
<1>1. DOMAIN s = 1..Len(s)
  BY LenProperties
<1>2. \A i \in 1..Len(s) : s[i] = t[i]
  BY <1>1 DEF Begins
<1> QED
  BY <1>2, SeqEqual

\* Nothing is left of the stream.
LEMMA AllUsed ==
  ASSUME client \in Streams, parser \in ParserType, NEW k \in 1..(Len(frames) + 1), Standing(k),
         pos = Len(stream)
  PROVE  \/ k = Len(frames) + 1 /\ k = Len(messages) + 1
         \/ /\ k = Len(frames) /\ k = Len(messages)
            /\ Delivered(k, Len(frames[k].payload))
<1> DEFINE L == Len(frames)
           o == starts[k]
<1>1. L \in Nat /\ DOMAIN frames = 1..L /\ Len(stream) = starts[L + 1]
  BY StreamFacts
<1>2. CASE k = L + 1
  <2>1. k \notin DOMAIN frames
    BY <1>1, <1>2
  <2>2. parser.state \in {"HEADER_1", "HEADER_2", "EXT_LEN", "MASK", "PAYLOAD"}
    BY DEF ParserType
  <2>3. AtHeader1(k)
    BY <2>1, <2>2 DEF Standing, AtHeader2, AtExtLen, AtMask, AtPayload, Reached
  <2> QED
    BY <1>2, <2>3 DEF AtHeader1
<1>3. CASE k # L + 1
  <2>1. k \in DOMAIN frames /\ k \in 1..L /\ L + 1 \in (k + 1)..(L + 1) /\ k + 1 \in 1..(L + 1)
    BY <1>1, <1>3
  <2> DEFINE f == frames[k]
             w == Len(f.payload)
             e == starts[k + 1]
             z == starts[L + 1]
  <2>2. o \in Nat /\ e = o + 2 + f.form + MaskLen(f) + w
    BY <2>1, FrameFacts
  <2>3. f.form \in Nat /\ w \in Nat
    BY <2>1, FieldFacts
  <2>4. Announced(f) > 0 => f.payload # <<>>
    BY <2>1, FrameFacts
  <2>5. MaskLen(f) \in Nat /\ (f.masked => MaskLen(f) = 4)
    BY DEF MaskLen
  <2>6. o < z
    BY <1>1, <2>1, StartsGrow
  <2>7. k = L \/ e < z
    <3>1. CASE k # L
      <4>1. k + 1 \in 1..L /\ L + 1 \in ((k + 1) + 1)..(L + 1)
        BY <1>1, <2>1, <3>1
      <4> QED
        BY <4>1, StartsGrow
    <3> QED
      BY <3>1
  <2>8. z \in Nat
    BY <1>1, StreamFacts
  <2>9. k = L => e = z
    OBVIOUS
  <2>10. pos = z
    BY <1>1
  <2>11. Standing(k)
    OBVIOUS
  <2>12. parser.state \in {"HEADER_1", "HEADER_2", "EXT_LEN", "MASK", "PAYLOAD"}
    BY DEF ParserType
  <2>13. parser.payload_offset \in Nat /\ Len(parser.mask) \in Nat /\ Len(parser.ext_len_bytes) \in Nat
    BY LenProperties DEF ParserType
  <2>14. ~Bad(k) => f.masked
    BY SMT DEF Bad
  <2>15. w = 0 => f.payload = <<>>
    <3>1. f.payload \in Seq(0..255)
      BY <2>1, FieldFacts
    <3> QED
      BY <3>1, EmptySeq
  <2>16. CASE parser.state = "HEADER_1"
    <3>1. pos = o
      BY <2>11, <2>16 DEF Standing, AtHeader1
    <3> HIDE DEF o, z
    <3> QED
      BY <2>2, <2>6, <2>8, <2>10, <3>1
  <2>17. CASE parser.state = "HEADER_2"
    <3>1. pos = o + 1
      BY <2>11, <2>17 DEF Standing, AtHeader2, Reached
    <3> HIDE DEF o, z, e, f, w
    <3> QED
      BY <2>2, <2>3, <2>5, <2>7, <2>8, <2>9, <2>10, <3>1, SMTT(30)
  <2>18. CASE parser.state = "EXT_LEN"
    <3> DEFINE g == f.form
               l == MaskLen(f)
               i == Len(parser.ext_len_bytes)
    <3>1. pos = o + (2 + i) /\ i < g
      BY <2>11, <2>18 DEF Standing, AtExtLen, Reached
    <3>2. o \in Nat /\ g \in Nat /\ l \in Nat /\ w \in Nat /\ i \in Nat /\ e = o + 2 + g + l + w
      BY <2>2, <2>3, <2>5, <2>13
    <3>3. pos < e /\ e \in Nat
      <4> HIDE DEF o, e, f, w, g, l, i
      <4> QED
        BY <3>1, <3>2
    <3> HIDE DEF z, e
    <3> QED
      BY <2>7, <2>8, <2>9, <2>10, <3>3
  <2>19. CASE parser.state = "MASK"
    <3>1. pos = o + (2 + f.form + Len(parser.mask)) /\ Len(parser.mask) < 4 /\ ~Bad(k)
      BY <2>11, <2>19 DEF Standing, AtMask, Reached
    <3>2. MaskLen(f) = 4
      BY <2>5, <2>14, <3>1
    <3> DEFINE a == f.form
               i == Len(parser.mask)
    <3>3. /\ o \in Nat /\ a \in Nat /\ i \in Nat /\ w \in Nat /\ i < 4
          /\ e = o + 2 + a + 4 + w /\ pos = o + (2 + a + i)
      BY <2>2, <2>3, <2>13, <3>1, <3>2
    <3>4. pos < e /\ e \in Nat
      <4> HIDE DEF o, e, f, w, a, i
      <4> QED
        BY <3>3
    <3> HIDE DEF z, e
    <3> QED
      BY <2>7, <2>8, <2>9, <2>10, <3>4
  <2>20. CASE parser.state = "PAYLOAD"
    <3> DEFINE n == parser.payload_offset
    <3>1. /\ pos = o + (6 + f.form + n) /\ ~Bad(k) /\ n < Announced(f) /\ n <= w
          /\ IF n = 0 THEN k = Len(messages) + 1 ELSE k = Len(messages) /\ Delivered(k, n)
      BY <2>11, <2>20 DEF Standing, AtPayload, Reached
    <3>2. MaskLen(f) = 4
      BY <2>5, <2>14, <3>1
    <3>3. n = w /\ k = L
      <4>1. n \in Nat
        BY <2>13
      <4> DEFINE a == f.form
      <4>2. /\ o \in Nat /\ a \in Nat /\ w \in Nat /\ n <= w
            /\ e = o + 2 + a + 4 + w /\ pos = o + (6 + a + n)
        BY <2>2, <2>3, <3>1, <3>2
      <4>3. /\ n < w => pos < e
            /\ n < w \/ n = w
            /\ n = w => pos = e
            /\ e \in Nat
        <5> HIDE DEF o, e, f, w, n, a
        <5> QED
          BY <4>1, <4>2
      <4> HIDE DEF z, e, w, n, L
      <4> QED
        BY <2>7, <2>8, <2>9, <2>10, <4>3
    <3>4. n # 0
      <4>1. Announced(f) \in Nat
        BY <2>1, FieldFacts, HugeNat
      <4> HIDE DEF f, w, n
      <4> QED
        BY <2>4, <2>13, <2>15, <3>1, <3>3, <4>1, SMTT(30)
    <3> QED
      BY <3>1, <3>3, <3>4
  <2> QED
    BY <2>12, <2>16, <2>17, <2>18, <2>19, <2>20
<1> QED
  BY <1>2, <1>3

LEMMA InvDecodes == WsInv => DecodedExactly
<1> SUFFICES ASSUME WsInv
             PROVE  DecodedExactly
  OBVIOUS
<1>1. /\ client \in Streams /\ parser \in ParserType /\ messages \in Seq(MessageType)
      /\ handshake_done \in BOOLEAN
      /\ pc \in {"caller", "feed", "wrote", "refused", "protocol", "overflow"}
  BY DEF WsInv, TypeOK
<1>2. Len(messages) \in Nat /\ DOMAIN messages = 1..Len(messages)
  BY <1>1, LenProperties
<1>3. Len(frames) \in Nat /\ DOMAIN frames = 1..Len(frames) /\ Len(stream) = starts[Len(frames) + 1]
      /\ starts[1] = Len(request) /\ Len(stream) \in Nat
  BY <1>1, StreamFacts
<1>4. CASE ~handshake_done
  <2>1. pos = 0 /\ messages = <<>>
    BY <1>4 DEF WsInv, UpgradeInv
  <2>2. Len(request) \in Nat /\ Len(request) >= 4
    BY <1>1, RequestShape
  <2>3. Len(stream) >= Len(request)
    <3>1. CASE Len(frames) = 0
      BY <1>3, <2>2, <3>1
    <3>2. CASE Len(frames) # 0
      <4>1. 1 \in 1..Len(frames) /\ Len(frames) + 1 \in (1 + 1)..(Len(frames) + 1)
        BY <1>3, <3>2
      <4>2. starts[1] < starts[Len(frames) + 1]
        BY <1>1, <4>1, StartsGrow
      <4> QED
        BY <1>3, <2>2, <4>2
    <3> QED
      BY <3>1, <3>2
  <2>4. pos # Len(stream)
    BY <1>3, <2>1, <2>2, <2>3
  <2>5. DOMAIN messages = {}
    BY <2>1
  <2> QED
    BY <2>4, <2>5, Zenon DEF DecodedExactly
<1>5. CASE handshake_done
  <2>1. PICK c \in 1..(Len(frames) + 1) : FramesAt(c)
    BY <1>5 DEF WsInv, FramesInv
  <2> DEFINE N == Len(messages)
             L == Len(frames)
  <2>1a. N \in Nat /\ L \in Nat /\ c \in Nat /\ c >= 1 /\ DOMAIN messages = 1..N
    BY <1>2, <1>3
  <2>2. c = Current /\ Before(c)
    BY <2>1 DEF FramesAt
  <2>3. c = N \/ c = N + 1
    BY <2>2 DEF Current
  <2>4. \A j \in 1..(c - 1) : ~Bad(j) /\ messages[j].complete /\ Delivered(j, Len(frames[j].payload))
    BY <2>2 DEF Before, Accepted
  <2>5. ASSUME c = Len(messages)
        PROVE  ~Bad(c) /\ Delivered(c, Len(messages[c].payload))
    <3>0. c = N
      BY <2>5
    <3>1. c # N + 1
      <4> HIDE DEF N, L
      <4> QED
        BY <2>1a, <3>0
    <3>2. Standing(c)
      BY <2>1, <3>1 DEF FramesAt, Refused
    <3>3. AtPayload(c)
      <4>1. parser.state \in {"HEADER_1", "HEADER_2", "EXT_LEN", "MASK", "PAYLOAD"}
        BY <1>1 DEF ParserType
      <4> QED
        BY <3>1, <3>2, <4>1 DEF Standing, AtHeader1, AtHeader2, AtExtLen, AtMask
    <3>4. ~Bad(c) /\ Delivered(c, parser.payload_offset)
      BY <3>1, <3>3 DEF AtPayload
    <3>5. Len(messages[c].payload) = parser.payload_offset
      BY <3>4 DEF Delivered
    <3> QED
      BY <3>4, <3>5
  <2>6. ASSUME NEW k \in DOMAIN messages
        PROVE  /\ ~Bad(k) /\ Delivered(k, Len(messages[k].payload))
               /\ k < Len(messages) => messages[k].complete
               /\ Accepted(k)
    <3>1. k \in 1..c /\ (k \in 1..(c - 1) \/ (k = c /\ k = N))
      <4> HIDE DEF N, L
      <4> QED
        BY <2>1a, <2>3, <2>6
    <3>2. ~Bad(k) /\ Delivered(k, Len(messages[k].payload))
      <4>1. CASE k \in 1..(c - 1)
        <5>1. ~Bad(k) /\ Delivered(k, Len(frames[k].payload))
          BY <2>4, <4>1
        <5>2. Len(messages[k].payload) = Len(frames[k].payload)
          BY <5>1 DEF Delivered
        <5> QED
          BY <5>1, <5>2
      <4>2. CASE k = c /\ k = Len(messages)
        BY <2>5, <4>2
      <4> QED
        BY <3>1, <4>1, <4>2
    <3>3. k < Len(messages) => messages[k].complete
      <4>1. k < N => k \in 1..(c - 1)
        <5> HIDE DEF N, L
        <5> QED
          BY <2>1a, <2>3, <2>6
      <4> QED
        BY <2>4, <4>1
    <3>4. \A j \in 1..k : j \in 1..(c - 1) \/ (j = c /\ j = k)
      <4> HIDE DEF N, L
      <4> QED
        BY <2>1a, <2>3, <2>6
    <3>5. Accepted(k)
      BY <2>4, <3>2, <3>4 DEF Accepted
    <3> QED
      BY <3>2, <3>3, <3>5
  <2>7. ASSUME pc = "caller", pos = Len(stream)
        PROVE  /\ Len(messages) = Len(frames)
               /\ \A k \in DOMAIN messages : messages[k].payload = frames[k].payload
    <3>1. Standing(c)
      BY <2>1, <2>7 DEF FramesAt
    <3>2. \/ c = Len(frames) + 1 /\ c = Len(messages) + 1
          \/ /\ c = Len(frames) /\ c = Len(messages)
             /\ Delivered(c, Len(frames[c].payload))
      BY <1>1, <2>7, <3>1, AllUsed
    <3>2a. (c = L + 1 /\ c = N + 1) \/ (c = L /\ c = N)
      BY <3>2
    <3>3. N = L
      <4> HIDE DEF N, L
      <4> QED
        BY <2>1a, <3>2a
    <3>4. ASSUME NEW k \in DOMAIN messages
          PROVE  messages[k].payload = frames[k].payload
      <4>1. Delivered(k, Len(frames[k].payload))
        <5>1. k \in 1..(c - 1) \/ (k = c /\ c = N)
          <6> HIDE DEF N, L
          <6> QED
            BY <2>1a, <2>3, <3>4
        <5>2. CASE k = c /\ c = N
          <6>1. ~(c = N + 1)
            <7> HIDE DEF N, L
            <7> QED
              BY <2>1a, <5>2
          <6> QED
            BY <3>2, <5>2, <6>1
        <5> QED
          BY <2>4, <5>1, <5>2
      <4>2. /\ Len(messages[k].payload) = Len(frames[k].payload)
            /\ Begins(messages[k].payload, frames[k].payload)
        BY <4>1 DEF Delivered
      <4>3. messages[k] \in MessageType
        BY <1>1, <1>2, ElementOfSeq
      <4>4. messages[k].payload \in Seq(0..255)
        BY <4>3 DEF MessageType
      <4>5. k \in DOMAIN frames
        BY <1>2, <1>3, <3>3, SMTT(30)
      <4>6. frames[k].payload \in Seq(0..255)
        BY <1>1, <4>5, FieldFacts
      <4> QED
        BY <4>2, <4>4, <4>6, BeginsAll
    <3> QED
      BY <3>3, <3>4
  <2>8. \A k \in DOMAIN messages :
           /\ Accepted(k)
           /\ messages[k].opcode = frames[k].opcode /\ messages[k].fin = frames[k].fin
           /\ Begins(messages[k].payload, frames[k].payload)
           /\ messages[k].complete <=> (Len(messages[k].payload) = Announced(frames[k]))
           /\ k < Len(messages) => messages[k].complete
    BY <2>6, Zenon DEF Delivered
  <2> QED
    BY <2>7, <2>8, Zenon DEF DecodedExactly
<1> QED
  BY <1>1, <1>4, <1>5

LEMMA InvRefuses == WsInv => RefusedExactly
<1> SUFFICES ASSUME WsInv
             PROVE  RefusedExactly
  OBVIOUS
<1>1. pc \in {"caller", "feed", "wrote", "refused", "protocol", "overflow"} /\ handshake_done \in BOOLEAN
  BY DEF WsInv, TypeOK
<1>2. ASSUME pc = "protocol"
      PROVE  /\ Current = Len(messages) + 1 /\ Bad(Current) /\ Accepted(Current - 1)
             /\ pos <= HeadEnd(Current)
  <2>1. handshake_done
    BY <1>1, <1>2 DEF WsInv, UpgradeInv
  <2>2. PICK k \in 1..(Len(frames) + 1) : FramesAt(k)
    BY <2>1 DEF WsInv, FramesInv
  <2> QED
    BY <1>2, <2>2 DEF FramesAt, Refused, Before
<1> QED
  BY <1>1, <1>2 DEF RefusedExactly

LEMMA InvOverflows == WsInv => RoomSuffices
<1> SUFFICES ASSUME WsInv, pc = "overflow"
             PROVE  capacity < 125 /\ frames[Current].opcode >= 8 /\ ~Bad(Current)
  BY DEF RoomSuffices
<1>1. client \in Streams /\ handshake_done \in BOOLEAN /\ capacity \in Nat /\ parser \in ParserType
  BY DEF WsInv, TypeOK
<1>2. handshake_done
  BY <1>1 DEF WsInv, UpgradeInv
<1>3. PICK k \in 1..(Len(frames) + 1) : FramesAt(k)
  BY <1>2 DEF WsInv, FramesInv
<1>4. /\ k = Current /\ parser.state = "PAYLOAD" /\ parser.opcode >= 8
      /\ parser.payload_remaining > capacity /\ Standing(k)
  BY <1>3 DEF FramesAt
<1> DEFINE f == frames[k]
<1>5. /\ k \in DOMAIN frames /\ parser.opcode = f.opcode /\ ~Bad(k)
      /\ parser.payload_remaining = Announced(f) - parser.payload_offset
  BY <1>4, SMTT(30) DEF Standing, AtPayload, Reached
<1>6. /\ Announced(f) \in Nat /\ parser.payload_offset \in Nat
  BY <1>1, <1>5, FieldFacts, HugeNat DEF ParserType
<1>7. ~(Announced(f) > 125)
  BY <1>4, <1>5, SMT DEF Bad
<1>8. capacity < 125
  <2> DEFINE a == Announced(f)
             o == parser.payload_offset
             r == parser.payload_remaining
  <2>1. a \in Nat /\ o \in Nat /\ capacity \in Nat /\ ~(a > 125) /\ r = a - o /\ r > capacity
    BY <1>1, <1>4, <1>5, <1>6, <1>7
  <2> HIDE DEF a, o, r
  <2> QED
    BY <2>1
<1> HIDE DEF f
<1> QED
  BY <1>4, <1>5, <1>8 DEF f

\* What is at a place of the end of a sequence.
LEMMA SubSeqAt ==
  ASSUME NEW s \in Seq(Nat), NEW m \in Nat \ {0}, NEW j \in 1..Len(s) - m + 1
  PROVE  SubSeq(s, m, Len(s))[j] = s[m + j - 1]
<1>1. Len(s) \in Nat
  BY LenProperties
<1>2. m \in Int /\ Len(s) \in Int /\ \A i \in m..Len(s) : s[i] \in Nat
  BY <1>1, ElementOfSeq
<1>3. \A i \in 1..Len(s) - m + 1 : SubSeq(s, m, Len(s))[i] = s[m + i - 1]
  BY <1>2, SubSeqProperties, SMTT(30), ZenonT(40)
<1> QED
  BY <1>3

LEMMA TwoThen ==
  ASSUME NEW x \in Nat, NEW y \in Nat, NEW t \in Seq(Nat), NEW h, h = <<x>> \o (<<y>> \o t)
  PROVE  /\ Len(h) = 2 + Len(t) /\ h[1] = x /\ h[2] = y
         /\ \A j \in 1..Len(t) : SubSeq(h, 3, 2 + Len(t))[j] = t[j]
<1> DEFINE a == <<x>>
           b == <<y>>
           u == b \o t
<1>1. a \in Seq(Nat) /\ b \in Seq(Nat) /\ Len(a) = 1 /\ Len(b) = 1 /\ a[1] = x /\ b[1] = y
  OBVIOUS
<1>2. h = a \o u
  OBVIOUS
<1>3. Len(t) \in Nat
  BY LenProperties
<1> HIDE DEF a, b
<1>4. /\ u \in Seq(Nat) /\ Len(u) = 1 + Len(t) /\ u[1] = y
      /\ \A j \in 1..Len(t) : u[1 + j] = t[j]
  <2>1. /\ u \in Seq(Nat) /\ Len(u) = Len(b) + Len(t)
        /\ \A j \in 1..Len(b) : u[j] = b[j]
        /\ \A j \in 1..Len(t) : u[Len(b) + j] = t[j]
    <3>1. b \in Seq(Nat) /\ t \in Seq(Nat)
      BY <1>1
    <3>2. u \in Seq(Nat) /\ Len(u) = Len(b) + Len(t)
      BY <3>1, ConcatProperties
    <3>3. \A j \in 1..Len(b) : u[j] = b[j]
      BY <3>1, ConcatAt
    <3>4. \A j \in 1..Len(t) : u[Len(b) + j] = t[j]
      BY <3>1, ConcatAt
    <3> QED
      BY <3>2, <3>3, <3>4
  <2> HIDE DEF u
  <2> QED
    BY <1>1, <2>1
<1> HIDE DEF u
<1>5. /\ h \in Seq(Nat) /\ Len(h) = 1 + Len(u) /\ h[1] = x
      /\ \A j \in 1..Len(u) : h[1 + j] = u[j]
  <2>1. /\ h \in Seq(Nat) /\ Len(h) = Len(a) + Len(u)
        /\ \A j \in 1..Len(a) : h[j] = a[j]
        /\ \A j \in 1..Len(u) : h[Len(a) + j] = u[j]
    <3>1. a \in Seq(Nat) /\ u \in Seq(Nat)
      BY <1>1, <1>4
    <3>2. h \in Seq(Nat) /\ Len(h) = Len(a) + Len(u)
      BY <1>2, <3>1, ConcatProperties
    <3>3. \A j \in 1..Len(a) : h[j] = a[j]
      BY <1>2, <3>1, ConcatAt
    <3>4. \A j \in 1..Len(u) : h[Len(a) + j] = u[j]
      BY <1>2, <3>1, ConcatAt
    <3> QED
      BY <3>2, <3>3, <3>4
  <2> QED
    BY <1>1, <2>1
<1>6. Len(h) = 2 + Len(t) /\ h[2] = y
  <2>1. h[1 + 1] = u[1]
    BY <1>3, <1>4, <1>5
  <2> QED
    BY <1>3, <1>4, <1>5, <2>1
<1>7. ASSUME NEW j \in 1..Len(t)
      PROVE  SubSeq(h, 3, 2 + Len(t))[j] = t[j]
  <2>1. SubSeq(h, 3, 2 + Len(t))[j] = h[3 + j - 1]
    <3>1. j \in 1..Len(h) - 3 + 1 /\ 3 \in Nat \ {0} /\ 2 + Len(t) = Len(h)
      BY <1>3, <1>6
    <3>2. SubSeq(h, 3, Len(h))[j] = h[3 + j - 1]
      BY <1>5, <3>1, SubSeqAt, SMTT(30), ZenonT(40)
    <3> QED
      BY <3>1, <3>2
  <2>2. 3 + j - 1 = 1 + (1 + j) /\ 1 + j \in 1..Len(u)
    BY <1>3, <1>4
  <2>3. h[1 + (1 + j)] = u[1 + j] /\ u[1 + j] = t[j]
    BY <1>4, <1>5, <2>2
  <2> QED
    BY <2>1, <2>2, <2>3
<1> QED
  BY <1>5, <1>6, <1>7

LEMMA InvWritten == WsInv => WrittenReads
<1> SUFFICES ASSUME WsInv
             PROVE  WrittenReads
  OBVIOUS
<1>1. PICK op \in {BINARY, CLOSE, PONG}, n \in 0..Huge :
        written = [opcode |-> op, len |-> n, head |-> WriteHead(op, n)]
  BY Zenon DEF WsInv, WrittenInv
<1> DEFINE h == WriteHead(op, n)
<1>2. written.opcode = op /\ written.len = n /\ written.head = h
  BY <1>1
<1>3. n \in Nat
  BY HugeNat
<1>4. CASE n <= 125
  <2>1. h = <<128 + op>> \o <<n>>
    BY <1>3, <1>4, SMT DEF WriteHead
  <2>2. Len(h) = 2 /\ h[1] = 128 + op /\ h[2] = n
    BY <2>1
  <2>3. n < 126
    BY <1>3, <1>4
  <2> HIDE DEF h
  <2> QED
    BY <1>2, <2>2, <2>3 DEF WrittenReads
<1>5. CASE n > 125 /\ n <= 65535
  <2>1. h = <<128 + op>> \o (<<126>> \o sockify_write_be16(n))
    BY <1>3, <1>5, SMT DEF WriteHead
  <2> DEFINE a == n \div 256
             b == n % 256
  <2>2. a \in Nat /\ b \in Nat /\ n = (256 * a) + b
    BY <1>3, <1>5, Split16 DEF Octet1, Octet0
  <2>3. h = <<128 + op>> \o (<<126>> \o <<a, b>>)
    BY <2>1 DEF sockify_write_be16
  <2> HIDE DEF h, a, b
  <2> DEFINE x == 128 + op
             t == <<a, b>>
  <2>4. x \in Nat
    BY DEF BINARY, CLOSE, PONG
  <2>5. t \in Seq(Nat) /\ Len(t) = 2 /\ t[1] = a /\ t[2] = b
    BY <2>2
  <2> HIDE DEF x, t
  <2> DEFINE y == 126
  <2>5a. y \in Nat /\ y = 126
    OBVIOUS
  <2> HIDE DEF y
  <2>5b. h = <<x>> \o (<<y>> \o t)
    BY <2>3, <2>5a DEF x, t
  <2>5c. /\ Len(h) = 2 + Len(t) /\ h[1] = x /\ h[2] = y
         /\ \A j \in 1..Len(t) : SubSeq(h, 3, 2 + Len(t))[j] = t[j]
    <3>1. x \in Nat /\ y \in Nat /\ t \in Seq(Nat)
      BY <2>4, <2>5, <2>5a
    <3> QED
      BY <2>5b, <3>1, TwoThen, SMT
  <2>6. /\ Len(h) = 4 /\ h[1] = 128 + op /\ h[2] = 126
        /\ SubSeq(h, 3, 4)[1] = a /\ SubSeq(h, 3, 4)[2] = b
    BY <2>5, <2>5a, <2>5c DEF x
  <2>7. sockify_read_be16(SubSeq(h, 3, 4)) = n
    BY <2>2, <2>6 DEF sockify_read_be16
  <2>8. n >= 126
    BY <1>3, <1>5
  <2> QED
    BY <1>2, <2>6, <2>7, <2>8 DEF WrittenReads
<1>6. CASE n > 65535
  <2>1. h = <<128 + op>> \o (<<127>> \o sockify_write_be64(n))
    BY <1>3, <1>6, SMT DEF WriteHead
  <2> DEFINE a == Octet3(n)
             b == Octet2(n)
             c == Octet1(n)
             d == Octet0(n)
  <2>2. /\ a \in 0..127 /\ b \in 0..255 /\ c \in 0..255 /\ d \in 0..255
        /\ n = (16777216 * a) + (65536 * b) + (256 * c) + d
    BY Split64
  <2>3. h = <<128 + op>> \o (<<127>> \o <<0, 0, 0, 0, a, b, c, d>>)
    BY <2>1 DEF sockify_write_be64, Octet3, Octet2, Octet1, Octet0
  <2> HIDE DEF h, a, b, c, d
  <2> DEFINE x == 128 + op
             t == <<0, 0, 0, 0, a, b, c, d>>
             s == SubSeq(h, 3, 10)
  <2>4. x \in Nat
    BY DEF BINARY, CLOSE, PONG
  <2>5. /\ t \in Seq(Nat) /\ Len(t) = 8 /\ t[1] = 0 /\ t[2] = 0 /\ t[3] = 0 /\ t[4] = 0
        /\ t[5] = a /\ t[6] = b /\ t[7] = c /\ t[8] = d
    BY <2>2
  <2> HIDE DEF x, t
  <2> DEFINE y == 127
  <2>5a. y \in Nat /\ y = 127
    OBVIOUS
  <2> HIDE DEF y
  <2>5b. h = <<x>> \o (<<y>> \o t)
    BY <2>3, <2>5a DEF x, t
  <2>5c. /\ Len(h) = 2 + Len(t) /\ h[1] = x /\ h[2] = y
         /\ \A j \in 1..Len(t) : SubSeq(h, 3, 2 + Len(t))[j] = t[j]
    <3>1. x \in Nat /\ y \in Nat /\ t \in Seq(Nat)
      BY <2>4, <2>5, <2>5a
    <3> QED
      BY <2>5b, <3>1, TwoThen, SMT
  <2>6. /\ Len(h) = 10 /\ h[1] = 128 + op /\ h[2] = 127
        /\ s[1] = 0 /\ s[2] = 0 /\ s[3] = 0 /\ s[4] = 0
        /\ s[5] = a /\ s[6] = b /\ s[7] = c /\ s[8] = d
    BY <2>5, <2>5a, <2>5c DEF x
  <2> HIDE DEF s
  <2>7. sockify_read_be64(s) = n
    BY <2>2, <2>6, SMT DEF sockify_read_be64
  <2>8. n >= 65536
    BY <1>3, <1>6, SMT
  <2> QED
    BY <1>2, <2>6, <2>7, <2>8, SMT DEF WrittenReads, s
<1> QED
  BY <1>3, <1>4, <1>5, <1>6, SMT

-----------------------------------------------------------------------------
(* The theorems.                                                           *)

\* A request is answered or refused as soon as its empty line is there and not
\* before, however the reads cut it, with its last key answered, and the frames
\* behind it start where it ends (session_handle_handshake_bytes and
\* sockify_ws_build_handshake_response).
THEOREM WsRequestExactly == Spec => []RequestExactly
<1>1. WsInv => RequestExactly
  BY DEF WsInv
<1> QED
  BY <1>1, WsAlways, PTL

\* What sockify_ws_parser_feed delivers is what the client's frames say,
\* unmasked, in order and nothing else, however reads and small buffers cut the
\* stream; once all is used nothing is missing.
THEOREM WsDecodedExactly == Spec => []DecodedExactly
  BY InvDecodes, WsAlways, PTL

\* sockify_ws_parser_feed refuses the stream at the first frame that breaks a
\* framing rule of RFC 6455, before any of its payload is looked at, and the checks of
\* reset_frame never find anything more.
THEOREM WsRefusedExactly == Spec => []RefusedExactly
  BY InvRefuses, WsAlways, PTL

\* A caller of sockify_ws_parser_feed with room for 125 bytes is never refused for
\* want of it, and one with less only in a control frame that breaks no rule: a
\* data frame of any length passes through a buffer of any size.
THEOREM WsRoomSuffices == Spec => []RoomSuffices
  BY InvOverflows, WsAlways, PTL

\* A client reads the opcode and the length of every frame sockify_ws_write_frame
\* writes, the length in its smallest form.
THEOREM WsWrittenReads == Spec => []WrittenReads
  BY InvWritten, WsAlways, PTL
=============================================================================
