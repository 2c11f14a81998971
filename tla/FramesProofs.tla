---------------------------- MODULE FramesProofs ----------------------------
(***************************************************************************)
(* Proofs about Frames, for any ids, devices, contents, replies and damage *)
(* to up to 16 neighbouring bits.                                          *)
(*                                                                         *)
(* The checksum is reasoned about from facts on its table, for which the   *)
(* provers go through the 256 entries:                                     *)
(*   - no two entries have the same low byte, so that a step of the        *)
(*     checksum can be undone, and the entries of bits that stand at the   *)
(*     two ends of a burst differ: lines that differ in one burst have     *)
(*     different checksums however they go on (ThreeSteps, CrcSeesBurst);  *)
(*   - entry 0 is 0, so that the checksum over a frame and its own two     *)
(*     bytes is 0, and stays 0 in the cleared part of line[] (CrcOfCrc,    *)
(*     CrcOfZeros);                                                        *)
(*   - entries 2x and 2x+1 follow from entry x by one bit of the division, *)
(*     so that a step is eight bits of it (StepDivides).                   *)
(* The invariant says that the line of a request on its way is its frame   *)
(* with what follows it, damaged or not (LineInv).                         *)
(***************************************************************************)
EXTENDS Frames, SequenceTheorems, WellFoundedInduction, TLAPS

Byte == {n \in Nat : n < 256}
Word == {n \in Nat : n < 65536}

-----------------------------------------------------------------------------
(* Xor.  It is shown to work on each of the two bytes of a word, and the   *)
(* bytes are taken bit by bit.                                             *)

Powers == {1, 2, 4, 8, 16, 32, 64, 128}

Bit(x, n) == (x \div n) % 2

\* Xor of two bytes.
XorByte(a, b) ==
  LET bit(n) == n * ((b \div n + a \div n) % 2)
  IN  bit(1) + bit(2) + bit(4) + bit(8) + bit(16) + bit(32) + bit(64) + bit(128)

\* A byte that is moved up by a bit, and e below it.
Up(x, e) == ((2 * x) % 256) + e

\* A word is made of its two bytes.
LEMMA BytesOf ==
  ASSUME NEW x \in Word
  PROVE  x \div 256 \in Byte /\ x % 256 \in Byte /\ x = 256 * (x \div 256) + (x % 256)
<1>1. x \div 256 \in Byte
  BY DEF Word, Byte
<1>2. x % 256 \in Byte
  BY DEF Word, Byte
<1>3. x = 256 * (x \div 256) + (x % 256)
  BY DEF Word
<1> QED BY <1>1, <1>2, <1>3

\* A higher byte does not change the bits of the lower one.
LEMMA LowBits ==
  ASSUME NEW x \in Word
  PROVE  /\ (x \div 1) % 2 = ((x % 256) \div 1) % 2
         /\ (x \div 2) % 2 = ((x % 256) \div 2) % 2
         /\ (x \div 4) % 2 = ((x % 256) \div 4) % 2
         /\ (x \div 8) % 2 = ((x % 256) \div 8) % 2
         /\ (x \div 16) % 2 = ((x % 256) \div 16) % 2
         /\ (x \div 32) % 2 = ((x % 256) \div 32) % 2
         /\ (x \div 64) % 2 = ((x % 256) \div 64) % 2
         /\ (x \div 128) % 2 = ((x % 256) \div 128) % 2
<1> DEFINE q == x \div 256
           r == x % 256
<1>1. q \in Nat /\ r \in Nat /\ r < 256 /\ x = 256 * q + r
  BY DEF Word
<1> HIDE DEF q, r
<1>2. /\ x \div 1 = 2 * (128 * q) + r \div 1
      /\ x \div 2 = 2 * (64 * q) + r \div 2
      /\ x \div 4 = 2 * (32 * q) + r \div 4
      /\ x \div 8 = 2 * (16 * q) + r \div 8
      /\ x \div 16 = 2 * (8 * q) + r \div 16
      /\ x \div 32 = 2 * (4 * q) + r \div 32
      /\ x \div 64 = 2 * (2 * q) + r \div 64
      /\ x \div 128 = 2 * q + r \div 128
  BY <1>1
<1>3. \A y, z \in Nat : (2 * y + z) % 2 = z % 2
  OBVIOUS
<1>4. /\ (x \div 1) % 2 = (r \div 1) % 2
      /\ (x \div 2) % 2 = (r \div 2) % 2
      /\ (x \div 4) % 2 = (r \div 4) % 2
      /\ (x \div 8) % 2 = (r \div 8) % 2
      /\ (x \div 16) % 2 = (r \div 16) % 2
      /\ (x \div 32) % 2 = (r \div 32) % 2
      /\ (x \div 64) % 2 = (r \div 64) % 2
      /\ (x \div 128) % 2 = (r \div 128) % 2
  BY <1>1, <1>2, <1>3
<1> QED BY <1>4 DEF r

\* The bits of a byte that was moved up by one.
LEMMA BitsOfUp ==
  ASSUME NEW a \in Byte, NEW c \in {0, 1}
  PROVE  /\ Up(a, c) \in Byte
         /\ Bit(Up(a, c), 1) = c
         /\ Bit(Up(a, c), 2) = Bit(a, 1)
         /\ Bit(Up(a, c), 4) = Bit(a, 2)
         /\ Bit(Up(a, c), 8) = Bit(a, 4)
         /\ Bit(Up(a, c), 16) = Bit(a, 8)
         /\ Bit(Up(a, c), 32) = Bit(a, 16)
         /\ Bit(Up(a, c), 64) = Bit(a, 32)
         /\ Bit(Up(a, c), 128) = Bit(a, 64)
<1> DEFINE q == a \div 128
           r == a % 128
<1>1. q \in {0, 1} /\ r \in Nat /\ r < 128 /\ a = 128 * q + r
  BY DEF Byte
<1>2. Up(a, c) = 2 * r + c /\ 2 * r + c \in Byte
  BY <1>1 DEF Up, Byte
<1> HIDE DEF q, r
<1>3. /\ (2 * r + c) \div 2 = r \div 1
      /\ (2 * r + c) \div 4 = r \div 2
      /\ (2 * r + c) \div 8 = r \div 4
      /\ (2 * r + c) \div 16 = r \div 8
      /\ (2 * r + c) \div 32 = r \div 16
      /\ (2 * r + c) \div 64 = r \div 32
      /\ (2 * r + c) \div 128 = r \div 64
  BY <1>1
<1>4. /\ a \div 1 = 2 * (64 * q) + r \div 1
      /\ a \div 2 = 2 * (32 * q) + r \div 2
      /\ a \div 4 = 2 * (16 * q) + r \div 4
      /\ a \div 8 = 2 * (8 * q) + r \div 8
      /\ a \div 16 = 2 * (4 * q) + r \div 16
      /\ a \div 32 = 2 * (2 * q) + r \div 32
      /\ a \div 64 = 2 * q + r \div 64
  BY <1>1
<1>5. \A y, z \in Nat : (2 * y + z) % 2 = z % 2
  OBVIOUS
<1>6. ((2 * r + c) \div 1) % 2 = c
  BY <1>1
<1>7. /\ (a \div 1) % 2 = (r \div 1) % 2 /\ (a \div 2) % 2 = (r \div 2) % 2
      /\ (a \div 4) % 2 = (r \div 4) % 2 /\ (a \div 8) % 2 = (r \div 8) % 2
      /\ (a \div 16) % 2 = (r \div 16) % 2 /\ (a \div 32) % 2 = (r \div 32) % 2
      /\ (a \div 64) % 2 = (r \div 64) % 2
  BY <1>1, <1>4, <1>5
<1> QED BY <1>2, <1>3, <1>6, <1>7 DEF Bit

\* The bits of the higher byte.
LEMMA HighBits ==
  ASSUME NEW x \in Word
  PROVE  /\ (x \div 256) \div 1 = x \div 256 /\ (x \div 256) \div 2 = x \div 512
         /\ (x \div 256) \div 4 = x \div 1024 /\ (x \div 256) \div 8 = x \div 2048
         /\ (x \div 256) \div 16 = x \div 4096 /\ (x \div 256) \div 32 = x \div 8192
         /\ (x \div 256) \div 64 = x \div 16384 /\ (x \div 256) \div 128 = x \div 32768
BY DEF Word

\* What Parity needs of its numbers.
LEMMA Quotient ==
  ASSUME NEW x \in Nat, NEW n \in Powers
  PROVE  x \div n \in Nat
BY DEF Powers

\* The parity of a sum.
LEMMA Parity ==
  ASSUME NEW x \in Nat, NEW y \in Nat, NEW v \in Nat, NEW w \in Nat,
         x % 2 = v % 2, y % 2 = w % 2
  PROVE  (x + y) % 2 = (v + w) % 2
OBVIOUS

\* Xor works on each byte of a word by itself.
LEMMA XorIsByByte ==
  ASSUME NEW a \in Word, NEW b \in Word
  PROVE  Xor(a, b) = 256 * XorByte(a \div 256, b \div 256) + XorByte(a % 256, b % 256)
<1> DEFINE s(n) == (b \div n + a \div n) % 2
           t(n) == ((b \div 256) \div n + (a \div 256) \div n) % 2
           u(n) == ((b % 256) \div n + (a % 256) \div n) % 2
<1>1. /\ s(256) = t(1) /\ s(512) = t(2) /\ s(1024) = t(4) /\ s(2048) = t(8)
      /\ s(4096) = t(16) /\ s(8192) = t(32) /\ s(16384) = t(64) /\ s(32768) = t(128)
  BY HighBits
<1>2. \A n \in Powers : s(n) = u(n)
  <2>1. \A n \in Powers : /\ a \div n \in Nat /\ (a % 256) \div n \in Nat
                          /\ b \div n \in Nat /\ (b % 256) \div n \in Nat
    <3>1. a \in Nat /\ b \in Nat /\ a % 256 \in Nat /\ b % 256 \in Nat
      BY BytesOf DEF Word, Byte
    <3> QED BY <3>1, Quotient
  <2>2. \A n \in Powers : /\ (a \div n) % 2 = ((a % 256) \div n) % 2
                          /\ (b \div n) % 2 = ((b % 256) \div n) % 2
    BY LowBits DEF Powers
  <2> QED BY <2>1, <2>2, Parity
<1>3. \A n \in Powers : t(n) \in Int /\ u(n) \in Int
  <2>1. \A x, y \in Nat : (x + y) % 2 \in Int
    OBVIOUS
  <2>2. a \div 256 \in Nat /\ b \div 256 \in Nat /\ a % 256 \in Nat /\ b % 256 \in Nat
    BY BytesOf DEF Byte
  <2> QED BY <2>1, <2>2, Quotient
<1>4. Xor(a, b) = s(1) + 2 * s(2) + 4 * s(4) + 8 * s(8)
                  + 16 * s(16) + 32 * s(32) + 64 * s(64) + 128 * s(128)
                  + 256 * s(256) + 512 * s(512) + 1024 * s(1024) + 2048 * s(2048)
                  + 4096 * s(4096) + 8192 * s(8192) + 16384 * s(16384) + 32768 * s(32768)
  BY DEF Xor, Word
<1>5. /\ XorByte(a \div 256, b \div 256)
           = t(1) + 2 * t(2) + 4 * t(4) + 8 * t(8) + 16 * t(16) + 32 * t(32) + 64 * t(64)
             + 128 * t(128)
      /\ XorByte(a % 256, b % 256)
           = u(1) + 2 * u(2) + 4 * u(4) + 8 * u(8) + 16 * u(16) + 32 * u(32) + 64 * u(64)
             + 128 * u(128)
  BY DEF XorByte, Word
<1> HIDE DEF s, t, u
<1> QED BY <1>1, <1>2, <1>3, <1>4, <1>5 DEF Powers

\* The Xor of bytes is a byte.
LEMMA ByteRange ==
  ASSUME NEW a \in Byte, NEW b \in Byte
  PROVE  XorByte(a, b) \in Byte
BY DEF XorByte, Byte

\* 0 leaves a byte alone, and a byte takes itself away.
LEMMA ByteZero ==
  ASSUME NEW a \in Byte
  PROVE  XorByte(a, 0) = a /\ XorByte(0, a) = a /\ XorByte(a, a) = 0
BY DEF XorByte, Byte

\* The sum of bits has these bits.
LEMMA BitsOfSum ==
  ASSUME NEW b0 \in {0, 1}, NEW b1 \in {0, 1}, NEW b2 \in {0, 1}, NEW b3 \in {0, 1},
         NEW b4 \in {0, 1}, NEW b5 \in {0, 1}, NEW b6 \in {0, 1}, NEW b7 \in {0, 1},
         NEW x, x = b0 + 2 * b1 + 4 * b2 + 8 * b3 + 16 * b4 + 32 * b5 + 64 * b6 + 128 * b7
  PROVE  /\ Bit(x, 1) = b0 /\ Bit(x, 2) = b1 /\ Bit(x, 4) = b2 /\ Bit(x, 8) = b3
         /\ Bit(x, 16) = b4 /\ Bit(x, 32) = b5 /\ Bit(x, 64) = b6 /\ Bit(x, 128) = b7
<1>1. Bit(x, 1) = b0
  BY DEF Bit
<1>2. Bit(x, 2) = b1
  BY DEF Bit
<1>3. Bit(x, 4) = b2
  BY DEF Bit
<1>4. Bit(x, 8) = b3
  BY DEF Bit
<1>5. Bit(x, 16) = b4
  BY DEF Bit
<1>6. Bit(x, 32) = b5
  BY DEF Bit
<1>7. Bit(x, 64) = b6
  BY DEF Bit
<1>8. Bit(x, 128) = b7
  BY DEF Bit
<1> QED BY <1>1, <1>2, <1>3, <1>4, <1>5, <1>6, <1>7, <1>8

\* Each bit is the sum of the two, modulo 2.
LEMMA ByteBit ==
  ASSUME NEW a \in Byte, NEW b \in Byte, NEW n \in Powers
  PROVE  Bit(XorByte(a, b), n) = (Bit(a, n) + Bit(b, n)) % 2
<1> DEFINE t(m) == (b \div m + a \div m) % 2
<1>1. \A m \in Powers : t(m) \in {0, 1}
  BY DEF Powers, Byte
<1>2. XorByte(a, b) = t(1) + 2 * t(2) + 4 * t(4) + 8 * t(8) + 16 * t(16) + 32 * t(32)
                      + 64 * t(64) + 128 * t(128)
  BY DEF XorByte, Byte
<1>3. t(n) = (Bit(a, n) + Bit(b, n)) % 2
  <2>1. a \div n \in Nat /\ b \div n \in Nat
    BY DEF Powers, Byte
  <2> QED BY <2>1 DEF Bit
<1>4. Bit(XorByte(a, b), n) = t(n)
  <2>1. \A m \in Powers : Bit(XorByte(a, b), m) = t(m)
    <3> HIDE DEF t
    <3> QED BY <1>1, <1>2, BitsOfSum DEF Powers
  <2> QED BY <2>1
<1> QED BY <1>3, <1>4

\* A bit is 0 or 1.
LEMMA BitIsBit ==
  ASSUME NEW a \in Byte, NEW n \in Powers
  PROVE  Bit(a, n) \in {0, 1}
BY DEF Bit, Byte, Powers

\* A byte is known by its bits.
LEMMA SameByte ==
  ASSUME NEW a \in Byte, NEW b \in Byte, \A n \in Powers : Bit(a, n) = Bit(b, n)
  PROVE  a = b
<1>1. \A x \in Byte : x = Bit(x, 1) + 2 * Bit(x, 2) + 4 * Bit(x, 4) + 8 * Bit(x, 8)
                          + 16 * Bit(x, 16) + 32 * Bit(x, 32) + 64 * Bit(x, 64)
                          + 128 * Bit(x, 128)
  BY DEF Bit, Byte
<1> QED BY <1>1 DEF Powers

\* XorByte is associative: each of its bits is.
LEMMA ByteAssociates ==
  ASSUME NEW a \in Byte, NEW b \in Byte, NEW c \in Byte
  PROVE  XorByte(XorByte(a, b), c) = XorByte(a, XorByte(b, c))
<1>1. ASSUME NEW n \in Powers
      PROVE  Bit(XorByte(XorByte(a, b), c), n) = Bit(XorByte(a, XorByte(b, c)), n)
  <2>1. XorByte(a, b) \in Byte /\ XorByte(b, c) \in Byte
    BY ByteRange
  <2>2. /\ Bit(XorByte(a, b), n) = (Bit(a, n) + Bit(b, n)) % 2
        /\ Bit(XorByte(b, c), n) = (Bit(b, n) + Bit(c, n)) % 2
    BY ByteBit
  <2>3. /\ Bit(XorByte(XorByte(a, b), c), n) = (Bit(XorByte(a, b), n) + Bit(c, n)) % 2
        /\ Bit(XorByte(a, XorByte(b, c)), n) = (Bit(a, n) + Bit(XorByte(b, c), n)) % 2
    BY <2>1, ByteBit
  <2>4. /\ Bit(a, n) \in {0, 1} /\ Bit(b, n) \in {0, 1} /\ Bit(c, n) \in {0, 1}
    BY BitIsBit
  <2> QED BY <2>2, <2>3, <2>4
<1> QED BY <1>1, SameByte, ByteRange

\* XorByte is commutative.
LEMMA ByteCommutes ==
  ASSUME NEW a \in Byte, NEW b \in Byte
  PROVE  XorByte(a, b) = XorByte(b, a)
BY DEF XorByte, Byte

\* Moving up distributes over XorByte.
LEMMA UpDistributes ==
  ASSUME NEW a \in Byte, NEW b \in Byte, NEW c \in {0, 1}, NEW d \in {0, 1}
  PROVE  XorByte(Up(a, c), Up(b, d)) = Up(XorByte(a, b), (c + d) % 2)
<1> DEFINE v == Up(a, c)
           w == Up(b, d)
           x == XorByte(a, b)
           e == (c + d) % 2
           y == Up(x, e)
<1>1. x \in Byte /\ e \in {0, 1}
  BY ByteRange
<1>2. /\ v \in Byte /\ Bit(v, 1) = c /\ Bit(v, 2) = Bit(a, 1) /\ Bit(v, 4) = Bit(a, 2)
      /\ Bit(v, 8) = Bit(a, 4) /\ Bit(v, 16) = Bit(a, 8) /\ Bit(v, 32) = Bit(a, 16)
      /\ Bit(v, 64) = Bit(a, 32) /\ Bit(v, 128) = Bit(a, 64)
  BY BitsOfUp
<1>3. /\ w \in Byte /\ Bit(w, 1) = d /\ Bit(w, 2) = Bit(b, 1) /\ Bit(w, 4) = Bit(b, 2)
      /\ Bit(w, 8) = Bit(b, 4) /\ Bit(w, 16) = Bit(b, 8) /\ Bit(w, 32) = Bit(b, 16)
      /\ Bit(w, 64) = Bit(b, 32) /\ Bit(w, 128) = Bit(b, 64)
  BY BitsOfUp
<1>4. /\ y \in Byte /\ Bit(y, 1) = e /\ Bit(y, 2) = Bit(x, 1) /\ Bit(y, 4) = Bit(x, 2)
      /\ Bit(y, 8) = Bit(x, 4) /\ Bit(y, 16) = Bit(x, 8) /\ Bit(y, 32) = Bit(x, 16)
      /\ Bit(y, 64) = Bit(x, 32) /\ Bit(y, 128) = Bit(x, 64)
  <2> HIDE DEF x, e
  <2> QED BY <1>1, BitsOfUp
<1>5. \A n \in Powers : Bit(x, n) = (Bit(a, n) + Bit(b, n)) % 2
  BY ByteBit
<1>6. e = (c + d) % 2
  OBVIOUS
<1> HIDE DEF v, w, x, y, e
<1>7. \A n \in Powers : Bit(XorByte(v, w), n) = (Bit(v, n) + Bit(w, n)) % 2
  BY <1>2, <1>3, ByteBit
<1>8. \A n \in Powers : Bit(XorByte(v, w), n) = Bit(y, n)
  BY <1>2, <1>3, <1>4, <1>5, <1>6, <1>7 DEF Powers
<1>9. XorByte(v, w) = y
  BY <1>2, <1>3, <1>4, <1>8, SameByte, ByteRange
<1> QED BY <1>9 DEF v, w, x, y, e

\* The highest bit of a byte.
LEMMA ByteTop ==
  ASSUME NEW a \in Byte, NEW b \in Byte
  PROVE  XorByte(a, b) \div 128 = (a \div 128 + b \div 128) % 2
<1>1. \A x \in Byte : x \div 128 \in {0, 1} /\ Bit(x, 128) = x \div 128
  BY DEF Byte, Bit
<1> QED BY <1>1, ByteBit, ByteRange DEF Powers

\* The two bytes of a Xor.
LEMMA XorBytes ==
  ASSUME NEW a \in Word, NEW b \in Word
  PROVE  /\ Xor(a, b) \in Word
         /\ Xor(a, b) \div 256 = XorByte(a \div 256, b \div 256)
         /\ Xor(a, b) % 256 = XorByte(a % 256, b % 256)
<1> DEFINE high == XorByte(a \div 256, b \div 256)
           low  == XorByte(a % 256, b % 256)
<1>1. high \in Byte /\ low \in Byte
  BY BytesOf, ByteRange
<1>2. Xor(a, b) = 256 * high + low
  BY XorIsByByte
<1> HIDE DEF high, low
<1>3. /\ 256 * high + low \in Word
      /\ (256 * high + low) \div 256 = high /\ (256 * high + low) % 256 = low
  BY <1>1 DEF Byte, Word
<1> QED BY <1>2, <1>3 DEF high, low

\* A word is known by its bytes.
LEMMA SameWord ==
  ASSUME NEW a \in Word, NEW b \in Word, a \div 256 = b \div 256, a % 256 = b % 256
  PROVE  a = b
BY BytesOf

\* On bytes the two agree.
LEMMA XorOfBytes ==
  ASSUME NEW a \in Byte, NEW b \in Byte
  PROVE  Xor(a, b) = XorByte(a, b) /\ Xor(a, b) \in Byte
<1>1. a \in Word /\ b \in Word /\ 0 \in Byte
  BY DEF Word, Byte
<1>2. a \div 256 = 0 /\ b \div 256 = 0 /\ a % 256 = a /\ b % 256 = b
  BY DEF Byte
<1>3. Xor(a, b) = 256 * 0 + XorByte(a, b)
  BY <1>1, <1>2, XorIsByByte, ByteZero
<1> QED BY <1>3, ByteRange DEF Byte

\* Xor is commutative.
LEMMA XorCommutes ==
  ASSUME NEW a \in Word, NEW b \in Word
  PROVE  Xor(a, b) = Xor(b, a)
<1>1. /\ a \div 256 \in Byte /\ b \div 256 \in Byte
      /\ a % 256 \in Byte /\ b % 256 \in Byte
  BY BytesOf
<1>2. /\ Xor(a, b) \div 256 = Xor(b, a) \div 256
      /\ Xor(a, b) % 256 = Xor(b, a) % 256
  BY <1>1, XorBytes, ByteCommutes
<1> QED BY <1>2, XorBytes, SameWord

\* Xor is associative.
LEMMA XorAssociates ==
  ASSUME NEW a \in Word, NEW b \in Word, NEW c \in Word
  PROVE  Xor(Xor(a, b), c) = Xor(a, Xor(b, c))
<1>1. /\ a \div 256 \in Byte /\ b \div 256 \in Byte /\ c \div 256 \in Byte
      /\ a % 256 \in Byte /\ b % 256 \in Byte /\ c % 256 \in Byte
  BY BytesOf
<1>2. /\ Xor(a, b) \in Word
      /\ Xor(a, b) \div 256 = XorByte(a \div 256, b \div 256)
      /\ Xor(a, b) % 256 = XorByte(a % 256, b % 256)
  BY XorBytes
<1>3. /\ Xor(b, c) \in Word
      /\ Xor(b, c) \div 256 = XorByte(b \div 256, c \div 256)
      /\ Xor(b, c) % 256 = XorByte(b % 256, c % 256)
  BY XorBytes
<1>4. /\ Xor(Xor(a, b), c) \in Word
      /\ Xor(Xor(a, b), c) \div 256 = XorByte(XorByte(a \div 256, b \div 256), c \div 256)
      /\ Xor(Xor(a, b), c) % 256 = XorByte(XorByte(a % 256, b % 256), c % 256)
  BY <1>2, XorBytes
<1>5. /\ Xor(a, Xor(b, c)) \in Word
      /\ Xor(a, Xor(b, c)) \div 256 = XorByte(a \div 256, XorByte(b \div 256, c \div 256))
      /\ Xor(a, Xor(b, c)) % 256 = XorByte(a % 256, XorByte(b % 256, c % 256))
  BY <1>3, XorBytes
<1>6. /\ Xor(Xor(a, b), c) \div 256 = Xor(a, Xor(b, c)) \div 256
      /\ Xor(Xor(a, b), c) % 256 = Xor(a, Xor(b, c)) % 256
  BY <1>1, <1>4, <1>5, ByteAssociates
<1> QED BY <1>4, <1>5, <1>6, SameWord

\* 0 leaves a word alone, and a word takes itself away.
LEMMA XorZero ==
  ASSUME NEW a \in Word
  PROVE  Xor(a, 0) = a /\ Xor(0, a) = a /\ Xor(a, a) = 0
<1>1. a \div 256 \in Byte /\ a % 256 \in Byte /\ a = 256 * (a \div 256) + (a % 256)
  BY BytesOf
<1>2. 0 \in Word /\ 0 \div 256 = 0 /\ 0 % 256 = 0 /\ 256 * 0 + 0 = 0
  BY DEF Word
<1>3. /\ Xor(a, 0) = 256 * (a \div 256) + (a % 256)
      /\ Xor(0, a) = 256 * (a \div 256) + (a % 256)
      /\ Xor(a, a) = 256 * 0 + 0
  BY <1>1, <1>2, XorIsByByte, ByteZero
<1> QED BY <1>1, <1>2, <1>3

\* What is not changed by the same word is the same.
LEMMA XorCancels ==
  ASSUME NEW a \in Word, NEW b \in Word, NEW c \in Word, Xor(a, b) = Xor(a, c)
  PROVE  b = c
<1>1. Xor(a, Xor(a, b)) = b /\ Xor(a, Xor(a, c)) = c
  BY XorAssociates, XorZero
<1> QED BY <1>1

\* Moving up by a bit distributes over Xor.
LEMMA XorDoubles ==
  ASSUME NEW a \in Word, NEW b \in Word
  PROVE  Xor((2 * a) % 65536, (2 * b) % 65536) = (2 * Xor(a, b)) % 65536
<1> DEFINE Twice(h, l) == 256 * Up(h, l \div 128) + Up(l, 0)
<1>1. ASSUME NEW x \in Word
      PROVE  /\ (2 * x) % 65536 \in Word
             /\ ((2 * x) % 65536) \div 256 = Up(x \div 256, (x % 256) \div 128)
             /\ ((2 * x) % 65536) % 256 = Up(x % 256, 0)
  <2> DEFINE h == x \div 256
             l == x % 256
             q == h \div 128
             r == h % 128
             c == l \div 128
             s == l % 128
  <2>1. h \in Byte /\ l \in Byte /\ x = 256 * h + l
    BY BytesOf
  <2>2. q \in {0, 1} /\ r \in Nat /\ r < 128 /\ h = 128 * q + r
    <3> HIDE DEF h
    <3> QED BY <2>1 DEF Byte
  <2>3. c \in {0, 1} /\ s \in Nat /\ s < 128 /\ l = 128 * c + s
    <3> HIDE DEF l
    <3> QED BY <2>1 DEF Byte
  <2>4. Up(h, c) = 2 * r + c /\ Up(l, 0) = 2 * s
    <3> HIDE DEF h, l, q, r, c, s
    <3> QED BY <2>2, <2>3 DEF Up
  <2> HIDE DEF h, l, q, r, c, s
  <2>5. (2 * x) % 65536 = 256 * (2 * r + c) + 2 * s
    BY <2>1, <2>2, <2>3
  <2>6. LET y == 256 * (2 * r + c) + 2 * s IN
        y \in Word /\ y \div 256 = 2 * r + c /\ y % 256 = 2 * s
    BY <2>2, <2>3 DEF Word
  <2> QED BY <2>4, <2>5, <2>6 DEF h, l, c
<1>2. /\ a \div 256 \in Byte /\ b \div 256 \in Byte /\ a % 256 \in Byte /\ b % 256 \in Byte
      /\ Xor(a, b) \in Word
      /\ Xor(a, b) \div 256 = XorByte(a \div 256, b \div 256)
      /\ Xor(a, b) % 256 = XorByte(a % 256, b % 256)
  BY BytesOf, XorBytes
<1> DEFINE v == (2 * a) % 65536
           w == (2 * b) % 65536
           z == (2 * Xor(a, b)) % 65536
           c == (a % 256) \div 128
           d == (b % 256) \div 128
<1>3. c \in {0, 1} /\ d \in {0, 1} /\ XorByte(a % 256, b % 256) \div 128 = (c + d) % 2
  <2>1. \A x \in Byte : x \div 128 \in {0, 1}
    BY DEF Byte
  <2> QED BY <1>2, <2>1, ByteTop
<1>4. /\ v \in Word /\ v \div 256 = Up(a \div 256, c) /\ v % 256 = Up(a % 256, 0)
      /\ w \in Word /\ w \div 256 = Up(b \div 256, d) /\ w % 256 = Up(b % 256, 0)
  BY <1>1
<1>5. /\ z \in Word
      /\ z \div 256 = Up(XorByte(a \div 256, b \div 256), (c + d) % 2)
      /\ z % 256 = Up(XorByte(a % 256, b % 256), 0)
  BY <1>1, <1>2, <1>3
<1>6. /\ XorByte(Up(a \div 256, c), Up(b \div 256, d))
           = Up(XorByte(a \div 256, b \div 256), (c + d) % 2)
      /\ XorByte(Up(a % 256, 0), Up(b % 256, 0)) = Up(XorByte(a % 256, b % 256), 0)
  <2>1. (0 + 0) % 2 = 0
    OBVIOUS
  <2> HIDE DEF c, d
  <2> QED BY <1>2, <1>3, <2>1, UpDistributes
<1> HIDE DEF v, w, z, c, d
<1>7. Xor(v, w) \in Word /\ Xor(v, w) \div 256 = z \div 256 /\ Xor(v, w) % 256 = z % 256
  BY <1>4, <1>5, <1>6, XorBytes
<1>8. Xor(v, w) = z
  BY <1>5, <1>7, SameWord
<1> QED BY <1>8 DEF v, w, z

\* The highest bit of a word.
LEMMA XorTop ==
  ASSUME NEW a \in Word, NEW b \in Word
  PROVE  Xor(a, b) >= 32768 <=> ~(a >= 32768 <=> b >= 32768)
<1>1. \A x \in Word : /\ x \div 256 \in Byte
                      /\ x >= 32768 <=> (x \div 256) \div 128 = 1
                      /\ (x \div 256) \div 128 \in {0, 1}
  BY DEF Word, Byte
<1>2. (Xor(a, b) \div 256) \div 128 = ((a \div 256) \div 128 + (b \div 256) \div 128) % 2
  BY <1>1, XorBytes, ByteTop
<1> QED BY <1>1, <1>2, XorBytes

-----------------------------------------------------------------------------
(* The table                                                               *)

\* Entries are words.
LEMMA TableRange ==
  ASSUME NEW x \in Byte
  PROVE  crc16_tab[x + 1] \in Word
<1>1. x \in 0..255
  BY DEF Byte
<1> QED BY <1>1, SMTT(60) DEF crc16_tab, Word

\* The first entry is 0.
LEMMA TableStart == crc16_tab[1] = 0
BY DEF crc16_tab

\* No two entries have the same low byte.
LEMMA TableLow ==
  ASSUME NEW x \in Byte, NEW y \in Byte,
         crc16_tab[x + 1] % 256 = crc16_tab[y + 1] % 256
  PROVE  x = y
<1>1. x \in 0..255 /\ y \in 0..255
  BY DEF Byte
<1> QED BY <1>1, SMTT(60) DEF crc16_tab

\* The low byte of an entry, bit by bit: each is a sum of bits of the index.
LEMMA TableBits ==
  ASSUME NEW x \in Byte
  PROVE  LET low == crc16_tab[x + 1] % 256 IN
         /\ Bit(low, 1) = (Bit(x, 1) + Bit(x, 16)) % 2
         /\ Bit(low, 2) = (Bit(x, 2) + Bit(x, 32)) % 2
         /\ Bit(low, 4) = (Bit(x, 4) + Bit(x, 64)) % 2
         /\ Bit(low, 8) = (Bit(x, 8) + Bit(x, 128)) % 2
         /\ Bit(low, 16) = Bit(x, 16)
         /\ Bit(low, 32) = (Bit(x, 1) + Bit(x, 16) + Bit(x, 32)) % 2
         /\ Bit(low, 64) = (Bit(x, 2) + Bit(x, 32) + Bit(x, 64)) % 2
         /\ Bit(low, 128) = (Bit(x, 4) + Bit(x, 64) + Bit(x, 128)) % 2
<1> DEFINE low == crc16_tab[x + 1] % 256
<1>0. x \in 0..255
  BY DEF Byte
<1>1. Bit(low, 1) = (Bit(x, 1) + Bit(x, 16)) % 2
  BY <1>0, SMTT(60) DEF crc16_tab, Bit
<1>2. Bit(low, 2) = (Bit(x, 2) + Bit(x, 32)) % 2
  BY <1>0, SMTT(60) DEF crc16_tab, Bit
<1>3. Bit(low, 4) = (Bit(x, 4) + Bit(x, 64)) % 2
  BY <1>0, SMTT(60) DEF crc16_tab, Bit
<1>4. Bit(low, 8) = (Bit(x, 8) + Bit(x, 128)) % 2
  BY <1>0, SMTT(60) DEF crc16_tab, Bit
<1>5. Bit(low, 16) = Bit(x, 16)
  BY <1>0, SMTT(60) DEF crc16_tab, Bit
<1>6. Bit(low, 32) = (Bit(x, 1) + Bit(x, 16) + Bit(x, 32)) % 2
  BY <1>0, SMTT(60) DEF crc16_tab, Bit
<1>7. Bit(low, 64) = (Bit(x, 2) + Bit(x, 32) + Bit(x, 64)) % 2
  BY <1>0, SMTT(60) DEF crc16_tab, Bit
<1>8. Bit(low, 128) = (Bit(x, 4) + Bit(x, 64) + Bit(x, 128)) % 2
  BY <1>0, SMTT(60) DEF crc16_tab, Bit
<1> HIDE DEF low
<1> QED BY <1>1, <1>2, <1>3, <1>4, <1>5, <1>6, <1>7, <1>8 DEF low

\* The first of three damaged bytes is below Moduli's number, the last a multiple.
Moduli == {1, 2, 4, 8, 16, 32, 64, 128, 256}

\* A byte below m has no bit from m on, and a multiple of m none below m.
LEMMA BitsOfBurst ==
  ASSUME NEW e \in Byte, NEW m \in Moduli, NEW n \in Powers
  PROVE  /\ e < m /\ m <= n => Bit(e, n) = 0
         /\ e % m = 0 /\ n < m => Bit(e, n) = 0
<1>1. e < m /\ m <= n => Bit(e, n) = 0
  BY DEF Bit, Byte, Moduli, Powers
<1>2. ASSUME e % m = 0, n < m PROVE Bit(e, n) = 0
  <2>1. CASE n = 1
    BY <1>2, <2>1 DEF Bit, Byte, Moduli
  <2>2. CASE n = 2
    BY <1>2, <2>2 DEF Bit, Byte, Moduli
  <2>3. CASE n = 4
    BY <1>2, <2>3 DEF Bit, Byte, Moduli
  <2>4. CASE n = 8
    BY <1>2, <2>4 DEF Bit, Byte, Moduli
  <2>5. CASE n = 16
    BY <1>2, <2>5 DEF Bit, Byte, Moduli
  <2>6. CASE n = 32
    BY <1>2, <2>6 DEF Bit, Byte, Moduli
  <2>7. CASE n = 64
    BY <1>2, <2>7 DEF Bit, Byte, Moduli
  <2>8. CASE n = 128
    BY <1>2, <2>8 DEF Bit, Byte, Moduli
  <2> QED BY <2>1, <2>2, <2>3, <2>4, <2>5, <2>6, <2>7, <2>8 DEF Powers
<1> QED BY <1>1, <1>2

\* Two entries are one when their indexes agree in the bits from m on, and their
\* low bytes in the bits below m.
LEMMA TableBurst ==
  ASSUME NEW x \in Byte, NEW y \in Byte, NEW m \in Moduli,
         \A n \in Powers : m <= n => Bit(x, n) = Bit(y, n),
         \A n \in Powers : n < m => Bit(crc16_tab[x + 1] % 256, n)
                                       = Bit(crc16_tab[y + 1] % 256, n)
  PROVE  x = y
<1> DEFINE v == crc16_tab[x + 1] % 256
           w == crc16_tab[y + 1] % 256
<1>1. /\ Bit(v, 1) = (Bit(x, 1) + Bit(x, 16)) % 2 /\ Bit(v, 2) = (Bit(x, 2) + Bit(x, 32)) % 2
      /\ Bit(v, 4) = (Bit(x, 4) + Bit(x, 64)) % 2 /\ Bit(v, 8) = (Bit(x, 8) + Bit(x, 128)) % 2
      /\ Bit(v, 16) = Bit(x, 16)
      /\ Bit(v, 32) = (Bit(x, 1) + Bit(x, 16) + Bit(x, 32)) % 2
      /\ Bit(v, 64) = (Bit(x, 2) + Bit(x, 32) + Bit(x, 64)) % 2
      /\ Bit(v, 128) = (Bit(x, 4) + Bit(x, 64) + Bit(x, 128)) % 2
  BY TableBits
<1>2. /\ Bit(w, 1) = (Bit(y, 1) + Bit(y, 16)) % 2 /\ Bit(w, 2) = (Bit(y, 2) + Bit(y, 32)) % 2
      /\ Bit(w, 4) = (Bit(y, 4) + Bit(y, 64)) % 2 /\ Bit(w, 8) = (Bit(y, 8) + Bit(y, 128)) % 2
      /\ Bit(w, 16) = Bit(y, 16)
      /\ Bit(w, 32) = (Bit(y, 1) + Bit(y, 16) + Bit(y, 32)) % 2
      /\ Bit(w, 64) = (Bit(y, 2) + Bit(y, 32) + Bit(y, 64)) % 2
      /\ Bit(w, 128) = (Bit(y, 4) + Bit(y, 64) + Bit(y, 128)) % 2
  BY TableBits
<1>3. \A n \in Powers : Bit(x, n) \in {0, 1} /\ Bit(y, n) \in {0, 1}
  BY BitIsBit
<1>4. /\ \A n \in Powers : m <= n => Bit(x, n) = Bit(y, n)
      /\ \A n \in Powers : n < m => Bit(v, n) = Bit(w, n)
  OBVIOUS
<1>5. \A a, b, c, d \in {0, 1} : (a + c) % 2 = (b + d) % 2 /\ c = d => a = b
  OBVIOUS
<1>6. \A a, b, c, d, e, f \in {0, 1} :
        (a + c + e) % 2 = (b + d + f) % 2 /\ a = b /\ c = d => e = f
  OBVIOUS
<1> HIDE DEF v, w
<1>7. \/ m \in {1, 2, 4, 8, 16} \/ m \in {32, 64, 128, 256}
  BY DEF Moduli
<1>8. Bit(x, 16) = Bit(y, 16)
  BY <1>1, <1>2, <1>4, <1>7 DEF Powers
<1>9. Bit(x, 1) = Bit(y, 1)
  BY <1>1, <1>2, <1>3, <1>4, <1>5, <1>7, <1>8 DEF Powers
<1>10. Bit(x, 32) = Bit(y, 32)
  <2>1. m <= 32 \/ Bit(v, 32) = Bit(w, 32)
    BY <1>4, <1>7 DEF Powers
  <2> QED BY <1>1, <1>2, <1>3, <1>4, <1>6, <1>8, <1>9, <2>1 DEF Powers
<1>11. Bit(x, 2) = Bit(y, 2)
  <2>1. m <= 2 \/ Bit(v, 2) = Bit(w, 2)
    BY <1>4, <1>7 DEF Powers
  <2> QED BY <1>1, <1>2, <1>3, <1>4, <1>5, <1>10, <2>1 DEF Powers
<1>12. Bit(x, 64) = Bit(y, 64)
  <2>1. m <= 64 \/ Bit(v, 64) = Bit(w, 64)
    BY <1>4, <1>7 DEF Powers
  <2> QED BY <1>1, <1>2, <1>3, <1>4, <1>6, <1>10, <1>11, <2>1 DEF Powers
<1>13. Bit(x, 4) = Bit(y, 4)
  <2>1. m <= 4 \/ Bit(v, 4) = Bit(w, 4)
    BY <1>4, <1>7 DEF Powers
  <2> QED BY <1>1, <1>2, <1>3, <1>4, <1>5, <1>12, <2>1 DEF Powers
<1>14. Bit(x, 128) = Bit(y, 128)
  <2>1. m <= 128 \/ Bit(v, 128) = Bit(w, 128)
    BY <1>4, <1>7 DEF Powers
  <2> QED BY <1>1, <1>2, <1>3, <1>4, <1>6, <1>12, <1>13, <2>1 DEF Powers
<1>15. Bit(x, 8) = Bit(y, 8)
  <2>1. m <= 8 \/ Bit(v, 8) = Bit(w, 8)
    BY <1>4, <1>7 DEF Powers
  <2> QED BY <1>1, <1>2, <1>3, <1>4, <1>5, <1>14, <2>1 DEF Powers
<1>16. \A n \in Powers : Bit(x, n) = Bit(y, n)
  BY <1>8, <1>9, <1>10, <1>11, <1>12, <1>13, <1>14, <1>15 DEF Powers
<1> QED BY <1>16, SameByte

\* Entries 2x and 2x + 1 follow from entry x.
LEMMA TableDoubles ==
  ASSUME NEW x \in 0..127
  PROVE  /\ crc16_tab[2 * x + 1] = Shift(crc16_tab[x + 1])
         /\ crc16_tab[2 * x + 2] = Xor(crc16_tab[2 * x + 1], \h1021)
<1>1. crc16_tab[2 * x + 1] = Shift(crc16_tab[x + 1])
  BY SMTT(60) DEF crc16_tab, Shift, Xor
<1>2. crc16_tab[2 * x + 2] = Xor(crc16_tab[2 * x + 1], \h1021)
  BY SMTT(60) DEF crc16_tab, Xor
<1> QED BY <1>1, <1>2

-----------------------------------------------------------------------------
(* One step of the checksum                                                *)

\* The two ways to write the set of bytes.
LEMMA ByteIs == Byte = 0..255
BY DEF Byte

\* A step yields the low byte of the entry, and its high byte with the low byte before.
LEMMA StepBytes ==
  ASSUME NEW c \in Word, NEW b \in Byte
  PROVE  LET entry == crc16_tab[Xor(c \div 256, b) + 1] IN
         /\ entry \in Word
         /\ CrcStep(c, b) \in Word
         /\ CrcStep(c, b) \div 256 = XorByte(entry \div 256, c % 256)
         /\ CrcStep(c, b) % 256 = entry % 256
<1> DEFINE entry == crc16_tab[Xor(c \div 256, b) + 1]
           up    == (c * 256) % 65536
<1>1. c \div 256 \in Byte /\ c % 256 \in Byte /\ c = 256 * (c \div 256) + (c % 256)
  BY BytesOf
<1>2. entry \in Word
  <2> DEFINE x == Xor(c \div 256, b)
  <2>1. x \in Byte
    BY <1>1, XorOfBytes
  <2> HIDE DEF x
  <2>2. crc16_tab[x + 1] \in Word
    BY <2>1, TableRange
  <2> QED BY <2>2 DEF x
<1>3. up \in Word /\ up \div 256 = c % 256 /\ up % 256 = 0
  <2> DEFINE h == c \div 256
             l == c % 256
  <2> HIDE DEF h, l
  <2>1. h \in Byte /\ l \in Byte /\ c = 256 * h + l
    BY <1>1 DEF h, l
  <2>2. up = 256 * l
    BY <2>1 DEF Byte
  <2>3. 256 * l \in Word /\ (256 * l) \div 256 = l /\ (256 * l) % 256 = 0
    BY <2>1 DEF Byte, Word
  <2> QED BY <2>2, <2>3 DEF l
<1>4. CrcStep(c, b) = Xor(entry, up)
  BY DEF CrcStep
<1> HIDE DEF entry, up
<1>5. entry % 256 \in Byte
  BY <1>2, BytesOf
<1>6. /\ CrcStep(c, b) \in Word
      /\ CrcStep(c, b) \div 256 = XorByte(entry \div 256, c % 256)
      /\ CrcStep(c, b) % 256 = entry % 256
  BY <1>2, <1>3, <1>4, <1>5, XorBytes, ByteZero
<1> QED BY <1>2, <1>6 DEF entry

\* Two steps that end alike used the same entry and began with the same low byte.
LEMMA StepInjective ==
  ASSUME NEW c \in Word, NEW d \in Word, NEW a \in Byte, NEW b \in Byte,
         CrcStep(c, a) = CrcStep(d, b)
  PROVE  Xor(c \div 256, a) = Xor(d \div 256, b) /\ c % 256 = d % 256
<1> DEFINE x == Xor(c \div 256, a)
           y == Xor(d \div 256, b)
           v == crc16_tab[x + 1]
           w == crc16_tab[y + 1]
<1>1. /\ c \div 256 \in Byte /\ d \div 256 \in Byte /\ c % 256 \in Byte /\ d % 256 \in Byte
  BY BytesOf
<1>2. x \in Byte /\ y \in Byte
  BY <1>1, XorOfBytes
<1>3. /\ v \in Word /\ CrcStep(c, a) \div 256 = XorByte(v \div 256, c % 256)
      /\ CrcStep(c, a) % 256 = v % 256
  BY StepBytes
<1>4. /\ w \in Word /\ CrcStep(d, b) \div 256 = XorByte(w \div 256, d % 256)
      /\ CrcStep(d, b) % 256 = w % 256
  BY StepBytes
<1>5. x = y
  <2>1. crc16_tab[x + 1] % 256 = crc16_tab[y + 1] % 256
    BY <1>3, <1>4
  <2> HIDE DEF x, y
  <2> QED BY <1>2, <2>1, TableLow
<1>6. XorByte(v \div 256, c % 256) = XorByte(v \div 256, d % 256) /\ v \div 256 \in Byte
  BY <1>3, <1>4, <1>5, BytesOf
<1>7. c % 256 = d % 256
  <2> DEFINE h == v \div 256
             k == c % 256
             l == d % 256
  <2>1. h \in Byte /\ k \in Byte /\ l \in Byte /\ XorByte(h, k) = XorByte(h, l)
    BY <1>1, <1>6
  <2> HIDE DEF h, k, l
  <2>2. Xor(h, k) = Xor(h, l) /\ h \in Word /\ k \in Word /\ l \in Word
    BY <2>1, XorOfBytes DEF Byte, Word
  <2>3. k = l
    BY <2>2, XorCancels
  <2> QED BY <2>3 DEF k, l
<1> QED BY <1>5, <1>7

\* From the same checksum two bytes lead to where only they lead.
LEMMA TwoSteps ==
  ASSUME NEW c \in Word, NEW a1 \in Byte, NEW a2 \in Byte, NEW b1 \in Byte, NEW b2 \in Byte,
         CrcStep(CrcStep(c, a1), a2) = CrcStep(CrcStep(c, b1), b2)
  PROVE  a1 = b1 /\ a2 = b2
<1> DEFINE s == CrcStep(c, a1)
           t == CrcStep(c, b1)
<1>1. s \in Word /\ t \in Word
  BY StepBytes
<1>2. Xor(s \div 256, a2) = Xor(t \div 256, b2) /\ s % 256 = t % 256
  <2>1. CrcStep(s, a2) = CrcStep(t, b2)
    OBVIOUS
  <2> HIDE DEF s, t
  <2> QED BY <1>1, <2>1, StepInjective
<1>3. \A x \in Byte : x \in Word
  BY DEF Byte, Word
<1> DEFINE h == c \div 256
           x == Xor(h, a1)
           y == Xor(h, b1)
<1>4. h \in Byte
  BY BytesOf
<1>5. x \in Byte /\ y \in Byte
  BY <1>4, XorOfBytes
<1>6. x = y
  <2>1. s % 256 = crc16_tab[x + 1] % 256 /\ t % 256 = crc16_tab[y + 1] % 256
    BY StepBytes
  <2> HIDE DEF x, y, s, t
  <2> QED BY <1>2, <1>5, <2>1, TableLow
<1>7. a1 = b1
  <2> HIDE DEF h
  <2> QED BY <1>3, <1>4, <1>6, XorCancels
<1>8. s = t
  BY <1>7
<1>9. a2 = b2
  <2>1. s \div 256 \in Byte
    BY <1>1, BytesOf
  <2> HIDE DEF s, t
  <2> QED BY <1>2, <1>3, <1>8, <2>1, XorCancels
<1> QED BY <1>7, <1>9

\* Three bytes that differ by a run of up to 16 bits lead apart.  Where the checksums
\* meet after three bytes, the low bytes of the first two entries differ as the third
\* bytes do: not in the bits below m, and the indexes not in those above.
LEMMA ThreeSteps ==
  ASSUME NEW c \in Word, NEW a1 \in Byte, NEW a2 \in Byte, NEW a3 \in Byte,
         NEW b1 \in Byte, NEW b2 \in Byte, NEW b3 \in Byte, NEW m \in Moduli,
         XorByte(a1, b1) < m, XorByte(a3, b3) % m = 0,
         CrcStep(CrcStep(CrcStep(c, a1), a2), a3) = CrcStep(CrcStep(CrcStep(c, b1), b2), b3)
  PROVE  a1 = b1 /\ a2 = b2 /\ a3 = b3
<1> DEFINE h == c \div 256
           x == Xor(h, a1)
           y == Xor(h, b1)
           s1 == CrcStep(c, a1)
           t1 == CrcStep(c, b1)
           s2 == CrcStep(s1, a2)
           t2 == CrcStep(t1, b2)
           v  == crc16_tab[x + 1] % 256
           w  == crc16_tab[y + 1] % 256
<1>1. s1 \in Word /\ t1 \in Word /\ s1 % 256 = v /\ t1 % 256 = w
  BY StepBytes
<1>2. h \in Byte
  BY BytesOf
<1>3. x \in Byte /\ y \in Byte /\ x = XorByte(h, a1) /\ y = XorByte(h, b1)
  BY <1>2, XorOfBytes
<1>4. v \in Byte /\ w \in Byte
  <2> HIDE DEF v, w, s1, t1
  <2> QED BY <1>1, BytesOf
<1>5. s2 \in Word /\ t2 \in Word
  <2> HIDE DEF s1, t1
  <2> QED BY <1>1, StepBytes
<1>6. Xor(s2 \div 256, a3) = Xor(t2 \div 256, b3) /\ s2 % 256 = t2 % 256
  <2>1. CrcStep(s2, a3) = CrcStep(t2, b3)
    OBVIOUS
  <2> HIDE DEF s2, t2
  <2> QED BY <1>5, <2>1, StepInjective
<1>7. XorByte(s2 \div 256, a3) = XorByte(t2 \div 256, b3)
  <2>1. s2 \div 256 \in Byte /\ t2 \div 256 \in Byte
    <3> HIDE DEF s2, t2
    <3> QED BY <1>5, BytesOf
  <2> HIDE DEF s2, t2
  <2> QED BY <1>6, <2>1, XorOfBytes
<1>8. PICK k \in Byte : s2 \div 256 = XorByte(k, v) /\ t2 \div 256 = XorByte(k, w)
  <2> DEFINE f == Xor(s1 \div 256, a2)
             g == Xor(t1 \div 256, b2)
  <2>1. s1 \div 256 \in Byte /\ t1 \div 256 \in Byte
    <3> HIDE DEF s1, t1
    <3> QED BY <1>1, BytesOf
  <2>2. f \in Byte /\ g \in Byte
    <3> HIDE DEF s1, t1
    <3> QED BY <2>1, XorOfBytes
  <2>3. /\ crc16_tab[f + 1] \in Word
        /\ s2 \div 256 = XorByte(crc16_tab[f + 1] \div 256, s1 % 256)
        /\ s2 % 256 = crc16_tab[f + 1] % 256
    <3> HIDE DEF s1
    <3> QED BY <1>1, StepBytes
  <2>4. /\ t2 \div 256 = XorByte(crc16_tab[g + 1] \div 256, t1 % 256)
        /\ t2 % 256 = crc16_tab[g + 1] % 256
    <3> HIDE DEF t1
    <3> QED BY <1>1, StepBytes
  <2> HIDE DEF f, g, s2, t2, s1, t1, v, w
  <2>5. f = g
    BY <1>6, <2>2, <2>3, <2>4, TableLow
  <2>6. crc16_tab[f + 1] \div 256 \in Byte
    BY <2>3, BytesOf
  <2> QED BY <1>1, <2>3, <2>4, <2>5, <2>6
<1> HIDE DEF s2, t2, v, w
<1>9. ASSUME NEW n \in Powers, n < m PROVE Bit(v, n) = Bit(w, n)
  <2> DEFINE k1 == XorByte(k, v)
             k2 == XorByte(k, w)
  <2>1. k1 \in Byte /\ k2 \in Byte /\ XorByte(k1, a3) = XorByte(k2, b3)
    BY <1>4, <1>7, <1>8, ByteRange
  <2>2. Bit(k1, n) = (Bit(k, n) + Bit(v, n)) % 2 /\ Bit(k2, n) = (Bit(k, n) + Bit(w, n)) % 2
    BY <1>4, ByteBit
  <2> HIDE DEF k1, k2
  <2>3. (Bit(k1, n) + Bit(a3, n)) % 2 = (Bit(k2, n) + Bit(b3, n)) % 2
    BY <2>1, ByteBit
  <2>4. (Bit(a3, n) + Bit(b3, n)) % 2 = 0
    <3>1. XorByte(a3, b3) \in Byte /\ Bit(XorByte(a3, b3), n) = (Bit(a3, n) + Bit(b3, n)) % 2
      BY ByteRange, ByteBit
    <3> QED BY <1>9, <3>1, BitsOfBurst
  <2>5. /\ Bit(a3, n) \in {0, 1} /\ Bit(b3, n) \in {0, 1} /\ Bit(k, n) \in {0, 1}
        /\ Bit(v, n) \in {0, 1} /\ Bit(w, n) \in {0, 1}
    BY <1>4, BitIsBit
  <2>6. \A p, q, r, i, j \in {0, 1} :
          /\ (i + j) % 2 = 0
          /\ (((r + p) % 2) + i) % 2 = (((r + q) % 2) + j) % 2
          => p = q
    OBVIOUS
  <2> QED BY <2>2, <2>3, <2>4, <2>5, <2>6
<1>10. ASSUME NEW n \in Powers, m <= n PROVE Bit(x, n) = Bit(y, n)
  <2>1. (Bit(a1, n) + Bit(b1, n)) % 2 = 0
    <3>1. XorByte(a1, b1) \in Byte /\ Bit(XorByte(a1, b1), n) = (Bit(a1, n) + Bit(b1, n)) % 2
      BY ByteRange, ByteBit
    <3> QED BY <1>10, <3>1, BitsOfBurst
  <2>2. Bit(a1, n) \in {0, 1} /\ Bit(b1, n) \in {0, 1}
    BY BitIsBit
  <2>3. Bit(a1, n) = Bit(b1, n)
    BY <2>1, <2>2
  <2>4. Bit(x, n) = (Bit(h, n) + Bit(a1, n)) % 2 /\ Bit(y, n) = (Bit(h, n) + Bit(b1, n)) % 2
    <3> HIDE DEF h, x, y
    <3> QED BY <1>2, <1>3, ByteBit
  <2> HIDE DEF x, y, h
  <2> QED BY <2>3, <2>4
<1>11. x = y
  <2> HIDE DEF x, y
  <2> QED BY <1>3, <1>9, <1>10, TableBurst DEF v, w
<1>12. a1 = b1
  <2>1. \A z \in Byte : z \in Word
    BY DEF Byte, Word
  <2> HIDE DEF h
  <2> QED BY <1>2, <1>11, <2>1, XorCancels
<1>13. CrcStep(CrcStep(s1, a2), a3) = CrcStep(CrcStep(s1, b2), b3)
  BY <1>12
<1>14. a2 = b2 /\ a3 = b3
  <2> HIDE DEF s1
  <2> QED BY <1>1, <1>13, TwoSteps
<1> QED BY <1>12, <1>14

\* A checksum is brought to 0 by its own two bytes.
LEMMA OwnBytes ==
  ASSUME NEW c \in Word
  PROVE  CrcStep(CrcStep(c, c \div 256), c % 256) = 0
<1> DEFINE h == c \div 256
           l == c % 256
           s == CrcStep(c, h)
<1>1. h \in Byte /\ l \in Byte
  BY BytesOf
<1>2. \A x \in Byte : /\ x \in Word /\ Xor(x, x) = 0 /\ XorByte(0, x) = x /\ XorByte(x, 0) = x
                      /\ XorByte(0, 0) = 0
  BY XorZero, ByteZero DEF Byte, Word
<1>3. 0 \div 256 = 0 /\ 0 % 256 = 0 /\ 0 + 1 = 1
  OBVIOUS
<1> HIDE DEF h, l
<1>4. s \in Word /\ s \div 256 = l /\ s % 256 = 0
  <2>1. LET entry == crc16_tab[Xor(h, h) + 1] IN
        s \in Word /\ s \div 256 = XorByte(entry \div 256, l) /\ s % 256 = entry % 256
    BY <1>1, StepBytes DEF h, l
  <2>2. crc16_tab[Xor(h, h) + 1] = 0
    BY <1>1, <1>2, <1>3, TableStart
  <2> QED BY <1>1, <1>2, <1>3, <2>1, <2>2
<1> HIDE DEF s
<1>5. CrcStep(s, l) \in Word /\ CrcStep(s, l) \div 256 = 0 /\ CrcStep(s, l) % 256 = 0
  <2>1. LET entry == crc16_tab[Xor(l, l) + 1] IN
        /\ CrcStep(s, l) \in Word
        /\ CrcStep(s, l) \div 256 = XorByte(entry \div 256, 0)
        /\ CrcStep(s, l) % 256 = entry % 256
    BY <1>1, <1>4, StepBytes
  <2>2. crc16_tab[Xor(l, l) + 1] = 0
    BY <1>1, <1>2, <1>3, TableStart
  <2>3. 0 \in Byte
    BY DEF Byte
  <2> QED BY <1>2, <1>3, <2>1, <2>2, <2>3
<1>6. CrcStep(s, l) = 0
  BY <1>5, BytesOf
<1> QED BY <1>6 DEF s, h, l

\* A checksum of 0 stays 0 where the line is cleared.
LEMMA ZeroStays == CrcStep(0, 0) = 0
<1>1. /\ 0 \in Word /\ 0 \in Byte /\ 0 \div 256 = 0 /\ 0 % 256 = 0
      /\ (0 * 256) % 65536 = 0 /\ 0 + 1 = 1
  BY DEF Word, Byte
<1>2. Xor(0, 0) = 0
  BY <1>1, XorZero
<1> QED BY <1>1, <1>2, TableStart DEF CrcStep

-----------------------------------------------------------------------------
(* The polynomial                                                          *)

\* One bit of the division, of what the table gives for the bits before.
LEMMA DivideBit ==
  ASSUME NEW m \in Word, NEW j \in Nat, j < 128
  PROVE  Shift(Xor(m, crc16_tab[j + 1]))
           = Xor((2 * m) % 65536, crc16_tab[2 * j + (m \div 32768) + 1])
<1> DEFINE t == crc16_tab[j + 1]
           M == (2 * m) % 65536
           T == (2 * t) % 65536
           P == \h1021
<1>1. \A x \in Word : (2 * x) % 65536 \in Word /\ (x < 32768 => (2 * x) % 65536 = x * 2)
  BY DEF Word
<1>2. t \in Word
  <2>1. j \in Byte
    BY DEF Byte
  <2> QED BY <2>1, TableRange
<1>3. M \in Word /\ T \in Word /\ P \in Word
  <2> HIDE DEF t
  <2> QED BY <1>1, <1>2 DEF Word
<1>4. /\ crc16_tab[2 * j + 1] = Shift(t)
      /\ crc16_tab[2 * j + 2] = Xor(crc16_tab[2 * j + 1], P)
  <2>1. j \in 0..127
    OBVIOUS
  <2> QED BY <2>1, TableDoubles
<1>5. /\ t >= 32768 => Shift(t) = Xor(T, P)
      /\ t < 32768 => Shift(t) = T
  <2>1. t * 2 = 2 * t
    BY <1>2 DEF Word
  <2> HIDE DEF t
  <2> QED BY <1>1, <1>2, <2>1 DEF Shift, Word
<1>6. Xor(m, t) \in Word /\ (2 * Xor(m, t)) % 65536 = Xor(M, T)
  <2> HIDE DEF t
  <2> QED BY <1>2, XorBytes, XorDoubles
<1>7. /\ Xor(m, t) >= 32768 => Shift(Xor(m, t)) = Xor(Xor(M, T), P)
      /\ Xor(m, t) < 32768 => Shift(Xor(m, t)) = Xor(M, T)
  <2> DEFINE x == Xor(m, t)
  <2>1. x \in Word /\ (2 * x) % 65536 = Xor(M, T)
    BY <1>6
  <2> HIDE DEF x
  <2>2. x * 2 = 2 * x
    BY <2>1 DEF Word
  <2>3. /\ x >= 32768 => Shift(x) = Xor(Xor(M, T), P)
        /\ x < 32768 => Shift(x) = Xor(M, T)
    BY <1>1, <2>1, <2>2 DEF Shift, Word
  <2> QED BY <2>3 DEF x
<1>8. Xor(m, t) >= 32768 <=> ~(m >= 32768 <=> t >= 32768)
  <2> HIDE DEF t
  <2> QED BY <1>2, XorTop
<1>9. /\ m >= 32768 => 2 * j + (m \div 32768) + 1 = 2 * j + 2
      /\ m < 32768 => 2 * j + (m \div 32768) + 1 = 2 * j + 1
  <2>1. /\ m >= 32768 => m \div 32768 = 1
        /\ m < 32768 => m \div 32768 = 0
    BY DEF Word
  <2> QED BY <2>1
<1>10. Xor(Xor(M, T), P) = Xor(M, Xor(T, P)) /\ Xor(Xor(T, P), P) = T
  <2> HIDE DEF M, T, P
  <2> QED BY <1>3, XorAssociates, XorZero
<1>11. Xor(m, t) \in Int /\ m \in Int /\ t \in Int
  BY <1>2, <1>6 DEF Word
<1> HIDE DEF t, M, T, P
<1>12. CASE m >= 32768 /\ t >= 32768
  BY <1>4, <1>5, <1>7, <1>8, <1>9, <1>10, <1>11, <1>12 DEF t, M
<1>13. CASE m >= 32768 /\ t < 32768
  BY <1>4, <1>5, <1>7, <1>8, <1>9, <1>10, <1>11, <1>13 DEF t, M
<1>14. CASE m < 32768 /\ t >= 32768
  BY <1>4, <1>5, <1>7, <1>8, <1>9, <1>10, <1>11, <1>14 DEF t, M
<1>15. CASE m < 32768 /\ t < 32768
  BY <1>4, <1>5, <1>7, <1>8, <1>9, <1>10, <1>11, <1>15 DEF t, M
<1> QED BY <1>11, <1>12, <1>13, <1>14, <1>15

\* Eight bits of the division.
Remainders(rem, start) ==
  rem = [k \in 0..8 |-> IF k = 0 THEN start ELSE Shift(rem[k - 1])]

\* The remainders that Divide goes through.
LEMMA DivideUnfolds ==
  ASSUME NEW crc, NEW byte
  PROVE  \E rem : /\ Divide(crc, byte) = rem[8] /\ rem[0] = Xor(crc, byte * 256)
                  /\ \A k \in 1..8 : rem[k] = Shift(rem[k - 1])
<1> DEFINE start == Xor(crc, byte * 256)
           rem == CHOOSE r : Remainders(r, start)
<1>1. \E r : Remainders(r, start)
  <2> DEFINE r1 == Shift(start)
             r2 == Shift(r1)
             r3 == Shift(r2)
             r4 == Shift(r3)
             r5 == Shift(r4)
             r6 == Shift(r5)
             r7 == Shift(r6)
             r8 == Shift(r7)
             f  == [k \in 0..8 |-> CASE k = 0 -> start [] k = 1 -> r1 [] k = 2 -> r2
                                     [] k = 3 -> r3 [] k = 4 -> r4 [] k = 5 -> r5
                                     [] k = 6 -> r6 [] k = 7 -> r7 [] OTHER -> r8]
  <2>1. /\ r1 = Shift(start) /\ r2 = Shift(r1) /\ r3 = Shift(r2) /\ r4 = Shift(r3)
        /\ r5 = Shift(r4) /\ r6 = Shift(r5) /\ r7 = Shift(r6) /\ r8 = Shift(r7)
    OBVIOUS
  <2> HIDE DEF start, r1, r2, r3, r4, r5, r6, r7, r8
  <2>2. /\ f[0] = start /\ f[1] = r1 /\ f[2] = r2 /\ f[3] = r3 /\ f[4] = r4
        /\ f[5] = r5 /\ f[6] = r6 /\ f[7] = r7 /\ f[8] = r8
    OBVIOUS
  <2>3. \A k \in 0..8 : f[k] = IF k = 0 THEN start ELSE Shift(f[k - 1])
    <3> HIDE DEF f
    <3>1. \A k \in 0..8 : k = 0 \/ k = 1 \/ k = 2 \/ k = 3 \/ k = 4 \/ k = 5 \/ k = 6
                          \/ k = 7 \/ k = 8
      OBVIOUS
    <3> QED BY <2>1, <2>2, <3>1
  <2>4. f = [k \in 0..8 |-> f[k]]
    OBVIOUS
  <2> HIDE DEF f
  <2>5. f = [k \in 0..8 |-> IF k = 0 THEN start ELSE Shift(f[k - 1])]
    BY <2>3, <2>4
  <2> QED BY <2>5 DEF Remainders
<1>2. Remainders(rem, start)
  BY <1>1
<1>3. Divide(crc, byte) = rem[8]
  BY DEF Divide, Remainders
<1> HIDE DEF start, rem
<1>4. /\ rem[0] = start
      /\ \A k \in 1..8 : rem[k] = Shift(rem[k - 1])
  <2>1. \A k \in 0..8 : rem[k] = IF k = 0 THEN start ELSE Shift(rem[k - 1])
    BY <1>2 DEF Remainders
  <2> QED BY <2>1
<1> QED BY <1>3, <1>4 DEF start

\* A step of the checksum is eight bits of the division.
LEMMA StepDivides ==
  ASSUME NEW c \in Word, NEW b \in Byte
  PROVE  Divide(c, b) = CrcStep(c, b)
<1> DEFINE m == Xor(c, b * 256)
           After(rem, k, x, j) == rem[k] = Xor(x, crc16_tab[j + 1])
<1>1. PICK rem : /\ Divide(c, b) = rem[8] /\ rem[0] = m
                 /\ \A k \in 1..8 : rem[k] = Shift(rem[k - 1])
  BY DivideUnfolds
<1>2. /\ m \in Word /\ m \div 256 = Xor(c \div 256, b) /\ m % 256 = c % 256
  <2>1. b * 256 \in Word /\ (b * 256) \div 256 = b /\ (b * 256) % 256 = 0
    BY DEF Byte, Word
  <2>2. c \div 256 \in Byte /\ c % 256 \in Byte
    BY BytesOf
  <2> QED BY <2>1, <2>2, XorBytes, XorOfBytes, ByteZero
<1> HIDE DEF m
<1>3. ASSUME NEW x \in Word, NEW j \in Nat, j < 128, NEW k \in 1..8, After(rem, k - 1, x, j)
      PROVE  After(rem, k, (2 * x) % 65536, 2 * j + (x \div 32768))
  <2>1. rem[k] = Shift(rem[k - 1]) /\ rem[k - 1] = Xor(x, crc16_tab[j + 1])
    BY <1>1, <1>3
  <2>2. Shift(Xor(x, crc16_tab[j + 1]))
          = Xor((2 * x) % 65536, crc16_tab[2 * j + (x \div 32768) + 1])
    BY <1>3, DivideBit
  <2> QED BY <2>1, <2>2
<1>4. After(rem, 0, m, 0)
  <2>1. 0 + 1 = 1
    OBVIOUS
  <2> QED BY <1>1, <1>2, <2>1, XorZero, TableStart
<1>5. After(rem, 1, (2 * m) % 65536, m \div 32768)
  <2> DEFINE x == m
             j == 0
  <2>1. /\ x \in Word /\ j \in Nat /\ j < 128
        /\ (2 * x) % 65536 = (2 * m) % 65536 /\ 2 * j + (x \div 32768) = m \div 32768
    BY <1>2 DEF Word
  <2>2. After(rem, 1 - 1, x, j)
    BY <1>4
  <2>3. 1 \in 1..8
    OBVIOUS
  <2> HIDE DEF x, j, After
  <2> QED BY <1>3, <2>1, <2>2, <2>3
<1>6. After(rem, 2, (4 * m) % 65536, m \div 16384)
  <2> DEFINE x == (2 * m) % 65536
             j == m \div 32768
  <2>1. /\ x \in Word /\ j \in Nat /\ j < 128
        /\ (2 * x) % 65536 = (4 * m) % 65536 /\ 2 * j + (x \div 32768) = m \div 16384
    BY <1>2 DEF Word
  <2>2. After(rem, 2 - 1, x, j)
    BY <1>5
  <2>3. 2 \in 1..8
    OBVIOUS
  <2> HIDE DEF x, j, After
  <2> QED BY <1>3, <2>1, <2>2, <2>3
<1>7. After(rem, 3, (8 * m) % 65536, m \div 8192)
  <2> DEFINE x == (4 * m) % 65536
             j == m \div 16384
  <2>1. /\ x \in Word /\ j \in Nat /\ j < 128
        /\ (2 * x) % 65536 = (8 * m) % 65536 /\ 2 * j + (x \div 32768) = m \div 8192
    BY <1>2 DEF Word
  <2>2. After(rem, 3 - 1, x, j)
    BY <1>6
  <2>3. 3 \in 1..8
    OBVIOUS
  <2> HIDE DEF x, j, After
  <2> QED BY <1>3, <2>1, <2>2, <2>3
<1>8. After(rem, 4, (16 * m) % 65536, m \div 4096)
  <2> DEFINE x == (8 * m) % 65536
             j == m \div 8192
  <2>1. /\ x \in Word /\ j \in Nat /\ j < 128
        /\ (2 * x) % 65536 = (16 * m) % 65536 /\ 2 * j + (x \div 32768) = m \div 4096
    BY <1>2 DEF Word
  <2>2. After(rem, 4 - 1, x, j)
    BY <1>7
  <2>3. 4 \in 1..8
    OBVIOUS
  <2> HIDE DEF x, j, After
  <2> QED BY <1>3, <2>1, <2>2, <2>3
<1>9. After(rem, 5, (32 * m) % 65536, m \div 2048)
  <2> DEFINE x == (16 * m) % 65536
             j == m \div 4096
  <2>1. /\ x \in Word /\ j \in Nat /\ j < 128
        /\ (2 * x) % 65536 = (32 * m) % 65536 /\ 2 * j + (x \div 32768) = m \div 2048
    BY <1>2 DEF Word
  <2>2. After(rem, 5 - 1, x, j)
    BY <1>8
  <2>3. 5 \in 1..8
    OBVIOUS
  <2> HIDE DEF x, j, After
  <2> QED BY <1>3, <2>1, <2>2, <2>3
<1>10. After(rem, 6, (64 * m) % 65536, m \div 1024)
  <2> DEFINE x == (32 * m) % 65536
             j == m \div 2048
  <2>1. /\ x \in Word /\ j \in Nat /\ j < 128
        /\ (2 * x) % 65536 = (64 * m) % 65536 /\ 2 * j + (x \div 32768) = m \div 1024
    BY <1>2 DEF Word
  <2>2. After(rem, 6 - 1, x, j)
    BY <1>9
  <2>3. 6 \in 1..8
    OBVIOUS
  <2> HIDE DEF x, j, After
  <2> QED BY <1>3, <2>1, <2>2, <2>3
<1>11. After(rem, 7, (128 * m) % 65536, m \div 512)
  <2> DEFINE x == (64 * m) % 65536
             j == m \div 1024
  <2>1. /\ x \in Word /\ j \in Nat /\ j < 128
        /\ (2 * x) % 65536 = (128 * m) % 65536 /\ 2 * j + (x \div 32768) = m \div 512
    BY <1>2 DEF Word
  <2>2. After(rem, 7 - 1, x, j)
    BY <1>10
  <2>3. 7 \in 1..8
    OBVIOUS
  <2> HIDE DEF x, j, After
  <2> QED BY <1>3, <2>1, <2>2, <2>3
<1>12. After(rem, 8, (256 * m) % 65536, m \div 256)
  <2> DEFINE x == (128 * m) % 65536
             j == m \div 512
  <2>1. /\ x \in Word /\ j \in Nat /\ j < 128
        /\ (2 * x) % 65536 = (256 * m) % 65536 /\ 2 * j + (x \div 32768) = m \div 256
    BY <1>2 DEF Word
  <2>2. After(rem, 8 - 1, x, j)
    BY <1>11
  <2>3. 8 \in 1..8
    OBVIOUS
  <2> HIDE DEF x, j, After
  <2> QED BY <1>3, <2>1, <2>2, <2>3
<1>13. rem[8] = Xor((256 * m) % 65536, crc16_tab[(m \div 256) + 1])
  BY <1>12
<1>14. (256 * m) % 65536 = (c * 256) % 65536
  <2>1. \A x \in Word : (256 * x) % 65536 = 256 * (x % 256) /\ (x * 256) % 65536 = 256 * (x % 256)
    BY DEF Word
  <2> QED BY <1>2, <2>1
<1>15. (c * 256) % 65536 \in Word /\ crc16_tab[(m \div 256) + 1] \in Word
  <2>1. (c * 256) % 65536 \in Word
    BY DEF Word
  <2>2. m \div 256 \in Byte
    BY <1>2, BytesOf
  <2> QED BY <2>1, <2>2, TableRange
<1> QED BY <1>1, <1>2, <1>13, <1>14, <1>15, XorCommutes DEF CrcStep

-----------------------------------------------------------------------------
(* The checksum of a line                                                  *)

\* A set of natural numbers that is not empty has a least element.
LEMMA Least ==
  ASSUME NEW T \in SUBSET Nat, T # {}
  PROVE  \E m \in T : \A n \in T : m <= n
<1> DEFINE R == OpToRel(<, Nat)
<1>1. PICK m \in T : \A n \in T : ~(<<n, m>> \in R)
  <2>1. IsWellFoundedOn(R, Nat)
    BY NatLessThanWellFounded
  <2> HIDE DEF R
  <2> QED BY <2>1, WFMin
<1>2. ASSUME NEW n \in T, n < m PROVE FALSE
  <2>1. <<n, m>> \in R
    BY <1>2 DEF OpToRel
  <2> HIDE DEF R
  <2> QED BY <1>1, <2>1
<1> QED BY <1>2

\* f holds the checksums of the first bytes of buf.
Checksums(f, buf, n) ==
  f = [i \in 0..n |-> IF i = 0 THEN 0 ELSE CrcStep(f[i - 1], At(buf, i - 1))]

\* What the checksums of a line are.
LEMMA ChecksumsAre ==
  ASSUME NEW f, NEW buf, NEW n \in Nat, Checksums(f, buf, n)
  PROVE  /\ f[0] = 0
         /\ \A i \in 1..n : f[i] = CrcStep(f[i - 1], At(buf, i - 1))
<1>1. \A i \in 0..n : f[i] = IF i = 0 THEN 0 ELSE CrcStep(f[i - 1], At(buf, i - 1))
  BY DEF Checksums
<1> QED BY <1>1

\* Every line has checksums: the shortest that had none would follow from a shorter one.
LEMMA ChecksumsExist ==
  ASSUME NEW buf, NEW n \in Nat
  PROVE  \E f : Checksums(f, buf, n)
<1> DEFINE T == {m \in Nat : ~\E f : Checksums(f, buf, m)}
<1>1. SUFFICES ASSUME T # {} PROVE FALSE
  OBVIOUS
<1>2. PICK m \in T : \A k \in T : m <= k
  <2>1. T \in SUBSET Nat
    OBVIOUS
  <2> HIDE DEF T
  <2> QED BY <1>1, <2>1, Least
<1>3. m # 0
  <2>1. Checksums([i \in 0..0 |-> 0], buf, 0)
    BY DEF Checksums
  <2> QED BY <2>1
<1>4. PICK f : Checksums(f, buf, m - 1)
  <2>1. m - 1 \in Nat /\ m - 1 \notin T
    BY <1>2, <1>3
  <2> QED BY <2>1
<1> DEFINE g == [i \in 0..m |-> IF i < m THEN f[i] ELSE CrcStep(f[m - 1], At(buf, m - 1))]
<1>5. \A i \in 0..m : g[i] = IF i = 0 THEN 0 ELSE CrcStep(g[i - 1], At(buf, i - 1))
  <2>1. m - 1 \in Nat
    BY <1>2, <1>3
  <2>2. f[0] = 0 /\ \A i \in 1..m - 1 : f[i] = CrcStep(f[i - 1], At(buf, i - 1))
    BY <1>4, <2>1, ChecksumsAre
  <2>3. ASSUME NEW i \in 0..m PROVE g[i] = IF i = 0 THEN 0 ELSE CrcStep(g[i - 1], At(buf, i - 1))
    <3>1. CASE i = 0
      BY <1>3, <2>2, <3>1
    <3>2. CASE i \in 1..m - 1
      <4>1. g[i] = f[i] /\ g[i - 1] = f[i - 1] /\ i # 0
        BY <3>2
      <4> QED BY <2>2, <3>2, <4>1
    <3>3. CASE i = m
      <4>1. g[i] = CrcStep(f[m - 1], At(buf, m - 1)) /\ g[i - 1] = f[m - 1]
        BY <1>3, <3>3
      <4> QED BY <1>3, <3>3, <4>1
    <3> QED BY <3>1, <3>2, <3>3
  <2> QED BY <2>3
<1>6. Checksums(g, buf, m)
  <2>1. g = [i \in 0..m |-> g[i]]
    OBVIOUS
  <2> HIDE DEF g
  <2>2. g = [i \in 0..m |-> IF i = 0 THEN 0 ELSE CrcStep(g[i - 1], At(buf, i - 1))]
    BY <1>5, <2>1
  <2> QED BY <2>2 DEF Checksums
<1> QED BY <1>6

\* Crc is the last of them.
LEMMA CrcIsChecksum ==
  ASSUME NEW buf, NEW n \in Nat
  PROVE  \E f : Checksums(f, buf, n) /\ Crc(buf, n) = f[n]
<1> DEFINE f == CHOOSE g : Checksums(g, buf, n)
<1>1. Checksums(f, buf, n)
  BY ChecksumsExist
<1>2. Crc(buf, n) = f[n]
  BY DEF Crc, Checksums
<1> HIDE DEF f
<1> QED BY <1>1, <1>2

\* Where the bytes agree the checksums do.
LEMMA ChecksumsAgree ==
  ASSUME NEW f, NEW g, NEW x, NEW y, NEW m \in Nat, NEW n \in Nat,
         Checksums(f, x, m), Checksums(g, y, n),
         NEW k \in Nat, k <= m, k <= n, \A i \in Nat : i < k => At(x, i) = At(y, i)
  PROVE  f[k] = g[k]
<1> DEFINE T == {i \in Nat : i <= k /\ f[i] # g[i]}
<1>1. SUFFICES ASSUME T # {} PROVE FALSE
  OBVIOUS
<1>2. PICK j \in T : \A i \in T : j <= i
  <2>1. T \in SUBSET Nat
    OBVIOUS
  <2> HIDE DEF T
  <2> QED BY <1>1, <2>1, Least
<1>3. f[0] = 0 /\ g[0] = 0
  BY ChecksumsAre
<1>4. j - 1 \in Nat /\ j - 1 < k /\ j - 1 \notin T /\ j \in 1..m /\ j \in 1..n
  BY <1>2, <1>3
<1>5. f[j - 1] = g[j - 1] /\ At(x, j - 1) = At(y, j - 1)
  BY <1>4
<1>6. /\ f[j] = CrcStep(f[j - 1], At(x, j - 1))
      /\ g[j] = CrcStep(g[j - 1], At(y, j - 1))
  BY <1>4, ChecksumsAre
<1> QED BY <1>2, <1>5, <1>6

\* The checksum of one byte more is a step further.
LEMMA CrcUnfolds ==
  ASSUME NEW buf
  PROVE  /\ Crc(buf, 0) = 0
         /\ \A n \in Nat : Crc(buf, n + 1) = CrcStep(Crc(buf, n), At(buf, n))
<1>1. Crc(buf, 0) = 0
  <2>1. PICK f : Checksums(f, buf, 0) /\ Crc(buf, 0) = f[0]
    BY CrcIsChecksum
  <2> QED BY <2>1, ChecksumsAre
<1>2. ASSUME NEW n \in Nat PROVE Crc(buf, n + 1) = CrcStep(Crc(buf, n), At(buf, n))
  <2>1. PICK f : Checksums(f, buf, n) /\ Crc(buf, n) = f[n]
    BY CrcIsChecksum
  <2>2. n + 1 \in Nat /\ n <= n + 1 /\ n <= n /\ n + 1 \in 1..n + 1 /\ n + 1 - 1 = n
    OBVIOUS
  <2>3. PICK g : Checksums(g, buf, n + 1) /\ Crc(buf, n + 1) = g[n + 1]
    BY <2>2, CrcIsChecksum
  <2>4. f[n] = g[n]
    BY <2>1, <2>2, <2>3, ChecksumsAgree
  <2>5. g[n + 1] = CrcStep(g[n + 1 - 1], At(buf, n + 1 - 1))
    BY <2>2, <2>3, ChecksumsAre
  <2> QED BY <2>1, <2>2, <2>3, <2>4, <2>5
<1> QED BY <1>1, <1>2

\* The checksum depends on the bytes it covers, and on no other.
LEMMA CrcOfPrefix ==
  ASSUME NEW x, NEW y, NEW n \in Nat, \A i \in Nat : i < n => At(x, i) = At(y, i)
  PROVE  Crc(x, n) = Crc(y, n)
<1>1. PICK f : Checksums(f, x, n) /\ Crc(x, n) = f[n]
  BY CrcIsChecksum
<1>2. PICK g : Checksums(g, y, n) /\ Crc(y, n) = g[n]
  BY CrcIsChecksum
<1> QED BY <1>1, <1>2, ChecksumsAgree

\* Every place of a line holds a byte, 0 behind its end.
LEMMA AtIsByte ==
  ASSUME NEW buf \in Seq(Byte), NEW i \in Nat
  PROVE  At(buf, i) \in Byte
<1>1. 0 \in Byte
  BY DEF Byte
<1>2. i < Len(buf) => i + 1 \in 1..Len(buf)
  OBVIOUS
<1> QED BY <1>1, <1>2 DEF At

\* A checksum has 16 bits.
LEMMA CrcIsWord ==
  ASSUME NEW buf \in Seq(Byte), NEW n \in Nat
  PROVE  Crc(buf, n) \in Word
<1> DEFINE T == {m \in Nat : Crc(buf, m) \notin Word}
<1>1. SUFFICES ASSUME T # {} PROVE FALSE
  OBVIOUS
<1>2. PICK m \in T : \A k \in T : m <= k
  <2>1. T \in SUBSET Nat
    OBVIOUS
  <2> HIDE DEF T
  <2> QED BY <1>1, <2>1, Least
<1>3. m # 0
  <2>1. 0 \in Word
    BY DEF Word
  <2> QED BY <1>2, <2>1, CrcUnfolds
<1>4. m - 1 \in Nat /\ m - 1 \notin T /\ m - 1 + 1 = m
  BY <1>2, <1>3
<1>5. Crc(buf, m - 1) \in Word /\ At(buf, m - 1) \in Byte
  BY <1>4, AtIsByte
<1>6. Crc(buf, m) \in Word
  <2>1. CrcStep(Crc(buf, m - 1), At(buf, m - 1)) \in Word
    BY <1>5, StepBytes
  <2>2. Crc(buf, m) = CrcStep(Crc(buf, m - 1), At(buf, m - 1))
    BY <1>4, CrcUnfolds
  <2> QED BY <2>1, <2>2
<1> QED BY <1>2, <1>6

\* Checksums that differ do so for as long as the bytes agree.
LEMMA CrcStaysApart ==
  ASSUME NEW x \in Seq(Byte), NEW y \in Seq(Byte), NEW j \in Nat, NEW n \in Nat, j <= n,
         Crc(x, j) # Crc(y, j), \A i \in Nat : j <= i /\ i < n => At(x, i) = At(y, i)
  PROVE  Crc(x, n) # Crc(y, n)
<1> DEFINE T == {m \in Nat : j <= m /\ m <= n /\ Crc(x, m) = Crc(y, m)}
<1>1. SUFFICES ASSUME T # {} PROVE FALSE
  BY DEF T
<1>2. PICK m \in T : \A k \in T : m <= k
  <2>1. T \in SUBSET Nat
    OBVIOUS
  <2> HIDE DEF T
  <2> QED BY <1>1, <2>1, Least
<1>3. /\ m - 1 \in Nat /\ m - 1 \notin T /\ m - 1 + 1 = m
      /\ j <= m - 1 /\ m - 1 < n
  BY <1>2
<1>4. At(x, m - 1) = At(y, m - 1) /\ Crc(x, m - 1) # Crc(y, m - 1)
  BY <1>3
<1> DEFINE c == Crc(x, m - 1)
           d == Crc(y, m - 1)
           b == At(x, m - 1)
<1>5. c \in Word /\ d \in Word /\ b \in Byte
  BY <1>3, CrcIsWord, AtIsByte
<1>6. CrcStep(c, b) = CrcStep(d, b)
  BY <1>2, <1>3, <1>4, CrcUnfolds
<1>7. c # d
  BY <1>4
<1> HIDE DEF c, d, b
<1>8. Xor(c \div 256, b) = Xor(d \div 256, b) /\ c % 256 = d % 256
  BY <1>5, <1>6, StepInjective
<1>9. c \div 256 = d \div 256
  <2> DEFINE h == c \div 256
             k == d \div 256
  <2>1. h \in Word /\ k \in Word /\ b \in Word
    BY <1>5, BytesOf DEF Byte, Word
  <2>2. Xor(h, b) = Xor(k, b)
    BY <1>8
  <2> HIDE DEF h, k
  <2>3. Xor(b, h) = Xor(b, k)
    BY <2>1, <2>2, XorCommutes
  <2>4. h = k
    BY <2>1, <2>3, XorCancels
  <2> QED BY <2>4 DEF h, k
<1> QED BY <1>5, <1>7, <1>8, <1>9, SameWord

\* Three bytes that differ by a run of up to 16 bits change the checksum for good.
LEMMA CrcSeesBurst ==
  ASSUME NEW x \in Seq(Byte), NEW y \in Seq(Byte), NEW i \in Nat, NEW n \in Nat, i + 3 <= n,
         \A k \in Nat : k < n /\ k \notin {i, i + 1, i + 2} => At(x, k) = At(y, k),
         NEW m \in Moduli, XorByte(At(x, i), At(y, i)) < m,
         XorByte(At(x, i + 2), At(y, i + 2)) % m = 0,
         \E k \in {i, i + 1, i + 2} : At(x, k) # At(y, k)
  PROVE  Crc(x, n) # Crc(y, n)
<1> DEFINE c == Crc(x, i)
           a1 == At(x, i)
           a2 == At(x, i + 1)
           a3 == At(x, i + 2)
           b1 == At(y, i)
           b2 == At(y, i + 1)
           b3 == At(y, i + 2)
<1>1. i + 1 \in Nat /\ i + 2 \in Nat /\ i + 3 \in Nat /\ i + 1 + 1 = i + 2 /\ i + 2 + 1 = i + 3
  OBVIOUS
<1>2. /\ c \in Word /\ a1 \in Byte /\ a2 \in Byte /\ a3 \in Byte
      /\ b1 \in Byte /\ b2 \in Byte /\ b3 \in Byte
  BY <1>1, CrcIsWord, AtIsByte
<1>3. Crc(y, i) = c
  <2>1. \A k \in Nat : k < i => At(x, k) = At(y, k)
    OBVIOUS
  <2> QED BY <2>1, CrcOfPrefix
<1>4. /\ Crc(x, i + 3) = CrcStep(CrcStep(CrcStep(c, a1), a2), a3)
      /\ Crc(y, i + 3) = CrcStep(CrcStep(CrcStep(c, b1), b2), b3)
  <2>1. /\ Crc(x, i + 1) = CrcStep(c, a1) /\ Crc(x, i + 1 + 1) = CrcStep(Crc(x, i + 1), a2)
        /\ Crc(x, i + 2 + 1) = CrcStep(Crc(x, i + 2), a3)
    BY <1>1, CrcUnfolds
  <2>2. /\ Crc(y, i + 1) = CrcStep(c, b1) /\ Crc(y, i + 1 + 1) = CrcStep(Crc(y, i + 1), b2)
        /\ Crc(y, i + 2 + 1) = CrcStep(Crc(y, i + 2), b3)
    BY <1>1, <1>3, CrcUnfolds
  <2> HIDE DEF c, a1, a2, a3, b1, b2, b3
  <2> QED BY <1>1, <2>1, <2>2
<1>5. a1 # b1 \/ a2 # b2 \/ a3 # b3
  OBVIOUS
<1>8. XorByte(a1, b1) < m /\ XorByte(a3, b3) % m = 0
  OBVIOUS
<1> HIDE DEF c, a1, a2, a3, b1, b2, b3
<1>6. Crc(x, i + 3) # Crc(y, i + 3)
  BY <1>2, <1>4, <1>5, <1>8, ThreeSteps
<1>7. \A k \in Nat : i + 3 <= k /\ k < n => At(x, k) = At(y, k)
  OBVIOUS
<1> QED BY <1>1, <1>6, <1>7, CrcStaysApart

\* A line passes the check of its checksum when it and the two bytes behind give 0.
LEMMA CrcOfCrc ==
  ASSUME NEW buf \in Seq(Byte), NEW n \in Nat
  PROVE  Crc(buf, n) = At16(buf, n) <=> Crc(buf, n + 2) = 0
<1> DEFINE c == Crc(buf, n)
           a1 == At(buf, n)
           a2 == At(buf, n + 1)
           h == c \div 256
           l == c % 256
<1>1. n + 1 \in Nat /\ n + 1 + 1 = n + 2
  OBVIOUS
<1>2. c \in Word /\ a1 \in Byte /\ a2 \in Byte
  BY <1>1, CrcIsWord, AtIsByte
<1>3. h \in Byte /\ l \in Byte /\ c = 256 * h + l
  <2> HIDE DEF c
  <2> QED BY <1>2, BytesOf
<1>4. Crc(buf, n + 2) = CrcStep(CrcStep(c, a1), a2)
  <2>1. Crc(buf, n + 1) = CrcStep(c, a1) /\ Crc(buf, n + 1 + 1) = CrcStep(Crc(buf, n + 1), a2)
    BY <1>1, CrcUnfolds
  <2> QED BY <1>1, <2>1
<1>5. CrcStep(CrcStep(c, h), l) = 0
  <2> HIDE DEF c
  <2> QED BY <1>2, OwnBytes
<1>6. At16(buf, n) = a1 * 256 + a2
  BY DEF At16
<1> HIDE DEF c, a1, a2, h, l
<1>7. c = a1 * 256 + a2 <=> a1 = h /\ a2 = l
  BY <1>2, <1>3 DEF Byte
<1>8. CrcStep(CrcStep(c, a1), a2) = 0 <=> a1 = h /\ a2 = l
  BY <1>2, <1>3, <1>5, TwoSteps
<1> QED BY <1>4, <1>6, <1>7, <1>8 DEF c

\* From 0 the checksum stays 0 as long as the line is cleared.
LEMMA CrcOfZeros ==
  ASSUME NEW buf, NEW j \in Nat, NEW n \in Nat, j <= n, Crc(buf, j) = 0,
         \A i \in Nat : j <= i /\ i < n => At(buf, i) = 0
  PROVE  Crc(buf, n) = 0
<1> DEFINE T == {m \in Nat : j <= m /\ m <= n /\ Crc(buf, m) # 0}
<1>1. SUFFICES ASSUME T # {} PROVE FALSE
  BY DEF T
<1>2. PICK m \in T : \A k \in T : m <= k
  <2>1. T \in SUBSET Nat
    OBVIOUS
  <2> HIDE DEF T
  <2> QED BY <1>1, <2>1, Least
<1>3. /\ m - 1 \in Nat /\ m - 1 \notin T /\ m - 1 + 1 = m
      /\ j <= m - 1 /\ m - 1 < n
  BY <1>2
<1>4. Crc(buf, m - 1) = 0 /\ At(buf, m - 1) = 0
  BY <1>3
<1>5. Crc(buf, m) = 0
  BY <1>3, <1>4, CrcUnfolds, ZeroStays
<1> QED BY <1>2, <1>5

-----------------------------------------------------------------------------
(* Frames                                                                  *)

\* The binary ones.
Protocols == {"HT", "SL"}

\* What the assumptions say of the constants, in the terms of this module.
LEMMA Constants ==
  /\ Datas \subseteq Seq(Byte) /\ Replies \subseteq Seq(Byte) /\ Followers \subseteq Seq(Byte)
  /\ FrameIds \subseteq Word /\ CmdIds \subseteq Word
  /\ \A device \in Devices : /\ device \in Nat /\ device \div 65536 \in Word
                             /\ device % 65536 \in Word
                             /\ device = (device \div 65536) * 65536 + (device % 65536)
  /\ \A data \in Datas : Len(data) <= 240
  /\ \A reply \in Replies : Len(reply) <= 512
  /\ \A bits \in Bursts :
       /\ bits[1] \in Byte /\ bits[2] \in Byte /\ bits[3] \in Byte
       /\ bits[1] # 0 \/ bits[2] # 0 \/ bits[3] # 0
       /\ \E m \in Moduli : bits[1] < m /\ bits[3] % m = 0
<1>1. /\ Datas \subseteq Seq(Byte) /\ Replies \subseteq Seq(Byte) /\ Followers \subseteq Seq(Byte)
  BY FramesAssumption, ByteIs
<1>2. FrameIds \subseteq Word /\ CmdIds \subseteq Word
  BY FramesAssumption DEF Word
<1>3. ASSUME NEW device \in Devices
      PROVE  /\ device \in Nat /\ device \div 65536 \in Word /\ device % 65536 \in Word
             /\ device = (device \div 65536) * 65536 + (device % 65536)
  <2>1. device \in Nat /\ device \div 65536 < 65536
    BY FramesAssumption
  <2>2. device \div 65536 \in Nat
    BY <2>1
  <2> QED BY <2>1, <2>2 DEF Word
<1>4. ASSUME NEW bits \in Bursts
      PROVE  /\ bits[1] \in Byte /\ bits[2] \in Byte /\ bits[3] \in Byte
             /\ bits[1] # 0 \/ bits[2] # 0 \/ bits[3] # 0
             /\ \E m \in Moduli : bits[1] < m /\ bits[3] % m = 0
  <2>1. bits \in Byte \X Byte \X Byte /\ bits # <<0, 0, 0>>
    BY FramesAssumption, ByteIs
  <2>2. \E m \in Moduli : bits[1] < m /\ bits[3] % m = 0
    BY FramesAssumption DEF Moduli
  <2> QED BY <2>1, <2>2
<1> QED BY <1>1, <1>2, <1>3, <1>4, FramesAssumption

\* The bytes of two sequences joined.
LEMMA AtOfConcat ==
  ASSUME NEW s \in Seq(Byte), NEW t \in Seq(Byte)
  PROVE  /\ s \o t \in Seq(Byte) /\ Len(s \o t) = Len(s) + Len(t)
         /\ \A i \in Nat : At(s \o t, i) = IF i < Len(s) THEN At(s, i) ELSE At(t, i - Len(s))
<1>1. /\ s \o t \in Seq(Byte) /\ Len(s \o t) = Len(s) + Len(t)
      /\ \A i \in 1..Len(s) + Len(t) :
           (s \o t)[i] = IF i <= Len(s) THEN s[i] ELSE t[i - Len(s)]
  BY ConcatProperties
<1>2. ASSUME NEW i \in Nat
      PROVE  At(s \o t, i) = IF i < Len(s) THEN At(s, i) ELSE At(t, i - Len(s))
  <2>0. Len(s) \in Nat /\ Len(t) \in Nat
    OBVIOUS
  <2>1. CASE i < Len(s)
    BY <1>1, <2>0, <2>1 DEF At
  <2>2. CASE i >= Len(s) /\ i < Len(s) + Len(t)
    <3>1. i + 1 \in 1..Len(s) + Len(t) /\ ~(i + 1 <= Len(s)) /\ ~(i < Len(s))
          /\ i - Len(s) < Len(t) /\ i + 1 - Len(s) = i - Len(s) + 1
      BY <2>0, <2>2
    <3> QED BY <1>1, <2>0, <2>2, <3>1 DEF At
  <2>3. CASE i >= Len(s) + Len(t)
    <3>1. ~(i < Len(s)) /\ ~(i - Len(s) < Len(t)) /\ ~(i < Len(s) + Len(t))
      BY <2>0, <2>3
    <3> QED BY <1>1, <3>1 DEF At
  <2> QED BY <2>0, <2>1, <2>2, <2>3
<1> QED BY <1>1, <1>2

\* Two bytes hold a word.
LEMMA U16Is ==
  ASSUME NEW n \in Word
  PROVE  /\ U16(n) \in Seq(Byte) /\ Len(U16(n)) = 2
         /\ At(U16(n), 0) * 256 + At(U16(n), 1) = n
<1>1. n \div 256 \in Byte /\ n % 256 \in Byte /\ n = 256 * (n \div 256) + (n % 256)
  BY BytesOf
<1> DEFINE h == n \div 256
           l == n % 256
<1>2. U16(n) = <<h, l>>
  BY DEF U16
<1>3. h * 256 + l = 256 * h + l
  BY <1>1 DEF Byte
<1> HIDE DEF h, l
<1>4. h \in Byte /\ l \in Byte
  BY <1>1 DEF h, l
<1>5. <<h, l>> \in Seq(Byte) /\ Len(<<h, l>>) = 2 /\ At(<<h, l>>, 0) = h /\ At(<<h, l>>, 1) = l
  BY <1>4 DEF At
<1> QED BY <1>1, <1>2, <1>3, <1>5 DEF h, l

\* The two bytes that a protocol starts its frames with.
LEMMA HeadIs ==
  ASSUME NEW p \in Protocols
  PROVE  FrameHead(p) \in Seq(Byte) /\ Len(FrameHead(p)) = 2
         /\ <<At(FrameHead(p), 0), At(FrameHead(p), 1)>> = FrameHead(p)
<1>1. \A a, b \in Byte : /\ <<a, b>> \in Seq(Byte) /\ Len(<<a, b>>) = 2
                         /\ At(<<a, b>>, 0) = a /\ At(<<a, b>>, 1) = b
  BY DEF At
<1>2. \h48 \in Byte /\ \h54 \in Byte /\ \h22 \in Byte /\ \h53 \in Byte
  BY DEF Byte
<1>3. FrameHead(p) = <<\h48, \h54>> \/ FrameHead(p) = <<\h22, \h53>>
  BY DEF FrameHead
<1>4. CASE FrameHead(p) = <<\h48, \h54>>
  BY <1>1, <1>2, <1>4
<1>5. CASE FrameHead(p) = <<\h22, \h53>>
  BY <1>1, <1>2, <1>5
<1> QED BY <1>3, <1>4, <1>5

\* They tell the protocols apart.
LEMMA HeadTells ==
  ASSUME NEW p \in Protocols, NEW q \in Protocols, FrameHead(p) = FrameHead(q)
  PROVE  p = q
BY DEF FrameHead, Protocols

\* The two bytes in front of the content: a head and two numbers behind it.
LEMMA FieldOfConcat ==
  ASSUME NEW s \in Seq(Byte), NEW n \in Word
  PROVE  /\ s \o U16(n) \in Seq(Byte) /\ Len(s \o U16(n)) = Len(s) + 2
         /\ At16(s \o U16(n), Len(s)) = n
         /\ \A i \in Nat : i < Len(s) => At(s \o U16(n), i) = At(s, i)
<1>1. U16(n) \in Seq(Byte) /\ Len(U16(n)) = 2 /\ At(U16(n), 0) * 256 + At(U16(n), 1) = n
  BY U16Is
<1> DEFINE t == U16(n)
<1> HIDE DEF t
<1>2. /\ s \o t \in Seq(Byte) /\ Len(s \o t) = Len(s) + Len(t)
      /\ \A i \in Nat : At(s \o t, i) = IF i < Len(s) THEN At(s, i) ELSE At(t, i - Len(s))
  BY <1>1, AtOfConcat DEF t
<1>3. Len(s) \in Nat /\ Len(s) + 1 \in Nat /\ Len(s) - Len(s) = 0 /\ Len(s) + 1 - Len(s) = 1
  OBVIOUS
<1>4. At(s \o t, Len(s)) = At(t, 0) /\ At(s \o t, Len(s) + 1) = At(t, 1)
  BY <1>2, <1>3
<1> QED BY <1>1, <1>2, <1>3, <1>4 DEF At16, t

\* What a frame or a reply is: head, length, two numbers, the rest, and the
\* checksum over all of it.
Framed(p, len, frame_id, cmd_id, rest) ==
  LET body == FrameHead(p) \o U16(len) \o U16(frame_id) \o U16(cmd_id) \o rest
  IN  body \o U16(Crc(body, Len(body)))

\* What a check and a parser find in it.
IsFramed(buf, p, len, frame_id, cmd_id, rest) ==
  /\ buf \in Seq(Byte) /\ Len(buf) = len + 2
  /\ <<At(buf, 0), At(buf, 1)>> = FrameHead(p)
  /\ At16(buf, 2) = len /\ At16(buf, 4) = frame_id /\ At16(buf, 6) = cmd_id
  /\ \A i \in Nat : i < Len(rest) => At(buf, 8 + i) = At(rest, i)
  /\ Crc(buf, len) = At16(buf, len)

\* All of it is where the check and the parser look for it.
LEMMA FramedIs ==
  ASSUME NEW p \in Protocols, NEW len \in Word, NEW frame_id \in Word, NEW cmd_id \in Word,
         NEW rest \in Seq(Byte), len = 8 + Len(rest)
  PROVE  IsFramed(Framed(p, len, frame_id, cmd_id, rest), p, len, frame_id, cmd_id, rest)
<1> DEFINE s1 == FrameHead(p)
           s2 == s1 \o U16(len)
           s3 == s2 \o U16(frame_id)
           s4 == s3 \o U16(cmd_id)
           s5 == s4 \o rest
           crc == Crc(s5, Len(s5))
           s6 == s5 \o U16(crc)
<1>1. /\ s1 \in Seq(Byte) /\ Len(s1) = 2 /\ <<At(s1, 0), At(s1, 1)>> = FrameHead(p)
  BY HeadIs
<1>2. /\ s2 \in Seq(Byte) /\ Len(s2) = 4 /\ At16(s2, 2) = len
      /\ \A i \in Nat : i < 2 => At(s2, i) = At(s1, i)
  <2> HIDE DEF s1
  <2>1. s1 \in Seq(Byte) /\ Len(s1) = 2
    BY <1>1
  <2>2. /\ s1 \o U16(len) \in Seq(Byte) /\ Len(s1 \o U16(len)) = Len(s1) + 2
        /\ At16(s1 \o U16(len), Len(s1)) = len
        /\ \A i \in Nat : i < Len(s1) => At(s1 \o U16(len), i) = At(s1, i)
    BY <2>1, FieldOfConcat
  <2> QED BY <2>1, <2>2
<1>3. /\ s3 \in Seq(Byte) /\ Len(s3) = 6 /\ At16(s3, 4) = frame_id
      /\ \A i \in Nat : i < 4 => At(s3, i) = At(s2, i)
  <2> HIDE DEF s2
  <2>1. s2 \in Seq(Byte) /\ Len(s2) = 4
    BY <1>2
  <2>2. /\ s2 \o U16(frame_id) \in Seq(Byte) /\ Len(s2 \o U16(frame_id)) = Len(s2) + 2
        /\ At16(s2 \o U16(frame_id), Len(s2)) = frame_id
        /\ \A i \in Nat : i < Len(s2) => At(s2 \o U16(frame_id), i) = At(s2, i)
    BY <2>1, FieldOfConcat
  <2> QED BY <2>1, <2>2
<1>4. /\ s4 \in Seq(Byte) /\ Len(s4) = 8 /\ At16(s4, 6) = cmd_id
      /\ \A i \in Nat : i < 6 => At(s4, i) = At(s3, i)
  <2> HIDE DEF s3
  <2>1. s3 \in Seq(Byte) /\ Len(s3) = 6
    BY <1>3
  <2>2. /\ s3 \o U16(cmd_id) \in Seq(Byte) /\ Len(s3 \o U16(cmd_id)) = Len(s3) + 2
        /\ At16(s3 \o U16(cmd_id), Len(s3)) = cmd_id
        /\ \A i \in Nat : i < Len(s3) => At(s3 \o U16(cmd_id), i) = At(s3, i)
    BY <2>1, FieldOfConcat
  <2> QED BY <2>1, <2>2
<1>5. /\ s5 \in Seq(Byte) /\ Len(s5) = len
      /\ \A i \in Nat : i < 8 => At(s5, i) = At(s4, i)
      /\ \A i \in Nat : At(s5, 8 + i) = At(rest, i)
  <2> HIDE DEF s4
  <2>1. /\ s5 \in Seq(Byte) /\ Len(s5) = 8 + Len(rest)
        /\ \A i \in Nat : At(s5, i) = IF i < 8 THEN At(s4, i) ELSE At(rest, i - 8)
    <3>1. s4 \in Seq(Byte) /\ Len(s4) = 8
      BY <1>4
    <3>2. /\ s4 \o rest \in Seq(Byte) /\ Len(s4 \o rest) = Len(s4) + Len(rest)
          /\ \A i \in Nat : At(s4 \o rest, i) = IF i < Len(s4) THEN At(s4, i)
                                               ELSE At(rest, i - Len(s4))
      BY <3>1, AtOfConcat
    <3> QED BY <3>1, <3>2
  <2>2. \A i \in Nat : 8 + i \in Nat /\ ~(8 + i < 8) /\ 8 + i - 8 = i
    OBVIOUS
  <2> HIDE DEF s5
  <2> QED BY <2>1, <2>2
<1>6. crc \in Word
  <2>1. len \in Nat
    BY DEF Word
  <2> HIDE DEF s5
  <2> QED BY <1>5, <2>1, CrcIsWord
<1>7. /\ s6 \in Seq(Byte) /\ Len(s6) = len + 2 /\ At16(s6, len) = crc
      /\ \A i \in Nat : i < len => At(s6, i) = At(s5, i)
  <2> HIDE DEF s5, crc
  <2> QED BY <1>5, <1>6, FieldOfConcat
<1>8. Framed(p, len, frame_id, cmd_id, rest) = s6
  BY DEF Framed
<1> HIDE DEF s1, s2, s3, s4, s5, s6
<1>9. Crc(s6, len) = crc
  <2>1. len \in Nat
    BY DEF Word
  <2> QED BY <1>5, <1>7, <2>1, CrcOfPrefix
<1>10. len \in Nat /\ len >= 8 /\ Len(rest) \in Nat
  BY DEF Word
<1>11. /\ At(s6, 0) = At(s1, 0) /\ At(s6, 1) = At(s1, 1)
       /\ At(s6, 2) = At(s2, 2) /\ At(s6, 3) = At(s2, 3)
       /\ At(s6, 4) = At(s3, 4) /\ At(s6, 5) = At(s3, 5)
       /\ At(s6, 6) = At(s4, 6) /\ At(s6, 7) = At(s4, 7)
  <2>1. \A i \in Nat : i < 8 => At(s6, i) = At(s4, i)
    BY <1>5, <1>7, <1>10
  <2>2. \A i \in Nat : i < 6 => At(s6, i) = At(s3, i)
    BY <2>1, <1>4
  <2>3. \A i \in Nat : i < 4 => At(s6, i) = At(s2, i)
    BY <2>2, <1>3
  <2>4. \A i \in Nat : i < 2 => At(s6, i) = At(s1, i)
    BY <2>3, <1>2
  <2> QED BY <2>1, <2>2, <2>3, <2>4
<1>12. At16(s6, 2) = At16(s2, 2) /\ At16(s6, 4) = At16(s3, 4) /\ At16(s6, 6) = At16(s4, 6)
  <2>1. 2 + 1 = 3 /\ 4 + 1 = 5 /\ 6 + 1 = 7
    OBVIOUS
  <2> QED BY <1>11, <2>1 DEF At16
<1>13. \A i \in Nat : i < Len(rest) => At(s6, 8 + i) = At(rest, i)
  BY <1>5, <1>7, <1>10
<1>14. /\ s6 \in Seq(Byte) /\ Len(s6) = len + 2
       /\ <<At(s6, 0), At(s6, 1)>> = FrameHead(p)
       /\ At16(s6, 2) = len /\ At16(s6, 4) = frame_id /\ At16(s6, 6) = cmd_id
       /\ Crc(s6, len) = At16(s6, len)
  BY <1>1, <1>2, <1>3, <1>4, <1>7, <1>9, <1>11, <1>12
<1> QED BY <1>8, <1>13, <1>14 DEF IsFramed

\* What check and parser find in a line that starts with the frame of a request.
FrameLen(r) == ContentStart(r.protocol) + Len(r.data)

Carries(buf, r) ==
  /\ buf \in Seq(Byte) /\ Len(buf) >= FrameLen(r) + 2
  /\ <<At(buf, 0), At(buf, 1)>> = FrameHead(r.protocol)
  /\ At16(buf, 2) = FrameLen(r)
  /\ At16(buf, 4) = r.frame_id /\ At16(buf, 6) = r.cmd_id
  /\ r.protocol = "SL" => At16(buf, 9) * 65536 + At16(buf, 11) = r.device_id
  /\ \A i \in 1..Len(r.data) : At(buf, ContentStart(r.protocol) + i - 1) = r.data[i]
  /\ Crc(buf, FrameLen(r)) = At16(buf, FrameLen(r))

\* A frame carries its request, and fits into line[255].
LEMMA FrameIs ==
  ASSUME NEW r \in Requests
  PROVE  /\ Carries(Frame(r), r) /\ Len(Frame(r)) = FrameLen(r) + 2
         /\ r.protocol \in Protocols /\ r.data \in Seq(Byte) /\ Len(r.data) <= 240
         /\ r.frame_id \in Word /\ r.cmd_id \in Word /\ r.device_id \in Devices
         /\ FrameLen(r) \in Nat /\ 8 <= FrameLen(r) /\ FrameLen(r) <= 253
<1> DEFINE p    == r.protocol
           high == U16(r.device_id \div 65536)
           low  == U16(r.device_id % 65536)
           dev  == <<0>> \o (high \o low)
           mid  == IF p = "SL" THEN dev ELSE <<>>
           rest == mid \o r.data
           len  == ContentStart(p) + Len(r.data)
           buf  == Frame(r)
<1>1. /\ p \in Protocols /\ r.frame_id \in Word /\ r.cmd_id \in Word
      /\ r.device_id \in Devices /\ r.data \in Seq(Byte)
      /\ Len(r.data) \in Nat /\ Len(r.data) <= 240
  BY Constants DEF Requests, Protocols
<1>2. /\ r.device_id \div 65536 \in Word /\ r.device_id % 65536 \in Word
      /\ r.device_id = (r.device_id \div 65536) * 65536 + (r.device_id % 65536)
  BY <1>1, Constants
<1>3. /\ high \in Seq(Byte) /\ Len(high) = 2
      /\ At(high, 0) * 256 + At(high, 1) = r.device_id \div 65536
      /\ low \in Seq(Byte) /\ Len(low) = 2
      /\ At(low, 0) * 256 + At(low, 1) = r.device_id % 65536
  BY <1>2, U16Is
<1>4. /\ high \o low \in Seq(Byte) /\ Len(high \o low) = 4
      /\ \A i \in Nat : At(high \o low, i) = IF i < 2 THEN At(high, i) ELSE At(low, i - 2)
  <2> HIDE DEF high, low
  <2>0. high \in Seq(Byte) /\ low \in Seq(Byte)
    BY <1>3
  <2>1. /\ high \o low \in Seq(Byte) /\ Len(high \o low) = Len(high) + Len(low)
        /\ \A i \in Nat : At(high \o low, i) = IF i < Len(high) THEN At(high, i)
                                                            ELSE At(low, i - Len(high))
    BY <2>0, AtOfConcat
  <2>2. Len(high) = 2 /\ Len(low) = 2
    BY <1>3
  <2> QED BY <2>1, <2>2
<1>5. /\ dev \in Seq(Byte) /\ Len(dev) = 5
      /\ \A i \in Nat : i >= 1 => At(dev, i) = At(high \o low, i - 1)
  <2> DEFINE t == high \o low
  <2> HIDE DEF t
  <2>1. t \in Seq(Byte) /\ Len(t) = 4
    BY <1>4 DEF t
  <2>2. <<0>> \in Seq(Byte) /\ Len(<<0>>) = 1
    BY DEF Byte
  <2>3. /\ <<0>> \o t \in Seq(Byte) /\ Len(<<0>> \o t) = Len(<<0>>) + Len(t)
        /\ \A i \in Nat : At(<<0>> \o t, i) = IF i < Len(<<0>>) THEN At(<<0>>, i)
                                                            ELSE At(t, i - Len(<<0>>))
    BY <2>1, <2>2, AtOfConcat
  <2>4. \A i \in Nat : i >= 1 => ~(i < 1)
    OBVIOUS
  <2> QED BY <2>1, <2>2, <2>3, <2>4 DEF t
<1>6. mid \in Seq(Byte) /\ Len(mid) = ContentStart(p) - 8
  <2> HIDE DEF dev
  <2>1. CASE p = "SL"
    BY <1>5, <2>1 DEF ContentStart
  <2>2. CASE p # "SL"
    <3>1. p = "HT" /\ mid = <<>>
      BY <1>1, <2>2 DEF Protocols
    <3> QED BY <3>1 DEF ContentStart
  <2> QED BY <2>1, <2>2
<1>7. ContentStart(p) \in {8, 13} /\ (p = "SL" => ContentStart(p) = 13)
  BY DEF ContentStart
<1>8. /\ rest \in Seq(Byte) /\ Len(rest) = len - 8
      /\ \A i \in Nat : At(rest, i) = IF i < ContentStart(p) - 8 THEN At(mid, i)
                                      ELSE At(r.data, i - (ContentStart(p) - 8))
  <2> HIDE DEF mid, p
  <2> DEFINE data == r.data
  <2>1. data \in Seq(Byte) /\ Len(data) = Len(r.data)
    BY <1>1
  <2> HIDE DEF data
  <2>2. /\ mid \o data \in Seq(Byte) /\ Len(mid \o data) = Len(mid) + Len(data)
        /\ \A i \in Nat : At(mid \o data, i) = IF i < Len(mid) THEN At(mid, i)
                                               ELSE At(data, i - Len(mid))
    BY <1>6, <2>1, AtOfConcat
  <2>3. Len(mid) + Len(data) = len - 8
    BY <1>1, <1>6, <1>7, <2>1
  <2> QED BY <1>6, <2>2, <2>3 DEF data
<1>9. len \in Nat /\ 8 <= len /\ len <= 253 /\ len = 8 + Len(rest)
  <2> DEFINE n == Len(r.data)
  <2>1. len = ContentStart(p) + n /\ n \in Nat /\ n <= 240
    BY <1>1
  <2> HIDE DEF p, rest, mid, len, n
  <2>2. Len(rest) = len - 8
    BY <1>8
  <2> QED BY <1>7, <2>1, <2>2
<1>10. buf = Framed(p, 8 + Len(rest), r.frame_id, r.cmd_id, rest)
  BY DEF Frame, Framed, U32
<1> HIDE DEF p, high, low, dev, mid, rest, len, buf
<1>14. Len(rest) = ContentStart(p) + Len(r.data) - 8
  <2>1. Len(rest) = len - 8
    BY <1>8
  <2> QED BY <1>1, <1>7, <2>1 DEF len
<1>11. /\ buf \in Seq(Byte) /\ Len(buf) = len + 2
       /\ <<At(buf, 0), At(buf, 1)>> = FrameHead(p)
       /\ At16(buf, 2) = len /\ At16(buf, 4) = r.frame_id /\ At16(buf, 6) = r.cmd_id
       /\ \A i \in Nat : i < Len(rest) => At(buf, 8 + i) = At(rest, i)
       /\ Crc(buf, len) = At16(buf, len)
  <2>1. len \in Word
    BY <1>9 DEF Word
  <2>2. buf = Framed(p, len, r.frame_id, r.cmd_id, rest)
    BY <1>9, <1>10
  <2>3. len = 8 + Len(rest) /\ rest \in Seq(Byte)
    BY <1>8, <1>9
  <2>4. p \in Protocols /\ r.frame_id \in Word /\ r.cmd_id \in Word
    BY <1>1
  <2>5. IsFramed(buf, p, len, r.frame_id, r.cmd_id, rest)
    BY <2>1, <2>2, <2>3, <2>4, FramedIs
  <2> QED BY <2>5 DEF IsFramed
<1>12. \A i \in 1..Len(r.data) : At(buf, ContentStart(p) + i - 1) = r.data[i]
  <2>1. ASSUME NEW i \in 1..Len(r.data) PROVE At(buf, ContentStart(p) + i - 1) = r.data[i]
    <3> DEFINE n     == Len(r.data)
               start == ContentStart(p)
               k     == start - 8 + i - 1
    <3>1. n \in Nat /\ i \in 1..n /\ start \in {8, 13} /\ Len(rest) = start + n - 8
      BY <1>1, <1>7, <1>14
    <3>2. \A m \in Nat : At(rest, m) = IF m < start - 8 THEN At(mid, m)
                                       ELSE At(r.data, m - (start - 8))
      BY <1>8
    <3> HIDE DEF n, start
    <3>3. /\ k \in Nat /\ k < Len(rest) /\ 8 + k = start + i - 1
          /\ ~(k < start - 8) /\ k - (start - 8) = i - 1
      BY <3>1
    <3> HIDE DEF k
    <3>4. At(buf, 8 + k) = At(rest, k) /\ At(rest, k) = At(r.data, i - 1)
      BY <1>11, <3>2, <3>3
    <3>5. At(r.data, i - 1) = r.data[i]
      BY <1>1 DEF At
    <3> QED BY <3>3, <3>4, <3>5 DEF start
  <2> QED BY <2>1
<1>13. p = "SL" => At16(buf, 9) * 65536 + At16(buf, 11) = r.device_id
  <2> HAVE p = "SL"
  <2>1. Len(rest) >= 5 /\ ContentStart(p) - 8 = 5 /\ mid = dev
    <3> QED BY <1>1, <1>7, <1>14 DEF mid
  <2>2. \A i \in Nat : i < 5 => At(buf, 8 + i) = At(dev, i)
    BY <1>8, <1>11, <2>1
  <2>3. /\ At(buf, 9) = At(dev, 1) /\ At(buf, 10) = At(dev, 2)
        /\ At(buf, 11) = At(dev, 3) /\ At(buf, 12) = At(dev, 4)
    <3>1. 8 + 1 = 9 /\ 8 + 2 = 10 /\ 8 + 3 = 11 /\ 8 + 4 = 12
      OBVIOUS
    <3>2. /\ At(buf, 8 + 1) = At(dev, 1) /\ At(buf, 8 + 2) = At(dev, 2)
          /\ At(buf, 8 + 3) = At(dev, 3) /\ At(buf, 8 + 4) = At(dev, 4)
      BY <2>2
    <3> QED BY <3>1, <3>2
  <2>4. /\ At(dev, 1) = At(high, 0) /\ At(dev, 2) = At(high, 1)
        /\ At(dev, 3) = At(low, 0) /\ At(dev, 4) = At(low, 1)
    <3>1. /\ At(dev, 1) = At(high \o low, 0) /\ At(dev, 2) = At(high \o low, 1)
          /\ At(dev, 3) = At(high \o low, 2) /\ At(dev, 4) = At(high \o low, 3)
      BY <1>5
    <3>2. /\ At(high \o low, 0) = At(high, 0) /\ At(high \o low, 1) = At(high, 1)
          /\ At(high \o low, 2) = At(low, 0) /\ At(high \o low, 3) = At(low, 1)
      BY <1>4
    <3> QED BY <3>1, <3>2
  <2>5. At16(buf, 9) = r.device_id \div 65536 /\ At16(buf, 11) = r.device_id % 65536
    <3>1. 9 + 1 = 10 /\ 11 + 1 = 12
      OBVIOUS
    <3> QED BY <1>3, <2>3, <2>4, <3>1 DEF At16
  <2> QED BY <1>2, <2>5
<1>15. FrameLen(r) = len
  BY DEF FrameLen, p, len
<1>16. Carries(buf, r)
  <2>1. Len(buf) >= len + 2
    BY <1>9, <1>11
  <2>2. r.protocol = p
    BY DEF p
  <2> QED BY <1>11, <1>12, <1>13, <1>15, <2>1, <2>2 DEF Carries
<1>17. Len(buf) = FrameLen(r) + 2
  BY <1>11, <1>15
<1>18. FrameLen(r) \in Nat /\ 8 <= FrameLen(r) /\ FrameLen(r) <= 253
  BY <1>9, <1>15
<1> QED BY <1>1, <1>16, <1>17, <1>18 DEF p, buf

\* What do_response takes from a command has 16 bits.
HasWords(c) == c.frame_id \in Word /\ c.cmd_id \in Word /\ c.device_id % 65536 \in Word

\* What the check finds in the replies that do_response builds.
Answers(buf, c, reply) ==
  /\ <<At(buf, 0), At(buf, 1)>> = FrameHead("SL")
  /\ At16(buf, 2) = 11 + Len(reply)
  /\ At16(buf, 4) = c.frame_id /\ At16(buf, 6) = c.cmd_id
  /\ Crc(buf, 11 + Len(reply)) = At16(buf, 11 + Len(reply))
  /\ SubSeq(buf, 12, 11 + Len(reply)) = reply

\* Joining sequences is associative.
LEMMA BytesAssociate ==
  ASSUME NEW s \in Seq(Byte), NEW t \in Seq(Byte), NEW u \in Seq(Byte)
  PROVE  (s \o t) \o u = s \o (t \o u)
BY ConcatAssociative

\* What do_response builds is such an answer.
LEMMA ResponseIs ==
  ASSUME NEW c, HasWords(c),
         NEW reply \in Seq(Byte), Len(reply) <= 512
  PROVE  Answers(Response(c, reply), c, reply)
<1> DEFINE len  == 11 + Len(reply)
           buf  == Response(c, reply)
           ff   == <<255>>
           dev  == U16(c.device_id % 65536)
           rest == ff \o dev \o reply
           top  == FrameHead("SL") \o U16(len) \o U16(c.frame_id) \o U16(c.cmd_id)
<1>1. Len(reply) \in Nat /\ len \in Word /\ "SL" \in Protocols
  BY DEF Word, Protocols
<1>2. dev \in Seq(Byte) /\ Len(dev) = 2 /\ ff \in Seq(Byte) /\ Len(ff) = 1
  <2>1. c.device_id % 65536 \in Word
    BY DEF HasWords
  <2>2. <<255>> \in Seq(Byte) /\ Len(<<255>>) = 1
    BY DEF Byte
  <2> QED BY <2>1, <2>2, U16Is
<1>3. FrameHead("SL") \in Seq(Byte) /\ U16(len) \in Seq(Byte)
      /\ U16(c.frame_id) \in Seq(Byte) /\ U16(c.cmd_id) \in Seq(Byte)
  BY <1>1, HeadIs, U16Is DEF HasWords
<1>4. top \in Seq(Byte)
  <2> DEFINE a == FrameHead("SL")
             b == U16(len)
             d == U16(c.frame_id)
             e == U16(c.cmd_id)
  <2>1. a \in Seq(Byte) /\ b \in Seq(Byte) /\ d \in Seq(Byte) /\ e \in Seq(Byte)
    BY <1>3
  <2>2. top = a \o b \o d \o e
    OBVIOUS
  <2> HIDE DEF a, b, d, e, top
  <2>3. a \o b \in Seq(Byte)
    BY <2>1, AtOfConcat
  <2>4. a \o b \o d \in Seq(Byte)
    BY <2>1, <2>3, AtOfConcat
  <2>5. a \o b \o d \o e \in Seq(Byte)
    BY <2>1, <2>4, AtOfConcat
  <2> QED BY <2>2, <2>5
<1>5. /\ ff \o dev \in Seq(Byte) /\ Len(ff \o dev) = 3
  <2> HIDE DEF ff, dev
  <2>1. ff \o dev \in Seq(Byte) /\ Len(ff \o dev) = Len(ff) + Len(dev)
    BY <1>2, AtOfConcat
  <2> QED BY <1>2, <2>1
<1>6. /\ rest \in Seq(Byte) /\ Len(rest) = 3 + Len(reply)
      /\ \A i \in Nat : At(rest, i) = IF i < 3 THEN At(ff \o dev, i) ELSE At(reply, i - 3)
  <2> DEFINE s == ff \o dev
  <2>1. s \in Seq(Byte) /\ Len(s) = 3
    BY <1>5
  <2> HIDE DEF s, ff, dev
  <2>2. /\ s \o reply \in Seq(Byte) /\ Len(s \o reply) = Len(s) + Len(reply)
        /\ \A i \in Nat : At(s \o reply, i) = IF i < Len(s) THEN At(s, i)
                                              ELSE At(reply, i - Len(s))
    BY <2>1, AtOfConcat
  <2> QED BY <2>1, <2>2 DEF s
<1>7. top \o ff \o dev \o reply = top \o rest
  <2> HIDE DEF top, ff, dev
  <2>0. /\ top \in Seq(Byte) /\ ff \in Seq(Byte) /\ dev \in Seq(Byte)
    BY <1>2, <1>4
  <2>1. top \o ff \o dev = top \o (ff \o dev)
    BY <2>0, BytesAssociate
  <2> DEFINE s == ff \o dev
  <2>2. top \in Seq(Byte) /\ s \in Seq(Byte)
    BY <1>4, <1>5
  <2> HIDE DEF s
  <2>3. (top \o s) \o reply = top \o (s \o reply)
    BY <2>2, BytesAssociate
  <2> QED BY <2>1, <2>3 DEF s
<1>8. ReplyLength(13 + Len(reply)) = len
  BY <1>1 DEF ReplyLength
<1>9. buf = Framed("SL", len, c.frame_id, c.cmd_id, rest)
  <2> DEFINE sum(s) == s \o U16(Crc(s, Len(s)))
  <2>1. buf = sum(top \o ff \o dev \o reply)
    <3> DEFINE head(n) == FrameHead("SL") \o U16(n) \o U16(c.frame_id) \o U16(c.cmd_id)
    <3>1. buf = sum(head(ReplyLength(13 + Len(reply))) \o ff \o dev \o reply)
      BY DEF Response
    <3>2. head(ReplyLength(13 + Len(reply))) = top
      BY <1>8
    <3> HIDE DEF head, sum, buf, top, ff, dev
    <3> QED BY <3>1, <3>2
  <2>2. Framed("SL", len, c.frame_id, c.cmd_id, rest) = sum(top \o rest)
    BY DEF Framed
  <2> HIDE DEF top, ff, dev, rest, sum, buf
  <2> QED BY <1>7, <2>1, <2>2
<1> HIDE DEF buf, rest, top
<1>10. /\ buf \in Seq(Byte) /\ Len(buf) = len + 2
       /\ <<At(buf, 0), At(buf, 1)>> = FrameHead("SL")
       /\ At16(buf, 2) = len /\ At16(buf, 4) = c.frame_id /\ At16(buf, 6) = c.cmd_id
       /\ \A i \in Nat : i < Len(rest) => At(buf, 8 + i) = At(rest, i)
       /\ Crc(buf, len) = At16(buf, len)
  <2>1. len = 8 + Len(rest)
    BY <1>1, <1>6
  <2>2. c.frame_id \in Word /\ c.cmd_id \in Word /\ len \in Word /\ "SL" \in Protocols
    BY <1>1 DEF HasWords
  <2> HIDE DEF len
  <2>4. rest \in Seq(Byte)
    BY <1>6
  <2>3. IsFramed(buf, "SL", len, c.frame_id, c.cmd_id, rest)
    BY <1>9, <2>1, <2>2, <2>4, FramedIs
  <2> QED BY <2>3 DEF IsFramed
<1>11. SubSeq(buf, 12, len) = reply
  <2>1. /\ SubSeq(buf, 12, len) \in Seq(Byte) /\ Len(SubSeq(buf, 12, len)) = Len(reply)
        /\ \A i \in 1..Len(reply) : SubSeq(buf, 12, len)[i] = buf[12 + i - 1]
    <3>1. /\ len \in Nat /\ 12 \in 1..Len(buf) + 1
          /\ len \in 12 - 1..Len(buf) /\ len - 12 + 1 = Len(reply)
      BY <1>1, <1>10
    <3> HIDE DEF len
    <3> QED BY <1>10, <3>1, SubSeqProperties
  <2>2. ASSUME NEW i \in 1..Len(reply) PROVE buf[12 + i - 1] = reply[i]
    <3> HIDE DEF len
    <3>0. i \in Nat /\ 1 <= i /\ i <= Len(reply)
      BY <1>1
    <3>4. Len(rest) = 3 + Len(reply) /\ Len(buf) = 13 + Len(reply)
      BY <1>1, <1>6, <1>10 DEF len
    <3>1. /\ 2 + i \in Nat /\ 2 + i < Len(rest) /\ ~(2 + i < 3) /\ 2 + i - 3 = i - 1
          /\ 8 + (2 + i) = 10 + i /\ 12 + i - 1 = 11 + i /\ 10 + i + 1 = 11 + i
          /\ 10 + i < Len(buf) /\ i - 1 < Len(reply) /\ i - 1 + 1 = i
      BY <3>0, <3>4, <1>1
    <3>2. At(buf, 8 + (2 + i)) = At(rest, 2 + i) /\ At(rest, 2 + i) = At(reply, i - 1)
      BY <1>6, <1>10, <3>1
    <3>3. At(buf, 10 + i) = buf[11 + i] /\ At(reply, i - 1) = reply[i]
      BY <3>1 DEF At
    <3> QED BY <3>1, <3>2, <3>3
  <2> QED BY <2>1, <2>2, SeqEqual
<1> QED BY <1>10, <1>11 DEF buf, Answers

\* What stands behind a request in the same read is not looked at.
LEMMA SentCarries ==
  ASSUME NEW r \in Requests, NEW rest \in Followers
  PROVE  Carries(Frame(r) \o rest, r)
<1> DEFINE x == Frame(r)
           y == x \o rest
           len == FrameLen(r)
<1>1. /\ Carries(x, r) /\ Len(x) = len + 2 /\ x \in Seq(Byte)
      /\ len \in Nat /\ 8 <= len /\ ContentStart(r.protocol) \in Nat
      /\ Len(r.data) \in Nat /\ len = ContentStart(r.protocol) + Len(r.data)
      /\ r.protocol = "SL" => len >= 13
  <2>1. Carries(x, r) /\ Len(x) = len + 2 /\ len \in Nat /\ 8 <= len /\ r.data \in Seq(Byte)
    BY FrameIs
  <2>2. x \in Seq(Byte)
    BY <2>1 DEF Carries
  <2>3. /\ ContentStart(r.protocol) \in Nat
        /\ r.protocol = "SL" => ContentStart(r.protocol) = 13
    BY DEF ContentStart
  <2>4. Len(r.data) \in Nat /\ len = ContentStart(r.protocol) + Len(r.data)
    BY <2>1 DEF FrameLen
  <2> HIDE DEF x, len
  <2>5. r.protocol = "SL" => len >= 13
    BY <2>3, <2>4
  <2> QED BY <2>1, <2>2, <2>3, <2>4, <2>5
<1>2. rest \in Seq(Byte)
  BY Constants
<1> HIDE DEF x, len
<1>3. /\ y \in Seq(Byte) /\ Len(y) = Len(x) + Len(rest)
      /\ \A i \in Nat : At(y, i) = IF i < Len(x) THEN At(x, i) ELSE At(rest, i - Len(x))
  BY <1>1, <1>2, AtOfConcat
<1> HIDE DEF y
<1>4. Len(y) >= len + 2
  BY <1>1, <1>2, <1>3
<1>5. \A i \in Nat : i < len + 2 => At(y, i) = At(x, i)
  BY <1>1, <1>3
<1>6. \A i \in Nat : i + 1 < len + 2 => At16(y, i) = At16(x, i)
  <2>1. \A i \in Nat : i + 1 < len + 2 => i + 1 \in Nat /\ i < len + 2
    BY <1>1
  <2> QED BY <1>5, <2>1 DEF At16
<1>7. /\ At(y, 0) = At(x, 0) /\ At(y, 1) = At(x, 1)
      /\ At16(y, 2) = At16(x, 2) /\ At16(y, 4) = At16(x, 4) /\ At16(y, 6) = At16(x, 6)
      /\ At16(y, len) = At16(x, len)
  BY <1>1, <1>5, <1>6
<1>8. r.protocol = "SL" => At16(y, 9) = At16(x, 9) /\ At16(y, 11) = At16(x, 11)
  BY <1>1, <1>6
<1>9. ASSUME NEW i \in 1..Len(r.data)
      PROVE  At(y, ContentStart(r.protocol) + i - 1) = At(x, ContentStart(r.protocol) + i - 1)
  <2>1. /\ ContentStart(r.protocol) + i - 1 \in Nat
        /\ ContentStart(r.protocol) + i - 1 < len + 2
    BY <1>1
  <2> QED BY <1>5, <2>1
<1>10. Crc(y, len) = Crc(x, len)
  BY <1>1, <1>5, CrcOfPrefix
<1>11. /\ <<At(x, 0), At(x, 1)>> = FrameHead(r.protocol) /\ At16(x, 2) = len
       /\ At16(x, 4) = r.frame_id /\ At16(x, 6) = r.cmd_id
       /\ r.protocol = "SL" => At16(x, 9) * 65536 + At16(x, 11) = r.device_id
       /\ \A i \in 1..Len(r.data) : At(x, ContentStart(r.protocol) + i - 1) = r.data[i]
       /\ Crc(x, len) = At16(x, len)
  BY <1>1 DEF Carries, len
<1>12. /\ <<At(y, 0), At(y, 1)>> = FrameHead(r.protocol) /\ At16(y, 2) = len
       /\ At16(y, 4) = r.frame_id /\ At16(y, 6) = r.cmd_id
       /\ Crc(y, len) = At16(y, len)
  BY <1>7, <1>10, <1>11
<1>13. r.protocol = "SL" => At16(y, 9) * 65536 + At16(y, 11) = r.device_id
  BY <1>8, <1>11
<1>14. \A i \in 1..Len(r.data) : At(y, ContentStart(r.protocol) + i - 1) = r.data[i]
  BY <1>9, <1>11
<1>15. Carries(y, r)
  BY <1>3, <1>4, <1>12, <1>13, <1>14 DEF Carries, len
<1> QED BY <1>15 DEF x, y

\* Only the protocol of a request accepts it.
LEMMA SentChecks ==
  ASSUME NEW r \in Requests, NEW buf, Carries(buf, r), NEW q \in Protocols
  PROVE  Check(q, buf) <=> q = r.protocol
<1>1. r.protocol \in Protocols
  BY FrameIs
<1>2. /\ <<At(buf, 0), At(buf, 1)>> = FrameHead(r.protocol)
      /\ At16(buf, 2) = FrameLen(r)
      /\ Crc(buf, FrameLen(r)) = At16(buf, FrameLen(r))
  BY DEF Carries
<1>3. Check(q, buf) <=> FrameHead(r.protocol) = FrameHead(q)
  BY <1>2 DEF Check
<1> QED BY <1>1, <1>3, HeadTells

\* Its parser finds what the client wrote, and the name of the id if it has one.
LEMMA SentParses ==
  ASSUME NEW r \in Requests, NEW buf, Carries(buf, r), NEW stack
  PROVE  LET c == Parse(r.protocol, buf, stack)
             names == CmdNames(r.protocol)
         IN  /\ c.protocol = r.protocol /\ c.frame_id = r.frame_id /\ c.cmd_id = r.cmd_id
             /\ c.data = r.data
             /\ r.protocol = "SL" => c.device_id = r.device_id
             /\ r.cmd_id \in DOMAIN names => c.cmd_name = names[r.cmd_id]
<1> DEFINE p == r.protocol
           start == ContentStart(p)
           n == Len(r.data)
           names == CmdNames(p)
           data == [i \in 1..At16(buf, 2) - start |-> At(buf, start + i - 1)]
<1>1. /\ r.data \in Seq(Byte) /\ n \in Nat /\ n <= 240
  BY FrameIs
<1>2. start \in Nat
  BY DEF ContentStart
<1>3. /\ At16(buf, 2) = start + n /\ At16(buf, 4) = r.frame_id /\ At16(buf, 6) = r.cmd_id
      /\ p = "SL" => At16(buf, 9) * 65536 + At16(buf, 11) = r.device_id
      /\ \A i \in 1..n : At(buf, start + i - 1) = r.data[i]
  BY DEF Carries, FrameLen
<1>5. data = r.data
  <2> HIDE DEF start, p
  <2>1. At16(buf, 2) - start = n
    <3> HIDE DEF n
    <3> QED BY <1>1, <1>2, <1>3
  <2>2. data = [i \in 1..n |-> r.data[i]]
    BY <1>3, <2>1
  <2>3. r.data = [i \in 1..n |-> r.data[i]]
    BY <1>1
  <2> QED BY <2>2, <2>3
<1>6. Parse(p, buf, stack) =
        [protocol  |-> p, frame_id  |-> At16(buf, 4), cmd_id    |-> At16(buf, 6),
         cmd_name  |-> IF At16(buf, 6) \in DOMAIN names THEN names[At16(buf, 6)]
                       ELSE stack.cmd_name,
         device_id |-> IF p = "SL" THEN At16(buf, 9) * 65536 + At16(buf, 11)
                       ELSE stack.device_id,
         data      |-> data]
  BY DEF Parse
<1> HIDE DEF p, data, names
<1>7. /\ Parse(p, buf, stack).protocol = p /\ Parse(p, buf, stack).frame_id = At16(buf, 4)
      /\ Parse(p, buf, stack).cmd_id = At16(buf, 6) /\ Parse(p, buf, stack).data = data
      /\ p = "SL" => Parse(p, buf, stack).device_id = At16(buf, 9) * 65536 + At16(buf, 11)
      /\ At16(buf, 6) \in DOMAIN names => Parse(p, buf, stack).cmd_name = names[At16(buf, 6)]
  BY <1>6
<1> QED BY <1>3, <1>5, <1>7 DEF p, names

\* What stands at the places of ids and devices has 16 and 32 bits.
LEMMA ParsedIsWord ==
  ASSUME NEW buf \in Seq(Byte), NEW p \in Protocols, NEW stack \in Stacks
  PROVE  LET c == Parse(p, buf, stack)
         IN  c.protocol = p /\ HasWords(c)
<1>1. ASSUME NEW i \in Nat PROVE At16(buf, i) \in Word
  <2>1. At(buf, i) \in Byte /\ At(buf, i + 1) \in Byte
    BY AtIsByte
  <2> QED BY <2>1 DEF At16, Byte, Word
<1>2. /\ At16(buf, 4) \in Word /\ At16(buf, 6) \in Word
      /\ At16(buf, 9) \in Word /\ At16(buf, 11) \in Word
  BY <1>1
<1>3. \A a, b \in Word : (a * 65536 + b) % 65536 \in Word
  BY DEF Word
<1>4. stack.device_id % 65536 \in Word
  BY Constants DEF Stacks
<1> DEFINE c == Parse(p, buf, stack)
<1>5. c.protocol = p /\ c.frame_id = At16(buf, 4) /\ c.cmd_id = At16(buf, 6)
  BY DEF Parse
<1>6. c.device_id = IF p = "SL" THEN At16(buf, 9) * 65536 + At16(buf, 11) ELSE stack.device_id
  BY DEF Parse
<1> HIDE DEF c
<1>7. c.device_id % 65536 \in Word
  BY <1>2, <1>3, <1>4, <1>6
<1> QED BY <1>2, <1>5, <1>7 DEF HasWords, c

\* Xor takes away what it has put in.
LEMMA ByteBack ==
  ASSUME NEW a \in Byte, NEW b \in Byte
  PROVE  XorByte(a, XorByte(a, b)) = b
BY ByteAssociates, ByteZero

\* Damage changes three neighbouring bytes by its bits, and nothing else.
LEMMA FlipIs ==
  ASSUME NEW x \in Seq(Byte), NEW i \in 1..Len(x) - 2, NEW bits \in Bursts
  PROVE  LET y == Flip(x, i, bits) IN
         /\ y \in Seq(Byte) /\ Len(y) = Len(x)
         /\ \A k \in Nat : k \notin {i - 1, i, i + 1} => At(y, k) = At(x, k)
         /\ XorByte(At(x, i - 1), At(y, i - 1)) = bits[1]
         /\ XorByte(At(x, i), At(y, i)) = bits[2]
         /\ XorByte(At(x, i + 1), At(y, i + 1)) = bits[3]
<1> DEFINE y == Flip(x, i, bits)
           b1 == bits[1]
           b2 == bits[2]
           b3 == bits[3]
<1>1. b1 \in Byte /\ b2 \in Byte /\ b3 \in Byte
  BY Constants
<1>2. /\ i \in Nat /\ i >= 1 /\ i - 1 \in Nat /\ i < Len(x) /\ i - 1 < Len(x) /\ i - 1 + 1 = i
      /\ i + 1 \in Nat /\ i + 1 < Len(x) /\ i + 1 + 1 = i + 2
      /\ Len(x) \in Nat /\ i \in 1..Len(x) /\ i + 1 \in 1..Len(x) /\ i + 2 \in 1..Len(x)
      /\ i # i + 1 /\ i # i + 2 /\ i + 1 # i + 2
  OBVIOUS
<1>3. y = [x EXCEPT ![i] = Xor(@, b1), ![i + 1] = Xor(@, b2), ![i + 2] = Xor(@, b3)]
  BY DEF Flip
<1> HIDE DEF b1, b2, b3, y
<1>4. x[i] \in Byte /\ x[i + 1] \in Byte /\ x[i + 2] \in Byte
  BY <1>2
<1> DEFINE c1 == XorByte(x[i], b1)
           c2 == XorByte(x[i + 1], b2)
           c3 == XorByte(x[i + 2], b3)
           n  == Len(x)
<1>5. /\ Xor(x[i], b1) = c1 /\ Xor(x[i + 1], b2) = c2 /\ Xor(x[i + 2], b3) = c3
      /\ c1 \in Byte /\ c2 \in Byte /\ c3 \in Byte
  BY <1>1, <1>4, XorOfBytes
<1>6. /\ XorByte(x[i], c1) = b1 /\ XorByte(x[i + 1], c2) = b2 /\ XorByte(x[i + 2], c3) = b3
  BY <1>1, <1>4, ByteBack
<1>7. y = [x EXCEPT ![i] = c1, ![i + 1] = c2, ![i + 2] = c3]
  <2> HIDE DEF c1, c2, c3
  <2> QED BY <1>2, <1>3, <1>5
<1> HIDE DEF c1, c2, c3
<1>8. /\ DOMAIN y = DOMAIN x /\ y[i] = c1 /\ y[i + 1] = c2 /\ y[i + 2] = c3
      /\ \A k \in 1..Len(x) : k \notin {i, i + 1, i + 2} => y[k] = x[k]
  BY <1>2, <1>7
<1>9. y \in Seq(Byte) /\ Len(y) = Len(x)
  <2>1. y \in [1..Len(x) -> Byte]
    <3>1. x \in [1..n -> Byte]
      OBVIOUS
    <3> HIDE DEF n
    <3>2. y \in [1..n -> Byte]
      BY <1>5, <1>7, <3>1
    <3> QED BY <3>2 DEF n
  <2> QED BY <1>2, <2>1
<1>10. ASSUME NEW k \in Nat, k \notin {i - 1, i, i + 1} PROVE At(y, k) = At(x, k)
  <2>1. k < Len(x) => k + 1 \in 1..Len(x) /\ k + 1 \notin {i, i + 1, i + 2}
    BY <1>2, <1>10
  <2> QED BY <1>8, <1>9, <2>1 DEF At
<1>11. /\ At(x, i - 1) = x[i] /\ At(x, i) = x[i + 1] /\ At(x, i + 1) = x[i + 2]
       /\ At(y, i - 1) = y[i] /\ At(y, i) = y[i + 1] /\ At(y, i + 1) = y[i + 2]
  BY <1>2, <1>9 DEF At
<1>12. /\ XorByte(At(x, i - 1), At(y, i - 1)) = b1 /\ XorByte(At(x, i), At(y, i)) = b2
       /\ XorByte(At(x, i + 1), At(y, i + 1)) = b3
  BY <1>6, <1>8, <1>11
<1> QED BY <1>9, <1>10, <1>12 DEF y, b1, b2, b3

\* A check accepts a damaged frame only with a length field that is not what it was,
\* and shorter, or pointing behind the frame where something follows.  Over the
\* frame and its checksum the checksum is 0, and stays 0 in the cleared part behind
\* it; over the damaged line it is not.
LEMMA DamageSeen ==
  ASSUME NEW r \in Requests, NEW rest \in Followers, NEW x, x = Frame(r) \o rest,
         NEW i \in 1..Len(Frame(r)) - 2, NEW bits \in Bursts,
         NEW y, y = Flip(x, i, bits),
         NEW q \in Protocols, Check(q, y),
         At16(y, 2) = FrameLen(r) \/ (At16(y, 2) >= FrameLen(r) /\ Len(x) = FrameLen(r) + 2)
  PROVE  FALSE
<1> DEFINE f == Frame(r)
           len == FrameLen(r)
           n == At16(y, 2)
<1>1. /\ Len(f) = len + 2 /\ len \in Nat
      /\ f \in Seq(Byte) /\ rest \in Seq(Byte)
  BY FrameIs, Constants DEF Carries
<1>2. x \in Seq(Byte) /\ Len(x) >= len + 2 /\ At16(x, 2) = len /\ Crc(x, len) = At16(x, len)
  BY SentCarries DEF Carries
<1>0. n = len \/ (n >= len /\ Len(x) = len + 2)
  OBVIOUS
<1> HIDE DEF f, len
<1>3. i \in Nat /\ i >= 1 /\ i - 1 \in Nat /\ i - 1 + 3 <= len + 2 /\ i \in 1..Len(x) - 2
      /\ i - 1 + 1 = i /\ i - 1 + 2 = i + 1
  <2>1. i \in 1..Len(f) - 2
    BY DEF f
  <2>2. Len(x) \in Nat
    BY <1>2
  <2> QED BY <1>1, <1>2, <2>1, <2>2
<1>4. /\ y \in Seq(Byte)
      /\ \A k \in Nat : k \notin {i - 1, i, i + 1} => At(y, k) = At(x, k)
      /\ XorByte(At(x, i - 1), At(y, i - 1)) = bits[1]
      /\ XorByte(At(x, i), At(y, i)) = bits[2]
      /\ XorByte(At(x, i + 1), At(y, i + 1)) = bits[3]
  BY <1>2, <1>3, FlipIs
<1>5. Crc(x, len + 2) = 0
  BY <1>1, <1>2, CrcOfCrc
<1>6. n \in Nat /\ len <= n
  <2>1. At(y, 2) \in Byte /\ At(y, 3) \in Byte /\ 2 + 1 = 3
    BY <1>4, AtIsByte
  <2>2. n \in Nat
    BY <2>1 DEF At16, Byte
  <2> HIDE DEF n
  <2> QED BY <1>0, <1>1, <2>2
<1> HIDE DEF n
<1>7. Crc(x, n + 2) = 0
  <2>1. CASE n = len
    BY <1>5, <2>1
  <2>2. CASE Len(x) = len + 2
    <3>1. len + 2 \in Nat /\ n + 2 \in Nat /\ len + 2 <= n + 2
      BY <1>1, <1>6
    <3>2. \A k \in Nat : len + 2 <= k /\ k < n + 2 => At(x, k) = 0
      BY <1>1, <2>2, <3>1 DEF At
    <3> QED BY <1>5, <3>1, <3>2, CrcOfZeros
  <2> QED BY <1>0, <2>1, <2>2
<1>8. Crc(x, n + 2) # Crc(y, n + 2)
  <2> DEFINE j == i - 1
             h == n + 2
  <2>1. j \in Nat /\ h \in Nat /\ j + 3 <= h /\ j + 1 = i /\ j + 2 = i + 1
    BY <1>1, <1>3, <1>6
  <2>2. PICK m \in Moduli : bits[1] < m /\ bits[3] % m = 0
    BY Constants
  <2>3. /\ bits[1] # 0 \/ bits[2] # 0 \/ bits[3] # 0
        /\ \A b \in Byte : XorByte(b, b) = 0
    BY Constants, ByteZero
  <2> HIDE DEF j, h
  <2>4. At(x, j) \in Byte /\ At(x, j + 1) \in Byte /\ At(x, j + 2) \in Byte
    <3>1. j + 1 \in Nat /\ j + 2 \in Nat
      BY <2>1
    <3> QED BY <1>2, <2>1, <3>1, AtIsByte
  <2>5. /\ \A k \in Nat : k < h /\ k \notin {j, j + 1, j + 2} => At(x, k) = At(y, k)
        /\ XorByte(At(x, j), At(y, j)) = bits[1]
        /\ XorByte(At(x, j + 1), At(y, j + 1)) = bits[2]
        /\ XorByte(At(x, j + 2), At(y, j + 2)) = bits[3]
    BY <1>4, <2>1 DEF j
  <2>6. \E k \in {j, j + 1, j + 2} : At(x, k) # At(y, k)
    BY <2>3, <2>4, <2>5
  <2>7. XorByte(At(x, j), At(y, j)) < m /\ XorByte(At(x, j + 2), At(y, j + 2)) % m = 0
    BY <2>2, <2>5
  <2>8. x \in Seq(Byte) /\ y \in Seq(Byte)
    BY <1>2, <1>4
  <2>9. Crc(x, h) # Crc(y, h)
    BY <2>1, <2>2, <2>5, <2>6, <2>7, <2>8, CrcSeesBurst
  <2> QED BY <2>9 DEF h
<1>9. Crc(y, n) = At16(y, n)
  BY DEF Check, n
<1>10. Crc(y, n) = At16(y, n) <=> Crc(y, n + 2) = 0
  BY <1>4, <1>6, CrcOfCrc
<1> QED BY <1>7, <1>8, <1>9, <1>10

-----------------------------------------------------------------------------
(* The invariant                                                           *)

\* The list holds protocols of the three kinds.
ListInv == protocols \in Seq({"HT", "SL", "TEXT"})

\* A request on its way is one, and its line is the frame with what follows it,
\* damaged or not.
LineInv ==
  /\ stage \in {"none", "sent", "damaged", "refused", "parsed", "overrun", "replied"}
  /\ stage # "none" => request \in Requests
  /\ stage = "sent" => \E rest \in Followers : line = Frame(request) \o rest
  /\ stage = "damaged" =>
       \E rest \in Followers, i \in 1..Len(Frame(request)) - 2, bits \in Bursts :
         line = Flip(Frame(request) \o rest, i, bits)

\* What a binary command is answered with has 16 bits, and the answer is the reply
\* to it.
CmdInv ==
  /\ stage \in {"parsed", "replied"} /\ cmd.protocol # "TEXT" => HasWords(cmd)
  /\ stage = "replied" =>
       cmd.protocol # "TEXT" /\ \E reply \in Replies : answer = Response(cmd, reply)

IInv == ListInv /\ LineInv /\ CmdInv

\* No request has been sent.
LEMMA InitIInv == Init => IInv
BY DEF Init, IInv, ListInv, LineInv, CmdInv, None

\* A damaged line holds bytes, as many as before.
LEMMA FlippedIs ==
  ASSUME NEW r \in Requests, NEW rest \in Followers, NEW i \in 1..Len(Frame(r)) - 2,
         NEW bits \in Bursts
  PROVE  LET y == Flip(Frame(r) \o rest, i, bits) IN
         y \in Seq(Byte) /\ Len(y) = Len(Frame(r) \o rest) /\ Len(y) > 0
<1> DEFINE x == Frame(r) \o rest
           n == Len(Frame(r))
<1>1. /\ x \in Seq(Byte) /\ Len(x) >= FrameLen(r) + 2
      /\ n = FrameLen(r) + 2 /\ FrameLen(r) \in Nat
  BY SentCarries, FrameIs DEF Carries
<1>2. i \in 1..n - 2
  OBVIOUS
<1> HIDE DEF x, n
<1>3. Len(x) \in Nat
  BY <1>1
<1>4. i \in 1..Len(x) - 2 /\ Len(x) > 0
  BY <1>1, <1>2, <1>3
<1>5. Flip(x, i, bits) \in Seq(Byte) /\ Len(Flip(x, i, bits)) = Len(x)
  BY <1>1, <1>4, FlipIs
<1> QED BY <1>4, <1>5 DEF x

\* A line that has been sent holds bytes.
LEMMA LineIsBytes ==
  ASSUME LineInv, stage \in {"sent", "damaged"}
  PROVE  line \in Seq(Byte)
<1>1. request \in Requests
  BY DEF LineInv
<1>2. CASE stage = "sent"
  <2>1. \E rest \in Followers : line = Frame(request) \o rest
    BY <1>2 DEF LineInv
  <2> QED BY <1>1, <2>1, SentCarries DEF Carries
<1>3. CASE stage = "damaged"
  <2>1. PICK rest \in Followers, i \in 1..Len(Frame(request)) - 2, bits \in Bursts :
               line = Flip(Frame(request) \o rest, i, bits)
    BY <1>3 DEF LineInv
  <2> QED BY <1>1, <2>1, FlippedIs
<1> QED BY <1>2, <1>3

\* The list has names of protocols.
LEMMA ListHas ==
  ASSUME ListInv, NEW n \in DOMAIN protocols, protocols[n] # "TEXT"
  PROVE  protocols[n] \in Protocols
BY DEF ListInv, Protocols

\* A request that was not damaged is accepted by its own protocol only: the text
\* protocol asks for another first byte.
LEMMA AcceptedIsSent ==
  ASSUME ListInv, LineInv, stage = "sent", NEW text \in TextVerdicts
  PROVE  /\ request \in Requests /\ Carries(line, request)
         /\ \A n \in DOMAIN protocols :
              n \in Accepting(text) <=> protocols[n] = request.protocol
<1>1. request \in Requests /\ \E rest \in Followers : line = Frame(request) \o rest
  BY DEF LineInv
<1>2. Carries(line, request)
  BY <1>1, SentCarries
<1>3. request.protocol \in Protocols
  BY <1>1, FrameIs
<1>4. At(line, 0) \in {\h48, \h22}
  <2>1. <<At(line, 0), At(line, 1)>> = FrameHead(request.protocol)
    BY <1>2 DEF Carries
  <2> QED BY <2>1 DEF FrameHead
<1>5. text = FALSE
  <2>1. text \in BOOLEAN /\ (text => At(line, 0) \in {0, 32, 91} \cup 49..57)
    BY DEF TextVerdicts
  <2>2. ~(At(line, 0) \in {0, 32, 91} \cup 49..57)
    BY <1>4
  <2> QED BY <2>1, <2>2
<1>6. ASSUME NEW n \in DOMAIN protocols
      PROVE  n \in Accepting(text) <=> protocols[n] = request.protocol
  <2>1. CASE protocols[n] = "TEXT"
    BY <1>3, <1>5, <2>1 DEF Accepting, Protocols
  <2>2. CASE protocols[n] # "TEXT"
    <3>1. Check(protocols[n], line) <=> protocols[n] = request.protocol
      BY <1>1, <1>2, <2>2, ListHas, SentChecks
    <3> QED BY <2>2, <3>1 DEF Accepting
  <2> QED BY <2>1, <2>2
<1> QED BY <1>1, <1>2, <1>6

\* Who takes a request that was not damaged is its own protocol, and it finds the
\* content behind the head.
LEMMA TakenIsSent ==
  ASSUME ListInv, LineInv, stage = "sent", NEW text \in TextVerdicts,
         NEW n \in DOMAIN protocols, Taken(n, text)
  PROVE  /\ request \in Requests /\ Carries(line, request)
         /\ protocols[n] = request.protocol /\ protocols[n] # "TEXT"
         /\ ContentStart(protocols[n]) <= At16(line, 2)
<1>1. /\ request \in Requests /\ Carries(line, request)
      /\ n \in Accepting(text) <=> protocols[n] = request.protocol
  BY AcceptedIsSent
<1>2. protocols[n] = request.protocol
  BY <1>1 DEF Taken
<1>3. request.protocol \in Protocols /\ request.data \in Seq(Byte)
  BY <1>1, FrameIs
<1>4. At16(line, 2) = ContentStart(request.protocol) + Len(request.data)
  BY <1>1 DEF Carries, FrameLen
<1>5. ContentStart(request.protocol) \in Nat /\ Len(request.data) \in Nat
  BY <1>3 DEF ContentStart
<1>6. ContentStart(request.protocol) <= At16(line, 2)
  BY <1>4, <1>5
<1> QED BY <1>1, <1>2, <1>3, <1>6 DEF Protocols

\* What a handler that accepts a request takes from it.
LEMMA HandleParses ==
  ASSUME IInv, Handle, stage = "sent"
  PROVE  /\ request \in Requests
         /\ \E stack : cmd' = Parse(request.protocol, line, stack) /\ Carries(line, request)
<1>1. PICK n \in DOMAIN protocols, text \in TextVerdicts, stack \in Stacks :
             Taken(n, text) /\ cmd' = Parse(protocols[n], line, stack)
  BY DEF Handle
<1>2. /\ request \in Requests /\ Carries(line, request) /\ protocols[n] = request.protocol
  BY <1>1, TakenIsSent DEF IInv
<1> QED BY <1>1, <1>2

\* Every step keeps the invariant.
LEMMA NextIInv == IInv /\ [Next]_vars => IInv'
<1> SUFFICES ASSUME IInv, [Next]_vars PROVE IInv'
  OBVIOUS
<1> USE DEF IInv
<1>1. CASE RegisterProtocol
  <2>1. LineInv' /\ CmdInv'
    BY <1>1 DEF RegisterProtocol, LineInv, CmdInv
  <2>2. ListInv'
    <3>1. Len(protocols) \in Nat /\ Len(protocols) < 3
      BY <1>1 DEF RegisterProtocol, Order, ListInv
    <3>2. Len(protocols) + 1 \in 1..3
      BY <3>1
    <3>3. Order[Len(protocols) + 1] \in {"HT", "SL", "TEXT"}
      BY <3>2 DEF Order
    <3> QED BY <1>1, <3>3 DEF RegisterProtocol, ListInv
  <2> QED BY <2>1, <2>2
<1>2. CASE \E r \in Requests, rest \in Followers : Send(r, rest)
  <2>1. PICK r \in Requests, rest \in Followers : Send(r, rest)
    BY <1>2
  <2>2. LineInv'
    BY <2>1 DEF Send, LineInv
  <2> QED BY <2>1, <2>2 DEF Send, ListInv, CmdInv
<1>3. CASE \E i \in 1..Len(line), bits \in Bursts : Damage(i, bits)
  <2>1. PICK i \in 1..Len(line), bits \in Bursts : Damage(i, bits)
    BY <1>3
  <2>2. PICK rest \in Followers : line = Frame(request) \o rest
    BY <2>1 DEF Damage, LineInv
  <2>3. /\ i \in 1..Len(Frame(request)) - 2 /\ line' = Flip(Frame(request) \o rest, i, bits)
        /\ request' = request /\ stage' = "damaged" /\ request \in Requests
    BY <2>1, <2>2 DEF Damage, LineInv
  <2>4. LineInv'
    BY <2>3 DEF LineInv
  <2> QED BY <2>1, <2>4 DEF Damage, ListInv, CmdInv
<1>4. CASE HandleNone
  BY <1>4 DEF HandleNone, ListInv, LineInv, CmdInv
<1>5. CASE Handle
  <2>1. PICK n \in DOMAIN protocols, stack \in Stacks :
               protocols[n] # "TEXT" /\ cmd' = Parse(protocols[n], line, stack)
    BY <1>5 DEF Handle
  <2>2. line \in Seq(Byte)
    BY <1>5, LineIsBytes DEF Handle
  <2>3. HasWords(cmd')
    BY <2>1, <2>2, ListHas, ParsedIsWord
  <2>4. HasWords(cmd)'
    BY <2>3 DEF HasWords
  <2> QED BY <1>5, <2>4 DEF Handle, ListInv, LineInv, CmdInv
<1>6. CASE HandleOverrun
  BY <1>6 DEF HandleOverrun, ListInv, LineInv, CmdInv
<1>7. CASE HandleText
  BY <1>7 DEF HandleText, ListInv, LineInv, CmdInv
<1>8. CASE \E reply \in Replies : DoResponse(reply)
  BY <1>8 DEF DoResponse, ListInv, LineInv, CmdInv, HasWords
<1>9. CASE UNCHANGED vars
  BY <1>9 DEF vars, ListInv, LineInv, CmdInv, HasWords
<1> QED BY <1>1, <1>2, <1>3, <1>4, <1>5, <1>6, <1>7, <1>8, <1>9 DEF Next

\* The strengthening of the invariants below holds in every reachable state.
LEMMA Invariant == Spec => []IInv
BY InitIInv, NextIInv, PTL DEF Spec

-----------------------------------------------------------------------------
(* Theorems                                                                *)

\* Along every frame, whatever it carries, the table gives the remainder of the
\* division by x^16+x^12+x^5+1, which common.h states.
THEOREM ChecksumIsCcitt == Spec => []CrcIsCcitt
<1>1. ASSUME IInv PROVE CrcIsCcitt
  <2>1. SUFFICES ASSUME stage = "sent", NEW n \in 1..Len(line)
                 PROVE  Crc(line, n) = Divide(Crc(line, n - 1), line[n])
    BY DEF CrcIsCcitt
  <2>2. line \in Seq(Byte)
    <3>1. \E rest \in Followers : line = Frame(request) \o rest
      BY <1>1, <2>1 DEF IInv, LineInv
    <3>2. request \in Requests
      BY <1>1, <2>1 DEF IInv, LineInv
    <3> QED BY <3>1, <3>2, SentCarries DEF Carries
  <2>3. /\ n - 1 \in Nat /\ n - 1 + 1 = n /\ n - 1 < Len(line) /\ line[n] \in Byte
    BY <2>2
  <2>4. Crc(line, n) = CrcStep(Crc(line, n - 1), At(line, n - 1))
    BY <2>3, CrcUnfolds
  <2>5. At(line, n - 1) = line[n]
    BY <2>3 DEF At
  <2>6. Crc(line, n - 1) \in Word
    BY <2>2, <2>3, CrcIsWord
  <2> QED BY <2>3, <2>4, <2>5, <2>6, StepDivides
<1> QED BY <1>1, Invariant, PTL

\* A command is what the client sent, whatever stands behind its frame in the
\* same read, with the name of its id if the protocol has one, and a frame is
\* refused only before its protocol is registered.
THEOREM CommandIsSent == Spec => ParsedIsSent
<1> DEFINE Parsed == stage = "sent" /\ stage' = "parsed" =>
             /\ \A f \in {"protocol", "frame_id", "cmd_id", "data"} : cmd'[f] = request[f]
             /\ request.protocol = "SL" => cmd'.device_id = request.device_id
             /\ LET names == CmdNames(request.protocol) IN
                request.cmd_id \in DOMAIN names => cmd'.cmd_name = names[request.cmd_id]
           Refused == stage = "sent" /\ stage' = "refused" =>
             \A n \in DOMAIN protocols : protocols[n] # request.protocol
           Inside == stage = "sent" => stage' # "overrun"
<1>0. ASSUME IInv, [Next]_vars, stage = "sent", stage' = "parsed" PROVE Handle
  <2>1. ~HandleText
    <3>1. SUFFICES ASSUME NEW n \in DOMAIN protocols, NEW text \in TextVerdicts, Taken(n, text)
                   PROVE  protocols[n] # "TEXT"
      BY DEF HandleText
    <3> QED BY <1>0, <3>1, TakenIsSent DEF IInv
  <2> QED BY <1>0, <2>1
          DEF Next, vars, RegisterProtocol, Send, Damage, HandleNone, HandleOverrun, DoResponse
<1>1. ASSUME IInv, [Next]_vars PROVE Parsed
  <2>1. SUFFICES ASSUME stage = "sent", stage' = "parsed" PROVE Parsed
    OBVIOUS
  <2>2. Handle
    BY <1>0, <1>1, <2>1
  <2>3. PICK stack : cmd' = Parse(request.protocol, line, stack) /\ Carries(line, request)
    BY <1>1, <2>1, <2>2, HandleParses
  <2>4. request \in Requests
    BY <1>1, <2>1, <2>2, HandleParses
  <2>5. /\ cmd'.protocol = request.protocol /\ cmd'.frame_id = request.frame_id
        /\ cmd'.cmd_id = request.cmd_id /\ cmd'.data = request.data
        /\ request.protocol = "SL" => cmd'.device_id = request.device_id
        /\ request.cmd_id \in DOMAIN CmdNames(request.protocol) =>
             cmd'.cmd_name = CmdNames(request.protocol)[request.cmd_id]
    BY <2>3, <2>4, SentParses
  <2> QED BY <2>5
<1>2. ASSUME IInv, [Next]_vars PROVE Refused
  <2>1. SUFFICES ASSUME stage = "sent", stage' = "refused", NEW n \in DOMAIN protocols
                 PROVE  protocols[n] # request.protocol
    OBVIOUS
  <2>2. HandleNone
    BY <1>2, <2>1 DEF Next, vars, RegisterProtocol, Send, Damage, HandleNone, Handle,
                      HandleOverrun, HandleText, DoResponse
  <2>3. PICK text \in TextVerdicts : Accepting(text) = {}
    BY <2>2 DEF HandleNone
  <2>4. n \in Accepting(text) <=> protocols[n] = request.protocol
    BY <1>2, <2>1, AcceptedIsSent DEF IInv
  <2> QED BY <2>3, <2>4
<1>3. ASSUME IInv, [Next]_vars PROVE Inside
  <2>1. SUFFICES ASSUME stage = "sent", stage' = "overrun" PROVE FALSE
    OBVIOUS
  <2>2. HandleOverrun
    BY <1>3, <2>1 DEF Next, vars, RegisterProtocol, Send, Damage, HandleNone, Handle,
                      HandleText, DoResponse
  <2>3. PICK n \in DOMAIN protocols, text \in TextVerdicts :
               Taken(n, text) /\ At16(line, 2) < ContentStart(protocols[n])
    BY <2>2 DEF HandleOverrun
  <2>4. /\ ContentStart(protocols[n]) <= At16(line, 2)
        /\ Carries(line, request) /\ request \in Requests
    BY <1>3, <2>1, <2>3, TakenIsSent DEF IInv
  <2>5. At16(line, 2) \in Nat /\ ContentStart(protocols[n]) \in Nat
    BY <2>4, FrameIs DEF Carries, ContentStart
  <2> QED BY <2>3, <2>4, <2>5
<1>4. ASSUME IInv, [Next]_vars PROVE [Parsed /\ Refused /\ Inside]_vars
  BY <1>1, <1>2, <1>3, <1>4
<1> QED BY <1>4, Invariant, PTL DEF Spec, ParsedIsSent

\* A check that accepts a damaged frame found a length field that is shorter, or one
\* that points behind the frame where something follows.
LEMMA DamagedIsSeen ==
  ASSUME IInv, stage = "damaged", NEW q \in Protocols, Check(q, line)
  PROVE  /\ At16(line, 2) # At16(Frame(request), 2)
         /\ \/ At16(line, 2) < At16(Frame(request), 2)
            \/ Len(line) > Len(Frame(request))
<1> DEFINE f == Frame(request)
<1>1. request \in Requests
  BY DEF IInv, LineInv
<1>2. PICK rest \in Followers, i \in 1..Len(f) - 2, bits \in Bursts :
             line = Flip(f \o rest, i, bits)
  BY DEF IInv, LineInv
<1> DEFINE x == f \o rest
           n == At16(line, 2)
           len == FrameLen(request)
<1>3. ~(n = len \/ (n >= len /\ Len(x) = len + 2))
  BY <1>1, <1>2, DamageSeen
<1>4. x \in Seq(Byte) /\ Len(x) >= len + 2 /\ Len(f) = len + 2 /\ At16(f, 2) = len /\ len \in Nat
  BY <1>1, SentCarries, FrameIs DEF Carries
<1>6. n \in Nat
  <2>1. line \in Seq(Byte)
    BY LineIsBytes DEF IInv
  <2>2. At(line, 2) \in Byte /\ At(line, 3) \in Byte /\ 2 + 1 = 3
    BY <2>1, AtIsByte
  <2> QED BY <2>2 DEF At16, Byte
<1> HIDE DEF f, x, n, len
<1>7. Len(x) \in Nat
  BY <1>4
<1>8. Len(line) = Len(x)
  BY <1>1, <1>2, FlippedIs DEF x, f
<1>9. n # len /\ (n < len \/ Len(x) > len + 2)
  BY <1>3, <1>4, <1>6, <1>7
<1> QED BY <1>4, <1>8, <1>9 DEF f, n

\* A frame with up to 16 neighbouring bits damaged is executed as a binary command
\* only with a length field that was shortened or points into what follows, and as
\* a text only with another first byte.
THEOREM DamageIsRefused == Spec => DamageRefused
<1> DEFINE Excused ==
             \/ cmd'.protocol = "TEXT" /\ line[1] # Frame(request)[1]
             \/ /\ At16(line, 2) # At16(Frame(request), 2)
                /\ \/ At16(line, 2) < At16(Frame(request), 2)
                   \/ Len(line) > Len(Frame(request))
<1>1. ASSUME IInv, [Next]_vars, stage = "damaged", stage' \in {"parsed", "overrun"}
      PROVE  Excused
  <2>1. Handle \/ HandleOverrun \/ HandleText
    BY <1>1 DEF Next, vars, RegisterProtocol, Send, Damage, HandleNone, DoResponse
  <2>2. CASE Handle \/ HandleOverrun
    <3>1. PICK n \in DOMAIN protocols, text \in TextVerdicts :
                 Taken(n, text) /\ protocols[n] # "TEXT"
      BY <2>2 DEF Handle, HandleOverrun
    <3>2. Check(protocols[n], line)
      BY <3>1 DEF Taken, Accepting
    <3>3. protocols[n] \in Protocols
      BY <1>1, <3>1, ListHas DEF IInv
    <3> QED BY <1>1, <3>2, <3>3, DamagedIsSeen
  <2>3. CASE HandleText
    <3>1. PICK n \in DOMAIN protocols, text \in TextVerdicts :
                 Taken(n, text) /\ protocols[n] = "TEXT"
      BY <2>3 DEF HandleText
    <3>2. text
      BY <3>1 DEF Taken, Accepting
    <3>3. At(line, 0) \in {0, 32, 91} \cup 49..57
      BY <3>2 DEF TextVerdicts
    <3>4. request \in Requests
      BY <1>1 DEF IInv, LineInv
    <3>5. Frame(request)[1] \in {\h48, \h22}
      <4>1. /\ <<At(Frame(request), 0), At(Frame(request), 1)>> = FrameHead(request.protocol)
            /\ Frame(request) \in Seq(Byte) /\ Len(Frame(request)) > 0
        BY <3>4, FrameIs DEF Carries
      <4>2. At(Frame(request), 0) = Frame(request)[1]
        BY <4>1 DEF At
      <4> QED BY <4>1, <4>2 DEF FrameHead
    <3>6. line[1] = At(line, 0)
      <4>1. Len(line) > 0
        <5>1. PICK rest \in Followers, i \in 1..Len(Frame(request)) - 2, bits \in Bursts :
                     line = Flip(Frame(request) \o rest, i, bits)
          BY <1>1 DEF IInv, LineInv
        <5> QED BY <3>4, <5>1, FlippedIs
      <4> QED BY <4>1 DEF At
    <3>7. line[1] # Frame(request)[1]
      BY <3>3, <3>5, <3>6
    <3>8. cmd'.protocol = "TEXT"
      BY <2>3 DEF HandleText
    <3> QED BY <3>7, <3>8
  <2> QED BY <2>1, <2>2, <2>3
<1>2. ASSUME IInv, [Next]_vars
      PROVE  [stage = "damaged" /\ stage' \in {"parsed", "overrun"} => Excused]_vars
  BY <1>1, <1>2
<1> QED BY <1>2, Invariant, PTL DEF Spec, DamageRefused

\* A reply passes the server's own check, with the ids of the command and the
\* bytes of get_reply where that check expects them.
THEOREM ReplyIsAccepted == Spec => []ReplyAccepted
<1>1. ASSUME IInv PROVE ReplyAccepted
  <2>1. SUFFICES ASSUME stage = "replied"
                 PROVE  /\ Check("SL", answer)
                        /\ At16(answer, 4) = cmd.frame_id
                        /\ At16(answer, 6) = cmd.cmd_id
                        /\ SubSeq(answer, 12, At16(answer, 2)) \in Replies
    BY DEF ReplyAccepted
  <2>2. PICK reply \in Replies : answer = Response(cmd, reply)
    BY <1>1, <2>1 DEF IInv, CmdInv
  <2>3. HasWords(cmd)
    BY <1>1, <2>1 DEF IInv, CmdInv
  <2>4. reply \in Seq(Byte) /\ Len(reply) <= 512
    BY Constants
  <2>5. Answers(answer, cmd, reply)
    BY <2>2, <2>3, <2>4, ResponseIs
  <2>6. Check("SL", answer)
    BY <2>5 DEF Answers, Check
  <2> QED BY <2>5, <2>6 DEF Answers
<1> QED BY <1>1, Invariant, PTL

=============================================================================
