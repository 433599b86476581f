---------------------------- MODULE P2PWire_proof ----------------------------
(***************************************************************************)
(* Proofs about P2PWire, for every message, user id, sequence number, key  *)
(* and change of a byte.                                                   *)
(*                                                                         *)
(* The checksum is followed bit by bit: each of its steps is one-to-one,   *)
(* so a byte that differs makes every later value differ.  What recursive  *)
(* functions compute is proved by induction over the interval they are     *)
(* defined on, stated for a set of indices (lemmas Climb and Descend);     *)
(* each is first shown to exist, as TLA+ gives a recursive function its    *)
(* equation only then.                                                     *)
(***************************************************************************)
EXTENDS P2PWire, SequenceTheorems, WellFoundedInduction, TLAPS

\* A byte is the sum of its bits.
LEMMA ByteIsBits ==
    \A x \in Byte :
        /\ x = Bit(x, 1) + 2 * Bit(x, 2) + 4 * Bit(x, 4) + 8 * Bit(x, 8)
               + 16 * Bit(x, 16) + 32 * Bit(x, 32) + 64 * Bit(x, 64) + 128 * Bit(x, 128)
        /\ Bit(x, 1) \in {0, 1} /\ Bit(x, 2) \in {0, 1} /\ Bit(x, 4) \in {0, 1} /\ Bit(x, 8) \in {0, 1}
        /\ Bit(x, 16) \in {0, 1} /\ Bit(x, 32) \in {0, 1} /\ Bit(x, 64) \in {0, 1} /\ Bit(x, 128) \in {0, 1}
  BY DEF Bit, Byte

\* And eight bits are those of their sum.
LEMMA BitsOfSum ==
    ASSUME NEW b1 \in {0, 1}, NEW b2 \in {0, 1}, NEW b4 \in {0, 1}, NEW b8 \in {0, 1},
           NEW b16 \in {0, 1}, NEW b32 \in {0, 1}, NEW b64 \in {0, 1}, NEW b128 \in {0, 1},
           NEW x, x = b1 + 2 * b2 + 4 * b4 + 8 * b8 + 16 * b16 + 32 * b32 + 64 * b64 + 128 * b128
    PROVE  /\ x \in Byte
           /\ Bit(x, 1) = b1 /\ Bit(x, 2) = b2 /\ Bit(x, 4) = b4 /\ Bit(x, 8) = b8
           /\ Bit(x, 16) = b16 /\ Bit(x, 32) = b32 /\ Bit(x, 64) = b64 /\ Bit(x, 128) = b128
  BY DEF Bit, Byte

Weights == {1, 2, 4, 8, 16, 32, 64, 128}
Differ(p, q) == IF p = q THEN 0 ELSE 1

\* Bytes with the same bits are the same.
LEMMA SameBits ==
    \A x, y \in Byte : (\A w \in Weights : Bit(x, w) = Bit(y, w)) => x = y
<1>1. ASSUME NEW x \in Byte, NEW y \in Byte, \A w \in Weights : Bit(x, w) = Bit(y, w) PROVE x = y
  <2>1. /\ Bit(x, 1) = Bit(y, 1) /\ Bit(x, 2) = Bit(y, 2) /\ Bit(x, 4) = Bit(y, 4)
        /\ Bit(x, 8) = Bit(y, 8) /\ Bit(x, 16) = Bit(y, 16) /\ Bit(x, 32) = Bit(y, 32)
        /\ Bit(x, 64) = Bit(y, 64) /\ Bit(x, 128) = Bit(y, 128)
    BY <1>1 DEF Weights
  <2> QED BY <2>1, ByteIsBits
<1> QED BY <1>1

LEMMA BitIsBit == \A x \in Byte, w \in Weights : Bit(x, w) \in {0, 1}
  BY ByteIsBits DEF Weights

\* The exclusive or, bit by bit.
LEMMA XorBits ==
    ASSUME NEW a \in Byte, NEW b \in Byte
    PROVE  /\ XorByte[a][b] \in Byte
           /\ \A w \in Weights : Bit(XorByte[a][b], w) = Differ(Bit(a, w), Bit(b, w))
<1> DEFINE d(w) == Differ(Bit(a, w), Bit(b, w))
           x == XorByte[a][b]
<1>1. /\ d(1) \in {0, 1} /\ d(2) \in {0, 1} /\ d(4) \in {0, 1} /\ d(8) \in {0, 1}
      /\ d(16) \in {0, 1} /\ d(32) \in {0, 1} /\ d(64) \in {0, 1} /\ d(128) \in {0, 1}
  BY DEF Differ
<1>2. x = d(1) + 2 * d(2) + 4 * d(4) + 8 * d(8) + 16 * d(16) + 32 * d(32) + 64 * d(64) + 128 * d(128)
  <2>1. x = XorBit(a, b, 1) + XorBit(a, b, 2) + XorBit(a, b, 4) + XorBit(a, b, 8)
            + XorBit(a, b, 16) + XorBit(a, b, 32) + XorBit(a, b, 64) + XorBit(a, b, 128)
    BY DEF XorByte
  <2>2. /\ XorBit(a, b, 1) = d(1) /\ XorBit(a, b, 2) = 2 * d(2) /\ XorBit(a, b, 4) = 4 * d(4)
        /\ XorBit(a, b, 8) = 8 * d(8) /\ XorBit(a, b, 16) = 16 * d(16) /\ XorBit(a, b, 32) = 32 * d(32)
        /\ XorBit(a, b, 64) = 64 * d(64) /\ XorBit(a, b, 128) = 128 * d(128)
    BY DEF XorBit, Differ
  <2> HIDE DEF d
  <2> QED BY <2>1, <2>2
<1> HIDE DEF d, x
<1>3. /\ x \in Byte
      /\ Bit(x, 1) = d(1) /\ Bit(x, 2) = d(2) /\ Bit(x, 4) = d(4) /\ Bit(x, 8) = d(8)
      /\ Bit(x, 16) = d(16) /\ Bit(x, 32) = d(32) /\ Bit(x, 64) = d(64) /\ Bit(x, 128) = d(128)
  BY <1>1, <1>2, BitsOfSum
<1>4. \A w \in Weights : Bit(x, w) = d(w)
  BY <1>3 DEF Weights
<1> QED BY <1>3, <1>4 DEF d, x

\* 0 changes nothing.
LEMMA XorZero == 0 \in Byte /\ \A a \in Byte : XorByte[a][0] = a /\ XorByte[0][a] = a
<1>1. 0 \in Byte /\ \A w \in Weights : Bit(0, w) = 0
  BY DEF Byte, Bit, Weights
<1>2. \A p \in {0, 1} : Differ(p, 0) = p /\ Differ(0, p) = p
  BY DEF Differ
<1>3. ASSUME NEW a \in Byte PROVE XorByte[a][0] = a /\ XorByte[0][a] = a
  <2>1. \A w \in Weights : Bit(XorByte[a][0], w) = Bit(a, w) /\ Bit(XorByte[0][a], w) = Bit(a, w)
    BY <1>1, <1>2, XorBits, BitIsBit
  <2> QED BY <1>1, <2>1, XorBits, SameBits
<1> QED BY <1>1, <1>3

\* It is one to one in either argument, and changes what it is not 0 for.
LEMMA XorOneToOne ==
    /\ \A a, b, c \in Byte : XorByte[a][b] = XorByte[a][c] => b = c
    /\ \A a, b \in Byte : XorByte[a][b] = XorByte[b][a]
    /\ \A a, c \in Byte : c # 0 => XorByte[a][c] # a
<1>1. ASSUME NEW a \in Byte, NEW b \in Byte, NEW c \in Byte, XorByte[a][b] = XorByte[a][c] PROVE b = c
  <2>1. \A p, q, r \in {0, 1} : Differ(p, q) = Differ(p, r) => q = r
    BY DEF Differ
  <2>2. ASSUME NEW w \in Weights PROVE Bit(b, w) = Bit(c, w)
    <3>1. Differ(Bit(a, w), Bit(b, w)) = Differ(Bit(a, w), Bit(c, w))
      BY <1>1, XorBits
    <3> QED BY <2>1, <3>1, BitIsBit
  <2> QED BY <2>2, SameBits
<1>2. ASSUME NEW a \in Byte, NEW b \in Byte PROVE XorByte[a][b] = XorByte[b][a]
  <2>1. \A p, q : Differ(p, q) = Differ(q, p)
    BY DEF Differ
  <2>2. \A w \in Weights : Bit(XorByte[a][b], w) = Bit(XorByte[b][a], w)
    BY <2>1, XorBits
  <2> QED BY <2>2, XorBits, SameBits
<1>3. ASSUME NEW a \in Byte, NEW c \in Byte, c # 0 PROVE XorByte[a][c] # a
  BY <1>1, <1>3, XorZero
<1> QED BY <1>1, <1>2, <1>3

Halved(c, h) ==
    /\ Bit(h, 1) = Bit(c, 2) /\ Bit(h, 2) = Bit(c, 4) /\ Bit(h, 4) = Bit(c, 8) /\ Bit(h, 8) = Bit(c, 16)
    /\ Bit(h, 16) = Bit(c, 32) /\ Bit(h, 32) = Bit(c, 64) /\ Bit(h, 64) = Bit(c, 128)

\* A shift to the right, with 0x8C flipped when the bits differ that meet at the end.
LEMMA TurnBits ==
    ASSUME NEW c \in Byte, NEW bit \in {0, 1}
    PROVE  LET r == Turn(c, bit)
               e == Differ(Bit(c, 1), bit) IN
           /\ r \in Byte
           /\ Bit(r, 1) = Bit(c, 2) /\ Bit(r, 2) = Bit(c, 4)
           /\ Bit(r, 4) = Differ(Bit(c, 8), e) /\ Bit(r, 8) = Differ(Bit(c, 16), e)
           /\ Bit(r, 16) = Bit(c, 32) /\ Bit(r, 32) = Bit(c, 64) /\ Bit(r, 64) = Bit(c, 128)
           /\ Bit(r, 128) = e
<1> DEFINE h == c \div 2
           k == c \div 2 + 128
<1>1. h \in Byte /\ k \in Byte /\ 12 \in Byte /\ Bit(c, 1) = c % 2
  BY DEF Bit, Byte
<1>2. Halved(c, h) /\ Bit(h, 128) = 0
  BY DEF Bit, Byte, Halved
<1>3. Halved(c, k) /\ Bit(k, 128) = 1
  <2>1. \A w \in {1, 2, 4, 8, 16, 32, 64} : Bit(k, w) = Bit(h, w)
    BY <1>1 DEF Bit, Byte
  <2>2. Bit(k, 128) = 1
    BY DEF Bit, Byte
  <2> QED BY <1>2, <2>1, <2>2 DEF Halved
<1>4. /\ Bit(12, 1) = 0 /\ Bit(12, 2) = 0 /\ Bit(12, 4) = 1 /\ Bit(12, 8) = 1
      /\ Bit(12, 16) = 0 /\ Bit(12, 32) = 0 /\ Bit(12, 64) = 0 /\ Bit(12, 128) = 0
  BY DEF Bit
<1>5. \A p \in {0, 1} : Differ(p, 0) = p /\ Differ(p, p) = 0 /\ (p # bit => Differ(p, bit) = 1)
  BY DEF Differ
<1> HIDE DEF h, k
<1>6. \A w \in Weights : Bit(c, w) \in {0, 1} /\ Bit(h, w) \in {0, 1} /\ Bit(k, w) \in {0, 1}
  BY <1>1, BitIsBit
<1>7. CASE c % 2 = bit
  <2>1. Turn(c, bit) = h /\ Differ(Bit(c, 1), bit) = 0
    BY <1>1, <1>5, <1>7 DEF Turn, h
  <2> QED BY <1>1, <1>2, <1>5, <1>6, <2>1 DEF Halved, Weights
<1>8. CASE c % 2 # bit
  <2>1. Turn(c, bit) = XorByte[k][12] /\ Differ(Bit(c, 1), bit) = 1
    BY <1>1, <1>5, <1>6, <1>8 DEF Turn, k, Weights
  <2>2. XorByte[k][12] \in Byte /\ \A w \in Weights : Bit(XorByte[k][12], w) = Differ(Bit(k, w), Bit(12, w))
    BY <1>1, XorBits
  <2> QED BY <1>3, <1>4, <1>5, <1>6, <2>1, <2>2 DEF Halved, Weights
<1> QED BY <1>7, <1>8

\* The code's first step is a turn as well: the half has no bit 7.
LEMMA HalfXor == \A c \in Byte : XorByte[c \div 2][140] = XorByte[c \div 2 + 128][12]
<1> SUFFICES ASSUME NEW c \in Byte PROVE XorByte[c \div 2][140] = XorByte[c \div 2 + 128][12]
  OBVIOUS
<1> DEFINE h == c \div 2
           k == c \div 2 + 128
<1>1. h \in Byte /\ k \in Byte /\ 12 \in Byte /\ 140 \in Byte
  BY DEF Byte
<1>2. \A w \in {1, 2, 4, 8, 16, 32, 64} : Bit(k, w) = Bit(h, w) /\ Bit(12, w) = Bit(140, w)
  <2>1. \A w \in {1, 2, 4, 8, 16, 32, 64} : Bit(k, w) = Bit(h, w)
    BY <1>1 DEF Bit, Byte
  <2>2. \A w \in {1, 2, 4, 8, 16, 32, 64} : Bit(12, w) = Bit(140, w)
    BY DEF Bit
  <2> QED BY <2>1, <2>2
<1>3. Bit(h, 128) = 0 /\ Bit(k, 128) = 1 /\ Bit(12, 128) = 0 /\ Bit(140, 128) = 1
  BY DEF Bit, Byte
<1>4. Differ(0, 1) = Differ(1, 0)
  BY DEF Differ
<1> HIDE DEF h, k
<1>5. \A w \in Weights : Differ(Bit(h, w), Bit(140, w)) = Differ(Bit(k, w), Bit(12, w))
  BY <1>2, <1>3, <1>4 DEF Weights
<1>6. XorByte[h][140] = XorByte[k][12]
  BY <1>1, <1>5, XorBits, SameBits
<1> QED BY <1>6 DEF h, k

-----------------------------------------------------------------------------
\* One bit of CRC-8/MAXIM is a turn that meets no other bit, and so undoable.
LEMMA MaximTurns ==
    /\ \A c \in Byte : MaximBit(c) = Turn(c, 0) /\ MaximBit(c) \in Byte
    /\ \A c, d \in Byte : MaximBit(c) = MaximBit(d) => c = d
<1>1. ASSUME NEW c \in Byte PROVE MaximBit(c) = Turn(c, 0) /\ MaximBit(c) \in Byte
  <2>1. c % 2 \in {0, 1}
    BY DEF Byte
  <2>2. MaximBit(c) = Turn(c, 0)
    BY <2>1, HalfXor DEF MaximBit, Turn
  <2> QED BY <2>2, TurnBits
<1>2. ASSUME NEW c \in Byte, NEW d \in Byte, MaximBit(c) = MaximBit(d) PROVE c = d
  <2> DEFINE r == Turn(c, 0)
             q == Turn(d, 0)
  <2>1. r = q
    BY <1>1, <1>2
  <2>2. \A p, o \in {0, 1} : Differ(p, 0) = Differ(o, 0) => p = o
    BY DEF Differ
  <2>3. \A p, o, e \in {0, 1} : Differ(p, e) = Differ(o, e) => p = o
    BY DEF Differ
  <2>4. \A w \in Weights : Bit(c, w) \in {0, 1} /\ Bit(d, w) \in {0, 1}
    BY BitIsBit
  <2>5. /\ Bit(r, 1) = Bit(c, 2) /\ Bit(r, 2) = Bit(c, 4)
        /\ Bit(r, 4) = Differ(Bit(c, 8), Bit(r, 128)) /\ Bit(r, 8) = Differ(Bit(c, 16), Bit(r, 128))
        /\ Bit(r, 16) = Bit(c, 32) /\ Bit(r, 32) = Bit(c, 64) /\ Bit(r, 64) = Bit(c, 128)
        /\ Bit(r, 128) = Differ(Bit(c, 1), 0)
    BY TurnBits
  <2>6. /\ Bit(q, 1) = Bit(d, 2) /\ Bit(q, 2) = Bit(d, 4)
        /\ Bit(q, 4) = Differ(Bit(d, 8), Bit(q, 128)) /\ Bit(q, 8) = Differ(Bit(d, 16), Bit(q, 128))
        /\ Bit(q, 16) = Bit(d, 32) /\ Bit(q, 32) = Bit(d, 64) /\ Bit(q, 64) = Bit(d, 128)
        /\ Bit(q, 128) = Differ(Bit(d, 1), 0)
    BY TurnBits
  <2>7. Bit(r, 128) \in {0, 1}
    BY <2>5 DEF Differ
  <2> HIDE DEF r, q
  <2>8. \A w \in Weights : Bit(c, w) = Bit(d, w)
    BY <2>1, <2>2, <2>3, <2>4, <2>5, <2>6, <2>7 DEF Weights
  <2> QED BY <2>8, SameBits
<1> QED BY <1>1, <1>2

\* To turn with the next bit of y is to take y in at once and turn without.
LEMMA TurnTakes ==
    ASSUME NEW c \in Byte, NEW y \in Byte
    PROVE  MaximBit(XorByte[c][y]) = XorByte[Turn(c, Bit(y, 1))][y \div 2]
<1> DEFINE z == XorByte[c][y]
           h == y \div 2
           b == Bit(y, 1)
           r == Turn(c, b)
           q == Turn(z, 0)
<1>1. z \in Byte /\ \A w \in Weights : Bit(z, w) = Differ(Bit(c, w), Bit(y, w))
  BY XorBits
<1>2. h \in Byte /\ Halved(y, h) /\ Bit(h, 128) = 0
  <2>1. h \in Byte
    BY DEF Byte
  <2>2. Halved(y, h) /\ Bit(h, 128) = 0
    BY DEF Byte, Bit, Halved
  <2> QED BY <2>1, <2>2
<1>3. \A w \in Weights : Bit(c, w) \in {0, 1} /\ Bit(y, w) \in {0, 1} /\ Bit(z, w) \in {0, 1}
  BY <1>1, BitIsBit
<1>4. b \in {0, 1}
  BY <1>3 DEF Weights
<1>5. /\ r \in Byte
      /\ Bit(r, 1) = Bit(c, 2) /\ Bit(r, 2) = Bit(c, 4)
      /\ Bit(r, 4) = Differ(Bit(c, 8), Bit(r, 128)) /\ Bit(r, 8) = Differ(Bit(c, 16), Bit(r, 128))
      /\ Bit(r, 16) = Bit(c, 32) /\ Bit(r, 32) = Bit(c, 64) /\ Bit(r, 64) = Bit(c, 128)
      /\ Bit(r, 128) = Differ(Bit(c, 1), b)
  <2> HIDE DEF b
  <2> QED BY <1>4, TurnBits
<1>6. /\ q \in Byte /\ q = MaximBit(z)
      /\ Bit(q, 1) = Bit(z, 2) /\ Bit(q, 2) = Bit(z, 4)
      /\ Bit(q, 4) = Differ(Bit(z, 8), Bit(q, 128)) /\ Bit(q, 8) = Differ(Bit(z, 16), Bit(q, 128))
      /\ Bit(q, 16) = Bit(z, 32) /\ Bit(q, 32) = Bit(z, 64) /\ Bit(q, 64) = Bit(z, 128)
      /\ Bit(q, 128) = Differ(Bit(z, 1), 0)
  <2> HIDE DEF z
  <2> QED BY <1>1, TurnBits, MaximTurns
<1>7. \A p, o, e \in {0, 1} : /\ Differ(Differ(p, o), e) = Differ(Differ(p, e), o)
                              /\ Differ(p, 0) = p /\ Differ(p, o) \in {0, 1}
  BY DEF Differ
<1> HIDE DEF z, h, r, q
<1>8. ASSUME NEW w \in Weights PROVE Bit(q, w) = Differ(Bit(r, w), Bit(h, w))
  <2>1. Bit(q, 128) = Bit(r, 128) /\ Bit(q, 128) \in {0, 1}
    BY <1>1, <1>3, <1>5, <1>6, <1>7 DEF Weights
  <2>2. w = 1 \/ w = 2 \/ w = 4 \/ w = 8 \/ w = 16 \/ w = 32 \/ w = 64 \/ w = 128
    BY DEF Weights
  <2>3. CASE w \in {4, 8}
    BY <1>1, <1>2, <1>3, <1>5, <1>6, <1>7, <2>1, <2>3 DEF Halved, Weights
  <2>4. CASE w \in {1, 2, 16, 32, 64, 128}
    BY <1>1, <1>2, <1>3, <1>5, <1>6, <1>7, <2>1, <2>4 DEF Halved, Weights
  <2> QED BY <2>2, <2>3, <2>4
<1>9. q = XorByte[r][h]
  BY <1>2, <1>5, <1>6, <1>8, XorBits, SameBits
<1> QED BY <1>6, <1>9 DEF z, h, r

\* crc8's step for a byte is that of CRC-8/MAXIM, whatever its docstring says.
THEOREM ChecksumIsMaxim == CrcIsMaxim
<1> SUFFICES ASSUME NEW x \in Byte PROVE CrcStep[x] = MaximStep[x] /\ CrcStep[x] \in Byte
  BY DEF CrcIsMaxim, CrcStep, MaximStep
<1> DEFINE y(w) == x \div w
           low == XorByte[Bit(x, 1) * 35][XorByte[Bit(x, 2) * 70][Bit(x, 4) * 140]]
           t1 == Turn(0, Bit(x, 1))
           t2 == Turn(t1, Bit(x, 2))
           t3 == Turn(t2, Bit(x, 4))
           t4 == Turn(low, Bit(x, 8))
           t5 == Turn(t4, Bit(x, 16))
           t6 == Turn(t5, Bit(x, 32))
           t7 == Turn(t6, Bit(x, 64))
           t8 == Turn(t7, Bit(x, 128))
<1>1. /\ y(2) = x \div 2 /\ y(4) = y(2) \div 2 /\ y(8) = y(4) \div 2 /\ y(16) = y(8) \div 2
      /\ y(32) = y(16) \div 2 /\ y(64) = y(32) \div 2 /\ y(128) = y(64) \div 2 /\ y(256) = y(128) \div 2
      /\ y(256) = 0 /\ 0 \in Byte
  BY DEF Byte
<1>2. /\ y(2) \in Byte /\ y(4) \in Byte /\ y(8) \in Byte /\ y(16) \in Byte
      /\ y(32) \in Byte /\ y(64) \in Byte /\ y(128) \in Byte
  BY DEF Byte
<1>3. /\ Bit(x, 2) = Bit(y(2), 1) /\ Bit(x, 4) = Bit(y(4), 1) /\ Bit(x, 8) = Bit(y(8), 1)
      /\ Bit(x, 16) = Bit(y(16), 1) /\ Bit(x, 32) = Bit(y(32), 1) /\ Bit(x, 64) = Bit(y(64), 1)
      /\ Bit(x, 128) = Bit(y(128), 1)
  BY DEF Byte, Bit
<1>4. /\ Bit(x, 1) \in {0, 1} /\ Bit(x, 2) \in {0, 1} /\ Bit(x, 4) \in {0, 1} /\ Bit(x, 8) \in {0, 1}
      /\ Bit(x, 16) \in {0, 1} /\ Bit(x, 32) \in {0, 1} /\ Bit(x, 64) \in {0, 1} /\ Bit(x, 128) \in {0, 1}
  BY BitIsBit DEF Weights
\* The first three bits, from the code's table.
<1>5. low = t3 /\ low \in Byte /\ t1 \in Byte /\ t2 \in Byte
  <2> DEFINE a == Bit(x, 1)
             b == Bit(x, 2)
             c == Bit(x, 4)
             d == Differ(a, b)
             e == Differ(b, c)
  <2>1. /\ 35 \in Byte /\ 70 \in Byte /\ 140 \in Byte /\ 0 \in Byte
        /\ Bit(35, 1) = 1 /\ Bit(35, 2) = 1 /\ Bit(35, 4) = 0 /\ Bit(35, 8) = 0
        /\ Bit(35, 16) = 0 /\ Bit(35, 32) = 1 /\ Bit(35, 64) = 0 /\ Bit(35, 128) = 0
        /\ Bit(70, 1) = 0 /\ Bit(70, 2) = 1 /\ Bit(70, 4) = 1 /\ Bit(70, 8) = 0
        /\ Bit(70, 16) = 0 /\ Bit(70, 32) = 0 /\ Bit(70, 64) = 1 /\ Bit(70, 128) = 0
        /\ Bit(140, 1) = 0 /\ Bit(140, 2) = 0 /\ Bit(140, 4) = 1 /\ Bit(140, 8) = 1
        /\ Bit(140, 16) = 0 /\ Bit(140, 32) = 0 /\ Bit(140, 64) = 0 /\ Bit(140, 128) = 1
        /\ \A w \in Weights : Bit(0, w) = 0
    BY DEF Byte, Bit, Weights
  <2>2. \A w \in Weights : /\ Bit(a * 35, w) = IF w \in {1, 2, 32} THEN a ELSE 0
                           /\ Bit(b * 70, w) = IF w \in {2, 4, 64} THEN b ELSE 0
                           /\ Bit(c * 140, w) = IF w \in {4, 8, 128} THEN c ELSE 0
    <3> HIDE DEF a, b, c
    <3>1. a \in {0, 1} /\ b \in {0, 1} /\ c \in {0, 1}
      BY <1>4 DEF a, b, c
    <3>2. /\ a * 35 = (IF a = 1 THEN 35 ELSE 0) /\ b * 70 = (IF b = 1 THEN 70 ELSE 0)
          /\ c * 140 = (IF c = 1 THEN 140 ELSE 0)
      BY <3>1
    <3> QED BY <2>1, <3>1, <3>2 DEF Weights
  <2>3. a * 35 \in Byte /\ b * 70 \in Byte /\ c * 140 \in Byte
    BY <1>4 DEF Byte
  <2> DEFINE bc == XorByte[b * 70][c * 140]
  <2>4. /\ bc \in Byte /\ low \in Byte
        /\ \A w \in Weights : Bit(bc, w) = Differ(Bit(b * 70, w), Bit(c * 140, w))
        /\ \A w \in Weights : Bit(low, w) = Differ(Bit(a * 35, w), Bit(bc, w))
    BY <2>3, XorBits
  <2>5. \A p, q \in {0, 1} : Differ(p, 0) = p /\ Differ(0, p) = p /\ Differ(p, q) \in {0, 1}
    BY DEF Differ
  <2>6. a \in {0, 1} /\ b \in {0, 1} /\ c \in {0, 1} /\ d \in {0, 1} /\ e \in {0, 1}
    BY <1>4, <2>5
  <2> HIDE DEF a, b, c
  <2>7. /\ t1 \in Byte
        /\ Bit(t1, 1) = 0 /\ Bit(t1, 2) = 0 /\ Bit(t1, 4) = a /\ Bit(t1, 8) = a
        /\ Bit(t1, 16) = 0 /\ Bit(t1, 32) = 0 /\ Bit(t1, 64) = 0 /\ Bit(t1, 128) = a
    <3>1. t1 = Turn(0, a)
      BY DEF a
    <3> QED BY <2>1, <2>5, <2>6, <3>1, TurnBits DEF Weights
  <2>8. t2 = Turn(t1, b)
    BY DEF b
  <2> HIDE DEF t1
  <2>9. /\ t2 \in Byte
        /\ Bit(t2, 1) = 0 /\ Bit(t2, 2) = a /\ Bit(t2, 4) = d /\ Bit(t2, 8) = b
        /\ Bit(t2, 16) = 0 /\ Bit(t2, 32) = 0 /\ Bit(t2, 64) = a /\ Bit(t2, 128) = b
    BY <2>5, <2>6, <2>7, <2>8, TurnBits
  <2>10. t3 = Turn(t2, c)
    BY DEF c
  <2> HIDE DEF t2
  <2>11. /\ t3 \in Byte
         /\ Bit(t3, 1) = a /\ Bit(t3, 2) = d /\ Bit(t3, 4) = e /\ Bit(t3, 8) = c
         /\ Bit(t3, 16) = 0 /\ Bit(t3, 32) = a /\ Bit(t3, 64) = b /\ Bit(t3, 128) = c
    BY <2>5, <2>6, <2>9, <2>10, TurnBits
  <2> HIDE DEF t3, low, bc
  <2>12. \A w \in Weights : Bit(low, w) = Bit(t3, w)
    BY <2>2, <2>4, <2>5, <2>6, <2>11 DEF Weights
  <2> QED BY <2>4, <2>7, <2>9, <2>11, <2>12, SameBits
<1>6. CrcStep[x] = t8
  <2> DEFINE bit3 == IF low % 2 = Bit(x, 8) THEN low \div 2 ELSE XorByte[low \div 2][140]
  <2>1. CrcStep[x] = Turn(Turn(Turn(Turn(bit3, Bit(x, 16)), Bit(x, 32)), Bit(x, 64)), Bit(x, 128))
    BY DEF CrcStep
  <2> HIDE DEF low
  <2>2. bit3 = Turn(low, Bit(x, 8))
    <3>1. low \in Byte
      BY <1>5
    <3>2. XorByte[low \div 2][140] = XorByte[low \div 2 + 128][12]
      BY <3>1, HalfXor
    <3> QED BY <3>2 DEF Turn
  <2> HIDE DEF bit3
  <2> QED BY <2>1, <2>2
<1>7. /\ t4 \in Byte /\ t5 \in Byte /\ t6 \in Byte /\ t7 \in Byte /\ t8 \in Byte
  <2> HIDE DEF low
  <2>1. t4 \in Byte
    BY <1>4, <1>5, TurnBits
  <2> HIDE DEF t4
  <2>2. t5 \in Byte
    BY <1>4, <2>1, TurnBits
  <2> HIDE DEF t5
  <2>3. t6 \in Byte
    BY <1>4, <2>2, TurnBits
  <2> HIDE DEF t6
  <2>4. t7 \in Byte
    BY <1>4, <2>3, TurnBits
  <2> HIDE DEF t7
  <2>5. t8 \in Byte
    BY <1>4, <2>4, TurnBits
  <2> QED BY <2>1, <2>2, <2>3, <2>4, <2>5
<1>8. x = XorByte[0][x] /\ t8 = XorByte[t8][0]
  BY <1>1, <1>7, XorZero
<1>9. MaximStep[x] = XorByte[t8][y(256)]
  <2>1. t1 = Turn(0, Bit(x, 1)) /\ t2 = Turn(t1, Bit(x, 2)) /\ low = Turn(t2, Bit(x, 4)) /\ t4 = Turn(low, Bit(x, 8))
        /\ t5 = Turn(t4, Bit(x, 16)) /\ t6 = Turn(t5, Bit(x, 32)) /\ t7 = Turn(t6, Bit(x, 64))
        /\ t8 = Turn(t7, Bit(x, 128))
    BY <1>5
  <2> HIDE DEF y, low, t1, t2, t3, t4, t5, t6, t7, t8
  <2>2. MaximBit(x) = XorByte[t1][y(2)]
    BY <1>1, <1>8, <2>1, TurnTakes
  <2>3. MaximBit(MaximBit(x)) = XorByte[t2][y(4)]
    BY <1>1, <1>2, <1>3, <1>5, <2>1, <2>2, TurnTakes
  <2>4. MaximBit(MaximBit(MaximBit(x))) = XorByte[low][y(8)]
    BY <1>1, <1>2, <1>3, <1>5, <2>1, <2>3, TurnTakes
  <2> DEFINE m3 == MaximBit(MaximBit(MaximBit(x)))
  <2>5. MaximBit(m3) = XorByte[t4][y(16)]
    BY <1>1, <1>2, <1>3, <1>5, <2>1, <2>4, TurnTakes
  <2>6. MaximBit(MaximBit(m3)) = XorByte[t5][y(32)]
    BY <1>1, <1>2, <1>3, <1>7, <2>1, <2>5, TurnTakes
  <2>7. MaximBit(MaximBit(MaximBit(m3))) = XorByte[t6][y(64)]
    BY <1>1, <1>2, <1>3, <1>7, <2>1, <2>6, TurnTakes
  <2> DEFINE m6 == MaximBit(MaximBit(MaximBit(m3)))
  <2>8. MaximBit(m6) = XorByte[t7][y(128)]
    BY <1>1, <1>2, <1>3, <1>7, <2>1, <2>7, TurnTakes
  <2>9. MaximBit(MaximBit(m6)) = XorByte[t8][y(256)]
    BY <1>1, <1>2, <1>3, <1>7, <2>1, <2>8, TurnTakes
  <2> QED BY <2>9 DEF MaximStep
<1> QED BY <1>1, <1>6, <1>7, <1>8, <1>9

-----------------------------------------------------------------------------
\* Induction along an interval, for the properties of what recursion defines: the induction
\* is over a set, for the library's is over an operator.
LEMMA Least == ASSUME NEW T, T \subseteq Nat, T # {} PROVE \E x \in T : \A y \in T : x <= y
<1> DEFINE R == OpToRel(<, Nat)
<1>1. IsWellFoundedOn(R, Nat)
  BY NatLessThanWellFounded
<1>2. \A x, y \in Nat : <<x, y>> \in R <=> x < y
  BY DEF OpToRel
<1> HIDE DEF R
<1>3. \E x \in T : \A y \in T : ~(<<y, x>> \in R)
  BY <1>1, WFMin
<1>4. PICK x \in T : \A y \in T : ~(<<y, x>> \in R)
  BY <1>3
<1>5. ASSUME NEW y \in T PROVE x <= y
  <2>1. x \in Nat /\ y \in Nat /\ ~(<<y, x>> \in R)
    BY <1>4
  <2>2. ~(y < x)
    BY <1>2, <2>1
  <2> QED BY <2>1, <2>2
<1> QED BY <1>5

LEMMA Climb ==
    ASSUME NEW n \in Nat, NEW T, 0 \in T, \A i \in 1 .. n : i - 1 \in T => i \in T
    PROVE  0 .. n \subseteq T
<1> DEFINE C == (0 .. n) \ T
<1>1. SUFFICES ASSUME C # {} PROVE FALSE
  OBVIOUS
<1>2. C \subseteq Nat
  OBVIOUS
<1>3. \E x \in C : \A y \in C : x <= y
  <2> HIDE DEF C
  <2> QED BY <1>1, <1>2, Least
<1> QED BY <1>3

LEMMA Descend ==
    ASSUME NEW n \in Nat, NEW T, n \in T, \A i \in 0 .. n - 1 : i + 1 \in T => i \in T
    PROVE  0 .. n \subseteq T
<1> DEFINE C == {i \in 0 .. n : n - i \in T}
<1>1. 0 .. n \subseteq C
  <2>1. 0 \in C /\ \A i \in 1 .. n : i - 1 \in C => i \in C
    OBVIOUS
  <2> HIDE DEF C
  <2> QED BY <2>1, Climb
<1>2. \A i \in 0 .. n : n - i \in 0 .. n /\ n - (n - i) = i
  OBVIOUS
<1> QED BY <1>1, <1>2

-----------------------------------------------------------------------------
LoopBody(s, f, k) ==
    [i \in k .. Len(s) |-> [crc \in Byte |->
        IF i = Len(s) THEN crc ELSE f[i + 1][CrcStep[XorByte[s[i + 1]][crc]]]]]

LEMMA StepType == ASSUME NEW d \in Byte, NEW crc \in Byte PROVE CrcStep[XorByte[d][crc]] \in Byte
  BY XorBits, ChecksumIsMaxim DEF CrcIsMaxim

\* The recursive function CrcLoop exists: it is built from its last index down.
LEMMA LoopDefined == ASSUME NEW s \in Seq(Byte) PROVE CrcLoop(s) = LoopBody(s, CrcLoop(s), 0)
<1> DEFINE n == Len(s)
           T == {k \in 0 .. n : \E f : f = LoopBody(s, f, k)}
<1>1. n \in Nat /\ \A i \in 1 .. n : s[i] \in Byte
  OBVIOUS
<1>2. n \in T
  <2> DEFINE f == [i \in n .. n |-> [crc \in Byte |-> crc]]
  <2>1. f = LoopBody(s, f, n)
    BY <1>1 DEF LoopBody
  <2> HIDE DEF f
  <2> QED BY <1>1, <2>1
<1>3. ASSUME NEW k \in 0 .. n - 1, k + 1 \in T PROVE k \in T
  <2>1. PICK f : f = LoopBody(s, f, k + 1)
    BY <1>3
  <2> DEFINE g == [i \in k .. n |->
                      IF i = k THEN [crc \in Byte |-> f[k + 1][CrcStep[XorByte[s[k + 1]][crc]]]] ELSE f[i]]
  <2>2. ASSUME NEW i \in k .. n
        PROVE  g[i] = [crc \in Byte |->
                          IF i = n THEN crc ELSE g[i + 1][CrcStep[XorByte[s[i + 1]][crc]]]]
    <3>1. k \in Nat /\ k < n /\ k + 1 \in k .. n /\ k + 1 # k
      BY <1>1
    <3>2. CASE i = k
      <4>1. g[k + 1] = f[k + 1] /\ i # n
        BY <1>1, <3>1, <3>2
      <4>2. g[i] = [crc \in Byte |-> f[k + 1][CrcStep[XorByte[s[k + 1]][crc]]]]
        BY <3>1, <3>2
      <4> HIDE DEF g
      <4> QED BY <3>2, <4>1, <4>2
    <3>3. CASE i # k
      <4>1. i \in k + 1 .. n /\ g[i] = f[i]
        BY <1>1, <3>1, <3>3
      <4>2. i # n => g[i + 1] = f[i + 1]
        BY <1>1, <3>1, <3>3
      <4>3. f[i] = [crc \in Byte |-> IF i = n THEN crc ELSE f[i + 1][CrcStep[XorByte[s[i + 1]][crc]]]]
        BY <2>1, <4>1 DEF LoopBody
      <4> HIDE DEF g
      <4> QED BY <4>1, <4>2, <4>3
    <3> QED BY <3>2, <3>3
  <2>3. g = LoopBody(s, g, k)
    BY <2>2 DEF LoopBody
  <2> HIDE DEF g
  <2> QED BY <2>3
<1>4. 0 \in T
  <2> HIDE DEF T
  <2> QED BY <1>1, <1>2, <1>3, Descend
<1>5. \E f : f = LoopBody(s, f, 0)
  BY <1>4
<1> QED BY <1>5 DEF CrcLoop, LoopBody

\* What the checksum's loop does at one byte.
LEMMA LoopStep ==
    ASSUME NEW s \in Seq(Byte), NEW i \in 0 .. Len(s), NEW crc \in Byte
    PROVE  CrcLoop(s)[i][crc] =
               IF i = Len(s) THEN crc ELSE CrcLoop(s)[i + 1][CrcStep[XorByte[s[i + 1]][crc]]]
<1> DEFINE f == CrcLoop(s)
<1>1. f = LoopBody(s, f, 0)
  BY LoopDefined
<1> HIDE DEF f
<1>2. f[i][crc] = IF i = Len(s) THEN crc ELSE f[i + 1][CrcStep[XorByte[s[i + 1]][crc]]]
  <2>1. f[i] = [c \in Byte |-> IF i = Len(s) THEN c ELSE f[i + 1][CrcStep[XorByte[s[i + 1]][c]]]]
    BY <1>1 DEF LoopBody
  <2> QED BY <2>1
<1> QED BY <1>2 DEF f

\* A step is one to one in the byte and in the checksum so far.
LEMMA StepOneToOne ==
    ASSUME NEW d \in Byte, NEW e \in Byte, NEW c \in Byte, NEW b \in Byte,
           CrcStep[XorByte[d][c]] = CrcStep[XorByte[e][b]]
    PROVE  (d = e <=> c = b)
<1>1. \A x, y \in Byte : CrcStep[x] = CrcStep[y] => x = y
  <2> SUFFICES ASSUME NEW x \in Byte, NEW y \in Byte, CrcStep[x] = CrcStep[y] PROVE x = y
    OBVIOUS
  <2> DEFINE m(v) == MaximBit(v)
             x2 == m(m(x))   x4 == m(m(x2))   x6 == m(m(x4))
             y2 == m(m(y))   y4 == m(m(y2))   y6 == m(m(y4))
  <2>1. m(m(x6)) = m(m(y6))
    BY ChecksumIsMaxim DEF CrcIsMaxim, MaximStep
  <2>2. \A u, v \in Byte : m(m(u)) \in Byte /\ (m(m(u)) = m(m(v)) => u = v)
    BY MaximTurns
  <2> HIDE DEF m
  <2>3. x2 \in Byte /\ y2 \in Byte
    BY <2>2
  <2>4. x4 \in Byte /\ y4 \in Byte
    BY <2>2, <2>3
  <2>5. x6 \in Byte /\ y6 \in Byte
    BY <2>2, <2>4
  <2> HIDE DEF x6, y6
  <2>6. x6 = y6
    BY <2>1, <2>2, <2>5
  <2> QED BY <2>2, <2>3, <2>4, <2>6 DEF x6, y6
<1>2. XorByte[d][c] = XorByte[e][b]
  BY <1>1, XorBits
<1> QED BY <1>2, XorOneToOne

\* So is the rest of the loop in the checksum so far.
LEMMA LoopOneToOne ==
    ASSUME NEW s \in Seq(Byte)
    PROVE  \A i \in 0 .. Len(s), c \in Byte :
               /\ CrcLoop(s)[i][c] \in Byte
               /\ \A b \in Byte : CrcLoop(s)[i][c] = CrcLoop(s)[i][b] => c = b
<1> DEFINE n == Len(s)
           f == CrcLoop(s)
           Good(i) == \A c \in Byte : f[i][c] \in Byte /\ \A b \in Byte : f[i][c] = f[i][b] => c = b
           T == {i \in 0 .. n : Good(i)}
<1>1. n \in Nat /\ \A i \in 1 .. n : s[i] \in Byte
  OBVIOUS
<1>2. \A i \in 0 .. n, c \in Byte : f[i][c] = IF i = n THEN c ELSE f[i + 1][CrcStep[XorByte[s[i + 1]][c]]]
  BY LoopStep
<1> HIDE DEF f
<1>3. n \in T
  BY <1>1, <1>2
<1>4. ASSUME NEW i \in 0 .. n - 1, i + 1 \in T PROVE i \in T
  <2>1. s[i + 1] \in Byte /\ i \in 0 .. n /\ i # n
    BY <1>1
  <2>2. \A c \in Byte : CrcStep[XorByte[s[i + 1]][c]] \in Byte
    BY <2>1, StepType
  <2>3. \A c \in Byte : f[i][c] = f[i + 1][CrcStep[XorByte[s[i + 1]][c]]]
    BY <1>2, <2>1
  <2>4. Good(i)
    <3>1. ASSUME NEW c \in Byte, NEW b \in Byte, f[i][c] = f[i][b] PROVE c = b
      <4>1. CrcStep[XorByte[s[i + 1]][c]] = CrcStep[XorByte[s[i + 1]][b]]
        BY <1>4, <2>2, <2>3, <3>1
      <4> QED BY <2>1, <4>1, StepOneToOne
    <3> QED BY <1>4, <2>2, <2>3, <3>1
  <2> QED BY <2>1, <2>4
<1>5. \A i \in 0 .. n : i \in T
  <2> HIDE DEF T
  <2> QED BY <1>1, <1>3, <1>4, Descend
<1> QED BY <1>5 DEF f

\* And it looks only at the bytes to come.
LEMMA LoopLooksAhead ==
    ASSUME NEW s \in Seq(Byte), NEW t \in Seq(Byte), Len(s) = Len(t), NEW k \in 0 .. Len(s),
           \A i \in k + 1 .. Len(s) : s[i] = t[i]
    PROVE  \A c \in Byte : CrcLoop(s)[k][c] = CrcLoop(t)[k][c]
<1> DEFINE n == Len(s)
           f == CrcLoop(s)
           g == CrcLoop(t)
           T == {i \in 0 .. n : i >= k => \A c \in Byte : f[i][c] = g[i][c]}
<1>1. n \in Nat /\ \A i \in 1 .. n : s[i] \in Byte
  OBVIOUS
<1>2. /\ \A i \in 0 .. n, c \in Byte : f[i][c] = IF i = n THEN c ELSE f[i + 1][CrcStep[XorByte[s[i + 1]][c]]]
      /\ \A i \in 0 .. n, c \in Byte : g[i][c] = IF i = n THEN c ELSE g[i + 1][CrcStep[XorByte[t[i + 1]][c]]]
  BY LoopStep
<1> HIDE DEF f, g
<1>3. n \in T
  BY <1>1, <1>2
<1>4. ASSUME NEW i \in 0 .. n - 1, i + 1 \in T PROVE i \in T
  <2>1. ASSUME i >= k, NEW c \in Byte PROVE f[i][c] = g[i][c]
    <3>1. i \in 0 .. n /\ i # n /\ s[i + 1] = t[i + 1] /\ i + 1 >= k
      BY <1>1, <2>1
    <3>2. CrcStep[XorByte[s[i + 1]][c]] \in Byte
      BY <1>1, <3>1, StepType
    <3> QED BY <1>2, <1>4, <3>1, <3>2
  <2> QED BY <2>1
<1>5. \A i \in 0 .. n : i \in T
  <2> HIDE DEF T
  <2> QED BY <1>1, <1>3, <1>4, Descend
<1> QED BY <1>5 DEF f, g

\* Two byte strings that differ in one byte have different checksums.
LEMMA OneByteCounts ==
    ASSUME NEW s \in Seq(Byte), NEW t \in Seq(Byte), Len(s) = Len(t), NEW k \in 1 .. Len(s),
           s[k] # t[k], \A i \in 1 .. Len(s) : i # k => s[i] = t[i]
    PROVE  Crc8(s) # Crc8(t)
<1> DEFINE n == Len(s)
           f == CrcLoop(s)
           g == CrcLoop(t)
           T == {i \in 0 .. k - 1 : \A c \in Byte : f[i][c] # g[i][c]}
<1>1. n \in Nat /\ \A i \in 1 .. n : s[i] \in Byte /\ t[i] \in Byte
  OBVIOUS
<1>2. /\ \A i \in 0 .. n, c \in Byte : f[i][c] = IF i = n THEN c ELSE f[i + 1][CrcStep[XorByte[s[i + 1]][c]]]
      /\ \A i \in 0 .. n, c \in Byte : g[i][c] = IF i = n THEN c ELSE g[i + 1][CrcStep[XorByte[t[i + 1]][c]]]
  <2>1. \A i \in 0 .. n, c \in Byte : f[i][c] = IF i = n THEN c ELSE f[i + 1][CrcStep[XorByte[s[i + 1]][c]]]
    BY LoopStep
  <2>2. \A i \in 0 .. n, c \in Byte : g[i][c] = IF i = n THEN c ELSE g[i + 1][CrcStep[XorByte[t[i + 1]][c]]]
    BY LoopStep
  <2> QED BY <2>1, <2>2
<1>3. \A c \in Byte : f[k][c] = g[k][c]
  BY <1>1, LoopLooksAhead
<1>4. \A c, b \in Byte : f[k][c] = f[k][b] => c = b
  BY <1>1, LoopOneToOne
<1> HIDE DEF f, g
<1>5. k - 1 \in T
  <2>1. ASSUME NEW c \in Byte PROVE f[k - 1][c] # g[k - 1][c]
    <3> DEFINE a == CrcStep[XorByte[s[k]][c]]
               b == CrcStep[XorByte[t[k]][c]]
    <3>1. a \in Byte /\ b \in Byte
      BY <1>1, StepType
    <3>2. a # b
      BY <1>1, StepOneToOne
    <3>3. f[k - 1][c] = f[k][a] /\ g[k - 1][c] = g[k][b]
      <4>1. PICK j \in 0 .. n - 1 : j = k - 1 /\ j + 1 = k
        BY <1>1
      <4>2. /\ f[j][c] = f[j + 1][CrcStep[XorByte[s[j + 1]][c]]]
            /\ g[j][c] = g[j + 1][CrcStep[XorByte[t[j + 1]][c]]]
        BY <1>2, <4>1
      <4> QED BY <4>1, <4>2
    <3> HIDE DEF a, b
    <3> QED BY <1>3, <1>4, <3>1, <3>2, <3>3
  <2> QED BY <1>1, <2>1
<1>6. ASSUME NEW i \in 0 .. k - 2, i + 1 \in T PROVE i \in T
  <2>1. ASSUME NEW c \in Byte PROVE f[i][c] # g[i][c]
    <3>1. i \in 0 .. n /\ i # n /\ s[i + 1] = t[i + 1] /\ s[i + 1] \in Byte
      BY <1>1
    <3>2. CrcStep[XorByte[s[i + 1]][c]] \in Byte
      BY <3>1, StepType
    <3> QED BY <1>2, <1>6, <3>1, <3>2
  <2> QED BY <1>1, <2>1
<1>7. 0 \in T
  <2> DEFINE m == k - 1
  <2>1. m \in Nat /\ m \in T /\ \A i \in 0 .. m - 1 : i + 1 \in T => i \in T
    BY <1>1, <1>5, <1>6
  <2> HIDE DEF T, m
  <2> QED BY <2>1, Descend
<1>8. 0 \in Byte
  BY XorZero
<1> QED BY <1>7, <1>8 DEF f, g, Crc8

-----------------------------------------------------------------------------
\* The header and the frame.
LEMMA MaskFits ==
    ASSUME NEW m \in Masks
    PROVE  /\ MaskByte(m) \in Byte
           /\ MaskOf(MaskByte(m)) = Carried(m)
<1> DEFINE e == Flag(m.encrypt)
           v == m.saltVersion % 2
           i == m.saltIndex % 8
           x == Flag(m.expandHeader)
           w == Flag(m.is2bLen)
           b == MaskByte(m)
<1>1. e \in {0, 1} /\ x \in {0, 1} /\ w \in {0, 1} /\ v \in {0, 1} /\ i \in 0 .. 7
  BY DEF Flag, Masks
<1>2. (e = 1 <=> m.encrypt) /\ (x = 1 <=> m.expandHeader) /\ (w = 1 <=> m.is2bLen)
  BY DEF Flag, Masks
<1>3. b = 128 * e + 64 * v + 8 * i + 4 * x + 2 * w
  BY DEF MaskByte
<1> HIDE DEF e, v, i, x, w, b
<1>4. b \in Byte
  BY <1>1, <1>3 DEF Byte
<1>5. Bit(b, 128) = e /\ Bit(b, 64) = v /\ (b \div 8) % 8 = i /\ Bit(b, 4) = x /\ Bit(b, 2) = w
  BY <1>1, <1>3 DEF Bit
<1>6. MaskOf(b) = [encrypt |-> m.encrypt, saltVersion |-> v, saltIndex |-> i,
                   expandHeader |-> m.expandHeader, is2bLen |-> m.is2bLen]
  <2>1. (Bit(b, 128) = 1) = m.encrypt /\ (Bit(b, 4) = 1) = m.expandHeader /\ (Bit(b, 2) = 1) = m.is2bLen
    BY <1>2, <1>5 DEF Masks
  <2> QED BY <1>5, <2>1 DEF MaskOf
<1> QED BY <1>4, <1>6 DEF Carried, b, v, i

LEMMA HalfBytes == \A n \in Half : Hi(n) \in Byte /\ Lo(n) \in Byte /\ 256 * Hi(n) + Lo(n) = n
  BY DEF Half, Hi, Lo, Byte

LEMMA SmallIsByte == \A n \in Nat : n < 256 => n \in Byte
  BY DEF Byte

\* The twelve bytes of a header, and the fields they are read as.
LEMMA HeaderType ==
    ASSUME NEW type \in Half, NEW seq \in Half \X Half, NEW reserved \in Half, NEW mask \in Masks,
           NEW headerLen \in Byte
    PROVE  LET h == Header(type, seq, reserved, mask, headerLen) IN
           /\ h \in Seq(Byte) /\ Len(h) = HeaderLen
           /\ h[1] = 226 /\ h[2] = MaskByte(mask) /\ Num(h, 3) = type
           /\ Num(h, 5) = seq[1] /\ Num(h, 7) = seq[2] /\ Num(h, 9) = reserved
           /\ h[11] = headerLen /\ h[12] = 0
<1> DEFINE h == Header(type, seq, reserved, mask, headerLen)
<1>1. seq[1] \in Half /\ seq[2] \in Half
  OBVIOUS
<1>2. /\ h[1] = 226 /\ h[2] = MaskByte(mask) /\ h[3] = Hi(type) /\ h[4] = Lo(type)
      /\ h[5] = Hi(seq[1]) /\ h[6] = Lo(seq[1]) /\ h[7] = Hi(seq[2]) /\ h[8] = Lo(seq[2])
      /\ h[9] = Hi(reserved) /\ h[10] = Lo(reserved) /\ h[11] = headerLen /\ h[12] = 0
      /\ Len(h) = 12
  BY DEF Header
<1>3. h \in Seq(Byte)
  <2> DEFINE p1 == MaskByte(mask)
             p2 == Hi(type)    p3 == Lo(type)
             p4 == Hi(seq[1])  p5 == Lo(seq[1])
             p6 == Hi(seq[2])  p7 == Lo(seq[2])
             p8 == Hi(reserved)  p9 == Lo(reserved)
  <2>1. /\ 226 \in Byte /\ 0 \in Byte /\ p1 \in Byte /\ p2 \in Byte /\ p3 \in Byte /\ p4 \in Byte
        /\ p5 \in Byte /\ p6 \in Byte /\ p7 \in Byte /\ p8 \in Byte /\ p9 \in Byte
    <3>1. 226 \in Byte /\ 0 \in Byte
      BY DEF Byte
    <3> QED BY <1>1, <3>1, MaskFits, HalfBytes
  <2>2. h = <<226, p1, p2, p3, p4, p5, p6, p7, p8, p9, headerLen, 0>>
    BY DEF Header
  <2> HIDE DEF h, p1, p2, p3, p4, p5, p6, p7, p8, p9
  <2> QED BY <2>1, <2>2
<1> HIDE DEF h
<1>4. Num(h, 3) = type /\ Num(h, 5) = seq[1] /\ Num(h, 7) = seq[2] /\ Num(h, 9) = reserved
  BY <1>1, <1>2, HalfBytes DEF Num
<1> QED BY <1>2, <1>3, <1>4 DEF h, HeaderLen

\* What Stamp makes of a header and a body.
Frame(h, body) == h \o body

\* A header before a body.
LEMMA Joined ==
    ASSUME NEW h \in Seq(Byte), Len(h) = HeaderLen, NEW body \in Seq(Byte)
    PROVE  /\ Frame(h, body) \in Seq(Byte) /\ Len(Frame(h, body)) = 12 + Len(body) /\ Len(body) \in Nat
           /\ \A i \in 1 .. 12 : (Frame(h, body))[i] = h[i]
           /\ \A i \in 1 .. Len(body) : (Frame(h, body))[12 + i] = body[i]
<1> DEFINE full == Frame(h, body)
<1>1. /\ full \in Seq(Byte) /\ Len(full) = Len(h) + Len(body)
      /\ \A i \in 1 .. Len(h) + Len(body) : full[i] = IF i <= Len(h) THEN h[i] ELSE body[i - Len(h)]
  BY ConcatProperties DEF Frame
<1>2. Len(body) \in Nat /\ Len(h) = 12
  BY DEF HeaderLen
<1> HIDE DEF full
<1>3. /\ full \in Seq(Byte) /\ Len(full) = 12 + Len(body)
      /\ \A i \in 1 .. 12 : full[i] = h[i]
      /\ \A i \in 1 .. Len(body) : full[12 + i] = body[i]
  BY <1>1, <1>2
<1> QED BY <1>2, <1>3 DEF full

IsFramed(w, h, body) ==
    /\ w \in Seq(Byte) /\ Len(w) = HeaderLen + Len(body) /\ Len(body) \in Nat
    /\ \A i \in 1 .. 11 : w[i] = h[i]
    /\ \A i \in 1 .. Len(body) : w[HeaderLen + i] = body[i]
    /\ w[12] = Crc8(Frame(h, body))

\* The stamp changes the checksum's byte alone.
LEMMA Framed ==
    ASSUME NEW h \in Seq(Byte), Len(h) = HeaderLen, NEW body \in Seq(Byte),
           NEW w, w = Stamp(Frame(h, body))
    PROVE  IsFramed(w, h, body)
<1> DEFINE full == Frame(h, body)
<1>1. /\ full \in Seq(Byte) /\ Len(full) = 12 + Len(body) /\ Len(body) \in Nat
      /\ \A i \in 1 .. 12 : full[i] = h[i]
      /\ \A i \in 1 .. Len(body) : full[12 + i] = body[i]
  BY Joined
<1>2. w = [full EXCEPT ![12] = Crc8(full)]
  BY DEF Stamp
<1>3. Crc8(full) \in Byte
  <2> HIDE DEF full
  <2> QED BY <1>1, LoopOneToOne, XorZero DEF Crc8
<1> HIDE DEF full
<1>4. w \in Seq(Byte) /\ Len(w) = Len(full) /\ \A i \in 1 .. Len(full) : w[i] = IF i = 12 THEN Crc8(full) ELSE full[i]
  BY <1>1, <1>2, <1>3, ExceptSeq
<1>5. Len(w) = HeaderLen + Len(body) /\ w[12] = Crc8(full)
  BY <1>1, <1>4 DEF HeaderLen
<1>6. \A i \in 1 .. 11 : w[i] = h[i]
  BY <1>1, <1>4 DEF HeaderLen
<1>7. \A i \in 1 .. Len(body) : w[HeaderLen + i] = body[i]
  BY <1>1, <1>4 DEF HeaderLen
<1> QED BY <1>1, <1>4, <1>5, <1>6, <1>7 DEF IsFramed, full

\* A receiver that clears the checksum's byte has what the sender computed it of.
LEMMA Unstamped ==
    ASSUME NEW h \in Seq(Byte), Len(h) = HeaderLen, h[12] = 0, NEW body \in Seq(Byte),
           NEW w, w = Stamp(Frame(h, body))
    PROVE  [w EXCEPT ![12] = 0] = Frame(h, body)
<1> DEFINE full == Frame(h, body)
<1>1. full \in Seq(Byte) /\ Len(full) \in Nat /\ Len(full) >= 12 /\ full[12] = 0
  <2>1. full \in Seq(Byte) /\ Len(full) = 12 + Len(body) /\ Len(body) \in Nat /\ \A i \in 1 .. 12 : full[i] = h[i]
    BY Joined
  <2> HIDE DEF full
  <2> QED BY <2>1
<1>2. w = [full EXCEPT ![12] = Crc8(full)]
  BY DEF Stamp
<1> HIDE DEF full
<1>3. full = [full EXCEPT ![12] = 0]
  BY <1>1
<1>4. [w EXCEPT ![12] = 0] = full
  BY <1>1, <1>2, <1>3
<1> QED BY <1>4 DEF full

-----------------------------------------------------------------------------
\* The attributes a sender writes: how long the tag and length of one are.
HeadOf(a, is2bLen) == IF Wide(a.tag, is2bLen) THEN 3 ELSE 2

\* The bytes of one attribute.
LEMMA EncodeAttrType ==
    ASSUME NEW a \in Attr, NEW is2bLen,
           LengthFits(a, is2bLen)
    PROVE  /\ EncodeAttr(a, is2bLen) \in Seq(Byte)
           /\ Len(EncodeAttr(a, is2bLen)) = HeadOf(a, is2bLen) + Len(a.value)
           /\ EncodeAttr(a, is2bLen)[1] = a.tag
           /\ HeadOf(a, is2bLen) = 2 => EncodeAttr(a, is2bLen)[2] = Len(a.value)
           /\ HeadOf(a, is2bLen) = 3 => Num(EncodeAttr(a, is2bLen), 2) = Len(a.value)
           /\ \A k \in 1 .. Len(a.value) : EncodeAttr(a, is2bLen)[HeadOf(a, is2bLen) + k] = a.value[k]
<1> DEFINE n == Len(a.value)
           head == HeadOf(a, is2bLen)
           h == IF Wide(a.tag, is2bLen) THEN <<a.tag, Hi(n), Lo(n)>> ELSE <<a.tag, n>>
           e == EncodeAttr(a, is2bLen)
<1>1. n \in Nat /\ a.tag \in Byte /\ a.value \in Seq(Byte)
  BY DEF Attr
<1>2. /\ h \in Seq(Byte) /\ Len(h) = head /\ h[1] = a.tag
      /\ head = 2 => h[2] = n
      /\ head = 3 => Num(h, 2) = n
  <2>1. CASE Wide(a.tag, is2bLen)
    <3>1. Hi(n) \in Byte /\ Lo(n) \in Byte /\ 256 * Hi(n) + Lo(n) = n
      BY <1>1, <2>1, HalfBytes DEF Half, LengthFits
    <3>2. h = <<a.tag, Hi(n), Lo(n)>> /\ head = 3
      BY <2>1 DEF HeadOf
    <3> HIDE DEF h, head
    <3> QED BY <1>1, <3>1, <3>2 DEF Num
  <2>2. CASE ~Wide(a.tag, is2bLen)
    <3>1. n \in Byte
      BY <1>1, <2>2, SmallIsByte DEF LengthFits
    <3>2. h = <<a.tag, n>> /\ head = 2
      BY <2>2 DEF HeadOf
    <3> HIDE DEF h, head
    <3> QED BY <1>1, <3>1, <3>2
  <2> QED BY <2>1, <2>2
<1>3. e = h \o a.value
  BY DEF EncodeAttr
<1> HIDE DEF h, e
<1>4. /\ e \in Seq(Byte) /\ Len(e) = Len(h) + n
      /\ \A i \in 1 .. Len(h) + n : e[i] = IF i <= Len(h) THEN h[i] ELSE a.value[i - Len(h)]
  <2>1. h \in Seq(Byte) /\ a.value \in Seq(Byte)
    BY <1>1, <1>2
  <2> QED BY <1>3, <2>1, ConcatProperties
<1>5. head \in {2, 3}
  BY DEF HeadOf
<1> HIDE DEF head
<1>6. /\ Len(e) = head + n /\ e[1] = a.tag
      /\ head = 2 => e[2] = n
      /\ head = 3 => Num(e, 2) = n
  <2>1. Len(e) = head + n /\ e[1] = a.tag /\ e[2] = h[2] /\ (head = 3 => e[3] = h[3])
    BY <1>1, <1>2, <1>4, <1>5
  <2> QED BY <1>2, <1>5, <2>1 DEF Num
<1>7. \A k \in 1 .. n : e[head + k] = a.value[k]
  BY <1>1, <1>2, <1>4, <1>5
<1>8. e \in Seq(Byte)
  BY <1>4
<1> QED BY <1>6, <1>7, <1>8 DEF e, head

EncodingBody(attrs, is2bLen, f, k) ==
    [i \in 0 .. k |-> IF i = 0 THEN <<>> ELSE f[i - 1] \o EncodeAttr(attrs[i], is2bLen)]

\* The recursive function Encodings exists.
LEMMA EncodingsDefined ==
    ASSUME NEW attrs \in Seq(Attr), NEW is2bLen
    PROVE  Encodings(attrs, is2bLen) = EncodingBody(attrs, is2bLen, Encodings(attrs, is2bLen), Len(attrs))
<1> DEFINE n == Len(attrs)
           Body(f, k) == EncodingBody(attrs, is2bLen, f, k)
           T == {k \in 0 .. n : \E f : f = Body(f, k)}
<1>1. n \in Nat
  OBVIOUS
<1>2. 0 \in T
  <2> DEFINE f == [i \in 0 .. 0 |-> <<>>]
  <2>1. f = Body(f, 0)
    BY DEF EncodingBody
  <2> HIDE DEF f
  <2> QED BY <1>1, <2>1
<1>3. ASSUME NEW k \in 1 .. n, k - 1 \in T PROVE k \in T
  <2>1. PICK f : f = Body(f, k - 1)
    BY <1>3
  <2> DEFINE g == [i \in 0 .. k |-> IF i = k THEN f[k - 1] \o EncodeAttr(attrs[k], is2bLen) ELSE f[i]]
  <2>2. g = Body(g, k)
    BY <2>1 DEF EncodingBody
  <2> HIDE DEF g
  <2> QED BY <2>2
<1>4. n \in T
  <2> HIDE DEF T, n
  <2>1. 0 .. n \subseteq T
    BY <1>1, <1>2, <1>3, Climb
  <2> QED BY <1>1, <2>1
<1>5. \E f : f = Body(f, n)
  BY <1>4
<1> QED BY <1>5 DEF Encodings, EncodingBody

\* Where the encoding of the first i attributes ends.
Ends(attrs, is2bLen, i) == Len(Encodings(attrs, is2bLen)[i])

\* One attribute after those before it.
LEMMA EncodingStep ==
    ASSUME NEW attrs \in Seq(Attr), NEW is2bLen
    PROVE  /\ Encodings(attrs, is2bLen)[0] = <<>>
           /\ \A i \in 1 .. Len(attrs) :
                 Encodings(attrs, is2bLen)[i] = Encodings(attrs, is2bLen)[i - 1] \o EncodeAttr(attrs[i], is2bLen)
<1> DEFINE f == Encodings(attrs, is2bLen)
<1>1. f = EncodingBody(attrs, is2bLen, f, Len(attrs)) /\ Len(attrs) \in Nat
  BY EncodingsDefined
<1> HIDE DEF f
<1>2. f[0] = <<>> /\ \A i \in 1 .. Len(attrs) : f[i] = f[i - 1] \o EncodeAttr(attrs[i], is2bLen)
  BY <1>1 DEF EncodingBody
<1> QED BY <1>2 DEF f

\* An encoding consists of bytes.
LEMMA EncodingType ==
    ASSUME NEW attrs \in Seq(Attr), NEW is2bLen, Fits(attrs, is2bLen)
    PROVE  /\ \A i \in 0 .. Len(attrs) : Encodings(attrs, is2bLen)[i] \in Seq(Byte)
           /\ EncodeAttrs(attrs, is2bLen) \in Seq(Byte)
<1> DEFINE f == Encodings(attrs, is2bLen)
           n == Len(attrs)
           Good(i) == f[i] \in Seq(Byte)
           T == {i \in 0 .. n : Good(i)}
<1>1. n \in Nat /\ \A i \in 1 .. n : attrs[i] \in Attr
  OBVIOUS
<1>2. f[0] = <<>> /\ \A i \in 1 .. n : f[i] = f[i - 1] \o EncodeAttr(attrs[i], is2bLen)
  BY EncodingStep
<1>3. \A i \in 1 .. n : EncodeAttr(attrs[i], is2bLen) \in Seq(Byte)
  <2>1. ASSUME NEW i \in 1 .. n PROVE EncodeAttr(attrs[i], is2bLen) \in Seq(Byte)
    <3>1. attrs[i] \in Attr /\ LengthFits(attrs[i], is2bLen)
      BY <1>1 DEF Fits
    <3> QED BY <3>1, EncodeAttrType
  <2> QED BY <2>1
<1> HIDE DEF f
<1>4. 0 \in T
  <2>1. Good(0)
    BY <1>2, EmptySeq
  <2> HIDE DEF Good
  <2> QED BY <1>1, <2>1
<1>5. ASSUME NEW i \in 1 .. n, i - 1 \in T PROVE i \in T
  <2>1. f[i - 1] \in Seq(Byte)
    BY <1>5
  <2>2. f[i - 1] \o EncodeAttr(attrs[i], is2bLen) \in Seq(Byte)
    BY <1>3, <2>1, ConcatProperties
  <2>3. Good(i)
    BY <1>2, <2>2
  <2> HIDE DEF Good
  <2> QED BY <1>1, <2>3
<1>6. \A i \in 0 .. n : i \in T
  <2> HIDE DEF T
  <2>1. 0 .. n \subseteq T
    BY <1>1, <1>4, <1>5, Climb
  <2> QED BY <2>1
<1> QED BY <1>1, <1>6 DEF f, EncodeAttrs

-----------------------------------------------------------------------------
\* The cipher and its padding.
LEMMA CipherType ==
    ASSUME NEW b \in Seq(Byte), NEW key \in Byte
    PROVE  /\ Cipher(b, key, 1) \in Seq(Byte) /\ Len(Cipher(b, key, 1)) = Len(b)
           /\ Cipher(b, key, -1) \in Seq(Byte) /\ Len(Cipher(b, key, -1)) = Len(b)
           /\ Cipher(Cipher(b, key, 1), key, -1) = b
<1>1. Len(b) \in Nat /\ \A i \in 1 .. Len(b) : b[i] \in Byte
  OBVIOUS
<1>2. \A x \in Byte : /\ (x + 256 + 1 * key) % 256 \in Byte /\ (x + 256 + (-1) * key) % 256 \in Byte
                      /\ (((x + 256 + 1 * key) % 256) + 256 + (-1) * key) % 256 = x
  BY DEF Byte
<1> DEFINE c == Cipher(b, key, 1)
           d == Cipher(b, key, -1)
<1>3. c = [i \in 1 .. Len(b) |-> (b[i] + 256 + 1 * key) % 256] /\ d = [i \in 1 .. Len(b) |-> (b[i] + 256 + (-1) * key) % 256]
  BY DEF Cipher
<1>4. c \in [1 .. Len(b) -> Byte] /\ d \in [1 .. Len(b) -> Byte]
  BY <1>1, <1>2, <1>3
<1>5. c \in Seq(Byte) /\ Len(c) = Len(b) /\ d \in Seq(Byte) /\ Len(d) = Len(b)
  <2> HIDE DEF c, d
  <2> QED BY <1>1, <1>4
<1>6. Cipher(c, key, -1) = b
  <2> DEFINE e == Cipher(c, key, -1)
  <2>1. e = [i \in 1 .. Len(c) |-> (c[i] + 256 + (-1) * key) % 256]
    BY DEF Cipher
  <2> HIDE DEF c, e
  <2>2. e = [i \in 1 .. Len(b) |-> b[i]]
    <3>1. \A i \in 1 .. Len(b) : c[i] = (b[i] + 256 + 1 * key) % 256
      BY <1>3
    <3> QED BY <1>1, <1>2, <1>5, <2>1, <3>1
  <2>3. b = [i \in 1 .. Len(b) |-> b[i]]
    OBVIOUS
  <2> QED BY <2>2, <2>3 DEF e
<1> QED BY <1>5, <1>6

\* PKCS7: padding is well formed, and what is left without it is what was padded.
LEMMA PadComesOff ==
    ASSUME NEW b \in Seq(Byte)
    PROVE  /\ Pad(b) \in Seq(Byte) /\ Padded(Pad(b))
           /\ SubSeq(Pad(b), 1, Len(Pad(b)) - Last(Pad(b))) = b
<1> DEFINE p == Block - (Len(b) % Block)
           t == [i \in 1 .. p |-> p]
           c == Pad(b)
<1>1. Len(b) \in Nat /\ p \in 1 .. 16 /\ (Len(b) + p) % 16 = 0
  BY DEF Block
<1>2. c = b \o t
  BY DEF Pad
<1>3. p \in Byte
  <2> HIDE DEF p
  <2> QED BY <1>1, SmallIsByte
<1> HIDE DEF p, c
<1>4. t \in Seq(Byte) /\ Len(t) = p /\ \A i \in 1 .. p : t[i] = p
  <2>1. t \in [1 .. p -> Byte]
    BY <1>3
  <2> QED BY <1>1, <2>1
<1> HIDE DEF t
<1>5. /\ c \in Seq(Byte) /\ Len(c) = Len(b) + Len(t)
      /\ \A i \in 1 .. Len(b) + Len(t) : c[i] = IF i <= Len(b) THEN b[i] ELSE t[i - Len(b)]
  BY <1>2, <1>4, ConcatProperties
<1>6. /\ Len(c) = Len(b) + p
      /\ \A i \in 1 .. Len(b) : c[i] = b[i]
      /\ \A i \in Len(b) + 1 .. Len(b) + p : c[i] = p
  <2>1. Len(b) \in Nat /\ Len(t) = p /\ p \in Nat
    BY <1>1, <1>4
  <2>2. Len(c) = Len(b) + p /\ \A i \in 1 .. Len(b) + p : c[i] = IF i <= Len(b) THEN b[i] ELSE t[i - Len(b)]
    BY <1>5, <2>1
  <2>3. ASSUME NEW i \in Len(b) + 1 .. Len(b) + p PROVE c[i] = p
    <3>1. i - Len(b) \in 1 .. p /\ i \in 1 .. Len(b) + p /\ ~(i <= Len(b))
      BY <2>1
    <3> QED BY <1>4, <2>2, <3>1
  <2> QED BY <2>1, <2>2, <2>3
<1>7. Last(c) = p
  BY <1>1, <1>6 DEF Last
<1>8. Padded(c)
  BY <1>1, <1>6, <1>7 DEF Padded, Block
<1>9. SubSeq(c, 1, Len(c) - Last(c)) = b
  <2>1. SubSeq(b \o t, 1, Len(b)) = b
    BY <1>4, SubSeqOfConcat1, SubSeqFull
  <2>2. Len(c) - Last(c) = Len(b)
    BY <1>1, <1>6, <1>7
  <2> QED BY <1>2, <2>1, <2>2
<1> QED BY <1>5, <1>8, <1>9 DEF c

\* Decryption gives back the padded body.
LEMMA Encrypted ==
    ASSUME NEW b \in Seq(Byte), NEW key \in Byte
    PROVE  AesEncrypt(b, key) \in Seq(Byte) /\ Cipher(AesEncrypt(b, key), key, -1) = Pad(b)
<1>1. Pad(b) \in Seq(Byte)
  BY PadComesOff
<1> QED BY <1>1, CipherType DEF AesEncrypt

-----------------------------------------------------------------------------
\* Every message and play request is framed.
ExpandAttrs(uid) ==
    <<[tag |-> 0, value |-> <<0, 1>>], [tag |-> 1, value |-> uid],
      [tag |-> 2, value |-> <<0, 0, 0, 1>>], [tag |-> 3, value |-> <<0, 1>>]>>

\* Values of up to 255 bytes fit with either form of length.
LEMMA ShortValuesFit ==
    ASSUME NEW attrs \in Seq(Attr), NEW is2bLen, \A i \in 1 .. Len(attrs) : Len(attrs[i].value) \in Byte
    PROVE  Fits(attrs, is2bLen)
<1>1. ASSUME NEW a \in Attr, Len(a.value) \in Byte PROVE LengthFits(a, is2bLen)
  <2>1. Len(a.value) <= 65535 /\ Len(a.value) <= 255
    <3> DEFINE Small(n) == n <= 65535 /\ n <= 255
    <3>1. \A n \in Byte : Small(n)
      BY DEF Byte
    <3>2. Small(Len(a.value))
      <4> HIDE DEF Small
      <4> QED BY <1>1, <3>1, Zenon
    <3> QED BY <3>2
  <2> QED BY <2>1 DEF LengthFits
<1>2. \A i \in 1 .. Len(attrs) : attrs[i] \in Attr
  OBVIOUS
<1> QED BY <1>1, <1>2, Zenon DEF Fits

\* The expand header of a play request can be encoded.
LEMMA ExpandFits ==
    ASSUME NEW uid \in Seq(Byte), Len(uid) < 256
    PROVE  ExpandAttrs(uid) \in Seq(Attr) /\ Fits(ExpandAttrs(uid), FALSE) /\ ExpandHeader(uid) \in Seq(Byte)
<1> DEFINE a1 == [tag |-> 0, value |-> <<0, 1>>]
           a2 == [tag |-> 1, value |-> uid]
           a3 == [tag |-> 2, value |-> <<0, 0, 0, 1>>]
           a4 == [tag |-> 3, value |-> <<0, 1>>]
           all == ExpandAttrs(uid)
<1>1. 0 \in Byte /\ 1 \in Byte /\ 2 \in Byte /\ 3 \in Byte
  BY DEF Byte
<1>2. a1 \in Attr /\ a2 \in Attr /\ a3 \in Attr /\ a4 \in Attr
  BY <1>1 DEF Attr
<1>3. Len(a1.value) \in Byte /\ Len(a2.value) \in Byte /\ Len(a3.value) \in Byte /\ Len(a4.value) \in Byte
  <2>1. Len(a1.value) = 2 /\ Len(a2.value) = Len(uid) /\ Len(a3.value) = 4 /\ Len(a4.value) = 2
    OBVIOUS
  <2>2. Len(uid) \in Byte /\ 2 \in Byte /\ 4 \in Byte
    <3>1. Len(uid) \in Nat
      OBVIOUS
    <3> QED BY <3>1, SmallIsByte
  <2> HIDE DEF a1, a2, a3, a4
  <2> QED BY <2>1, <2>2
<1>4. all = <<a1, a2, a3, a4>>
  BY DEF ExpandAttrs
<1> HIDE DEF a1, a2, a3, a4, all
<1>5. all \in Seq(Attr)
  BY <1>2, <1>4
<1>6. Fits(all, FALSE)
  <2>1. \A i \in 1 .. Len(all) : Len(all[i].value) \in Byte
    <3>1. \A i \in 1 .. Len(<<a1, a2, a3, a4>>) : Len(<<a1, a2, a3, a4>>[i].value) \in Byte
      BY <1>3
    <3> QED BY <1>4, <3>1, Zenon
  <2> QED BY <1>5, <2>1, ShortValuesFit, Zenon
<1>7. EncodeAttrs(all, FALSE) \in Seq(Byte)
  BY <1>5, <1>6, EncodingType
<1> QED BY <1>5, <1>6, <1>7 DEF all, ExpandAttrs, ExpandHeader

\* So can its body.
LEMMA PlayFits ==
    PlayBody \in Seq(Attr) /\ (\A w : Fits(PlayBody, w)) /\ EncodeAttrs(PlayBody, FALSE) \in Seq(Byte)
<1> DEFINE a1 == [tag |-> 118, value |-> <<1>>]
           a2 == [tag |-> 119, value |-> <<0, 1>>]
<1>1. 0 \in Byte /\ 1 \in Byte /\ 2 \in Byte /\ 118 \in Byte /\ 119 \in Byte
  BY DEF Byte
<1>2. a1 \in Attr /\ a2 \in Attr
  BY <1>1 DEF Attr
<1>3. Len(a1.value) \in Byte /\ Len(a2.value) \in Byte
  <2>1. Len(a1.value) = 1 /\ Len(a2.value) = 2
    OBVIOUS
  <2> QED BY <1>1, <2>1
<1> HIDE DEF a1, a2
<1>4. <<a1, a2>> \in Seq(Attr) /\ \A i \in 1 .. Len(<<a1, a2>>) : Len(<<a1, a2>>[i].value) \in Byte
  BY <1>2, <1>3
<1>5. PlayBody = <<a1, a2>>
  BY DEF PlayBody, a1, a2
<1>6. \A w : Fits(PlayBody, w)
  BY <1>4, <1>5, ShortValuesFit, Zenon
<1> QED BY <1>4, <1>5, <1>6, EncodingType

\* The bytes behind the fixed header.
BodyOf(s) ==
    IF s.is = "play" THEN ExpandHeader(s.of) \o AesEncrypt(EncodeAttrs(PlayBody, FALSE), Key)
    ELSE IF s.of.mask.encrypt THEN AesEncrypt(EncodeAttrs(s.of.attrs, s.of.mask.is2bLen), Key)
    ELSE EncodeAttrs(s.of.attrs, s.of.mask.is2bLen)

FixedPart(s) ==
    IF s.is = "play" THEN Header(3074, <<0, 1>>, 25140, PlayMask, (HeaderLen + Len(ExpandHeader(s.of))) % 256)
    ELSE Header(s.of.type, s.of.seq, s.of.reserved, s.of.mask, HeaderLen)

LEMMA MessageTypes ==
    ASSUME NEW m \in Messages
    PROVE  /\ m.type \in Half /\ m.seq \in Half \X Half /\ m.reserved \in Half /\ m.mask \in Masks
           /\ m.attrs \in Seq(Attr)
  BY P2PWireAssumption

LEMMA SentKinds ==
    ASSUME NEW s \in Sent
    PROVE  \/ s.is = "message" /\ s.of \in Messages
           \/ s.is = "play" /\ s.of \in UserIds
           \/ s.is = "data" /\ s.of \in SeqNums
  BY DEF Sent

\* Every message and every play request is a stamped header before a body.
LEMMA EncodedIsFramed ==
    ASSUME NEW s \in Sent, s.is # "data", s.is = "message" => Encoded(s) # <<>>
    PROVE  /\ FixedPart(s) \in Seq(Byte) /\ Len(FixedPart(s)) = HeaderLen
           /\ FixedPart(s)[1] = 226 /\ FixedPart(s)[12] = 0
           /\ BodyOf(s) \in Seq(Byte)
           /\ Encoded(s) = Stamp(Frame(FixedPart(s), BodyOf(s)))
           /\ s.is = "message" => Fits(s.of.attrs, s.of.mask.is2bLen)
<1> DEFINE h == FixedPart(s)
           b == BodyOf(s)
<1>1. Key \in Byte
  BY P2PWireAssumption
<1>2. CASE s.is = "message"
  <2> DEFINE m == s.of
             e == EncodeAttrs(m.attrs, m.mask.is2bLen)
  <2>1. m \in Messages
    BY <1>2, SentKinds
  <2>2. Fits(m.attrs, m.mask.is2bLen) /\ Encoded(s) = EncodeMessage(m, Key)
    BY <1>2 DEF Encoded
  <2>3. e \in Seq(Byte)
    BY <2>1, <2>2, MessageTypes, EncodingType
  <2>4. h = Header(m.type, m.seq, m.reserved, m.mask, HeaderLen) /\ b = IF m.mask.encrypt THEN AesEncrypt(e, Key) ELSE e
    BY <1>2 DEF FixedPart, BodyOf
  <2>5. b \in Seq(Byte)
    <3> HIDE DEF e
    <3> QED BY <1>1, <2>3, <2>4, Encrypted
  <2>6. h \in Seq(Byte) /\ Len(h) = HeaderLen /\ h[1] = 226 /\ h[12] = 0
    <3>1. HeaderLen \in Byte
      BY DEF HeaderLen, Byte
    <3> QED BY <2>1, <2>4, <3>1, MessageTypes, HeaderType
  <2>7. Encoded(s) = Stamp(Frame(h, b))
    BY <2>2, <2>4 DEF EncodeMessage, Frame
  <2> QED BY <2>2, <2>5, <2>6, <2>7
<1>3. CASE s.is = "play"
  <2> DEFINE x == ExpandHeader(s.of)
             c == AesEncrypt(EncodeAttrs(PlayBody, FALSE), Key)
             n == (HeaderLen + Len(x)) % 256
  <2>1. x \in Seq(Byte)
    <3>1. s.of \in UserIds
      BY <1>3, SentKinds
    <3>2. s.of \in Seq(Byte) /\ Len(s.of) < 256
      BY <3>1, P2PWireAssumption
    <3> QED BY <3>2, ExpandFits
  <2>2. c \in Seq(Byte)
    BY <1>1, PlayFits, Encrypted
  <2>3. b = x \o c
    BY <1>3 DEF BodyOf
  <2>7. h = Header(3074, <<0, 1>>, 25140, PlayMask, n)
    BY <1>3 DEF FixedPart
  <2>4. Encoded(s) = Stamp(h \o x \o c)
    <3>1. Encoded(s) = InnerMessage(s.of, Key)
      BY <1>3 DEF Encoded
    <3> QED BY <2>3, <2>7, <3>1 DEF InnerMessage
  <2>5. h \in Seq(Byte) /\ Len(h) = HeaderLen /\ h[1] = 226 /\ h[12] = 0
    <3>1. 3074 \in Half /\ <<0, 1>> \in Half \X Half /\ 25140 \in Half /\ PlayMask \in Masks
      BY DEF Half, PlayMask, Masks
    <3>2. n \in Byte
      <4> HIDE DEF x
      <4>1. \A k \in Nat : (HeaderLen + k) % 256 \in Byte
        BY DEF HeaderLen, Byte
      <4>2. Len(x) \in Nat
        BY <2>1
      <4> QED BY <4>1, <4>2
    <3> HIDE DEF n
    <3> QED BY <2>7, <3>1, <3>2, HeaderType
  <2> HIDE DEF h, x, c, n
  <2>6. b \in Seq(Byte) /\ h \o x \o c = Frame(h, b)
    <3>1. b \in Seq(Byte)
      BY <2>1, <2>2, <2>3, ConcatProperties
    <3>2. (h \o x) \o c = h \o (x \o c)
      <4>1. h \in Seq(Byte)
        BY <2>5
      <4> QED BY <2>1, <2>2, <4>1, ConcatAssociative
    <3>3. Frame(h, b) = h \o b
      BY DEF Frame
    <3>4. (h \o x) \o c = Frame(h, b)
      <4> HIDE DEF b
      <4> QED BY <2>3, <3>2, <3>3
    <3> QED BY <3>1, <3>4
  <2> QED BY <1>3, <2>4, <2>5, <2>6 DEF h
<1> QED BY <1>2, <1>3, SentKinds

-----------------------------------------------------------------------------
(***************************************************************************)
(* What the datagram is, at every moment: what was sent, that with one     *)
(* byte changed, or its beginning under a checksum of its own.             *)
(***************************************************************************)
Changed(s, w) == \E i \in 1 .. Len(Encoded(s)), c \in Changes : w = [Encoded(s) EXCEPT ![i] = XorByte[@][c]]

CutTo(s, w) ==
    \E n \in HeaderLen .. Len(Encoded(s)) - 1 : w = Stamp([SubSeq(Encoded(s), 1, n) EXCEPT ![12] = 0])

WireInv ==
    /\ sent \in Sent
    /\ fate \in {"intact", "changed", "cut"}
    /\ fate = "intact" => wire = Encoded(sent)
    /\ fate = "changed" => sent.is # "data" /\ Changed(sent, wire)
    /\ fate = "cut" => sent.is = "message" /\ ~sent.of.mask.encrypt /\ CutTo(sent, wire)

\* The datagram is always one of these three (session.py and v3.py build it, the network
\* and the senders v3.py is written for do the rest).
THEOREM DatagramIsKnown == Spec => []WireInv
<1>1. Init => WireInv
  BY DEF Init, WireInv
<1>2. WireInv /\ [Next]_vars => WireInv'
  <2> SUFFICES ASSUME WireInv, [Next]_vars PROVE WireInv'
    OBVIOUS
  <2>1. CASE ChangeByte
    <3>1. fate = "intact" /\ sent.is # "data" /\ fate' = "changed" /\ sent' = sent /\ wire = Encoded(sent)
      BY <2>1 DEF ChangeByte, WireInv
    <3>2. Changed(sent, wire')
      BY <2>1, <3>1 DEF ChangeByte, Changed
    <3> QED BY <3>1, <3>2 DEF WireInv
  <2>2. CASE CutBody
    <3>1. /\ fate = "intact" /\ sent.is = "message" /\ ~sent.of.mask.encrypt
          /\ fate' = "cut" /\ sent' = sent /\ wire = Encoded(sent)
      BY <2>2 DEF CutBody, WireInv
    <3>2. CutTo(sent, wire')
      BY <2>2, <3>1 DEF CutBody, CutTo
    <3> QED BY <3>1, <3>2 DEF WireInv
  <2>3. CASE UNCHANGED vars
    BY <2>3 DEF vars, WireInv
  <2> QED BY <2>1, <2>2, <2>3 DEF Next
<1> QED BY <1>1, <1>2, PTL DEF Spec

-----------------------------------------------------------------------------
(***************************************************************************)
(* A message with one byte changed, in whatever bits, is never taken.      *)
(***************************************************************************)
LEMMA ChangeIsCaught ==
    ASSUME NEW h \in Seq(Byte), Len(h) = HeaderLen, h[12] = 0, NEW body \in Seq(Byte),
           NEW e, e = Stamp(Frame(h, body)),
           NEW i \in 1 .. Len(e), NEW c \in Byte, c # 0
    PROVE  ~DecodeMessage([e EXCEPT ![i] = XorByte[@][c]], Key).ok
<1> DEFINE full == Frame(h, body)
           x == XorByte[e[i]][c]
           w == [e EXCEPT ![i] = x]
           v == [w EXCEPT ![12] = 0]
<1>1. /\ e \in Seq(Byte) /\ Len(e) \in Nat /\ Len(e) = HeaderLen + Len(body) /\ 12 \in 1 .. Len(e)
      /\ [e EXCEPT ![12] = 0] = full /\ e[12] = Crc8(full)
  <2>1. Len(body) \in Nat
    OBVIOUS
  <2>2. /\ e \in Seq(Byte) /\ Len(e) = HeaderLen + Len(body)
        /\ [e EXCEPT ![12] = 0] = full /\ e[12] = Crc8(full)
    <3>1. e \in Seq(Byte) /\ Len(e) = HeaderLen + Len(body) /\ e[12] = Crc8(full)
      <4>1. IsFramed(e, h, body)
        BY Framed
      <4> QED BY <4>1 DEF IsFramed
    <3>2. [e EXCEPT ![12] = 0] = full
      BY Unstamped
    <3> HIDE DEF full
    <3> QED BY <3>1, <3>2 DEF HeaderLen
  <2> QED BY <2>1, <2>2 DEF HeaderLen
<1>2. e[i] \in Byte /\ x \in Byte /\ x # e[i]
  <2>1. e[i] \in Byte
    BY <1>1
  <2> QED BY <2>1, XorBits, XorOneToOne
<1>3. 0 \in Byte
  BY XorZero
<1> HIDE DEF x, full
<1>4. w \in Seq(Byte) /\ Len(w) = Len(e) /\ \A j \in 1 .. Len(e) : w[j] = IF j = i THEN x ELSE e[j]
  BY <1>1, <1>2, ExceptSeq
<1> HIDE DEF w
<1>5. v \in Seq(Byte) /\ Len(v) = Len(e) /\ \A j \in 1 .. Len(e) : v[j] = IF j = 12 THEN 0 ELSE w[j]
  BY <1>1, <1>3, <1>4, ExceptSeq
<1>6. full \in Seq(Byte) /\ Len(full) = Len(e) /\ \A j \in 1 .. Len(e) : full[j] = IF j = 12 THEN 0 ELSE e[j]
  <2> DEFINE g == [e EXCEPT ![12] = 0]
  <2>1. g \in Seq(Byte) /\ Len(g) = Len(e) /\ \A j \in 1 .. Len(e) : g[j] = IF j = 12 THEN 0 ELSE e[j]
    BY <1>1, <1>3, ExceptSeq
  <2>2. g = full
    BY <1>1
  <2> HIDE DEF g
  <2> QED BY <2>1, <2>2
<1> HIDE DEF v
<1>7. Crc8(v) # w[12]
  <2>1. CASE i = 12
    <3>1. v = full
      <4>1. \A j \in 1 .. Len(v) : v[j] = full[j]
        BY <2>1, <1>4, <1>5, <1>6
      <4> QED BY <1>5, <1>6, <4>1, SeqEqual
    <3>2. w[12] = x /\ x # Crc8(full)
      BY <1>1, <1>2, <1>4, <2>1
    <3> QED BY <3>1, <3>2
  <2>2. CASE i # 12
    <3>1. w[12] = Crc8(full)
      BY <1>1, <1>4, <2>2
    <3>2. v[i] = x /\ full[i] = e[i]
      BY <1>1, <1>4, <1>5, <1>6, <2>2
    <3>3. v[i] # full[i]
      BY <1>2, <3>2
    <3>4. \A j \in 1 .. Len(v) : j # i => v[j] = full[j]
      BY <1>4, <1>5, <1>6
    <3>5. i \in 1 .. Len(v) /\ Len(v) = Len(full)
      BY <1>5, <1>6
    <3>6. Crc8(v) # Crc8(full)
      BY <1>5, <1>6, <3>3, <3>4, <3>5, OneByteCounts
    <3> QED BY <3>1, <3>6
  <2> QED BY <2>1, <2>2
<1>8. DecodeMessage(w, Key) = Error
  BY <1>7 DEF DecodeMessage, v
<1>9. w = [e EXCEPT ![i] = XorByte[@][c]]
  BY DEF w, x
<1> QED BY <1>8, <1>9 DEF Error

\* A message with one byte changed is never taken: the checksum tells any two byte strings
\* that differ in one byte apart (v3.py:290-297).
THEOREM ChangedByteIsCaught == Spec => []ByteChangeCaught
<1>1. WireInv => ByteChangeCaught
  <2> SUFFICES ASSUME WireInv, fate = "changed" PROVE ~DecodeMessage(wire, Key).ok
    BY DEF ByteChangeCaught
  <2> DEFINE e == Encoded(sent)
             h == FixedPart(sent)
             b == BodyOf(sent)
  <2>1. sent \in Sent /\ sent.is # "data" /\ Changed(sent, wire)
    BY DEF WireInv
  <2>2. PICK i \in 1 .. Len(e), c \in Changes : wire = [e EXCEPT ![i] = XorByte[@][c]]
    BY <2>1 DEF Changed
  <2>3. e # <<>>
    BY <2>2
  <2>4. h \in Seq(Byte) /\ Len(h) = HeaderLen /\ h[12] = 0 /\ b \in Seq(Byte) /\ e = Stamp(Frame(h, b))
    BY <2>1, <2>3, EncodedIsFramed
  <2>5. c \in Byte /\ c # 0
    BY P2PWireAssumption
  <2> HIDE DEF e, h, b
  <2> QED BY <2>2, <2>4, <2>5, ChangeIsCaught
<1> QED BY <1>1, DatagramIsKnown, PTL

\* Routing, in a session that is up.
RouteUp(w) == Route(w, TRUE)

\* Where a data packet goes, by the upper half of its sequence number.
LEMMA DataRouted ==
    ASSUME NEW s \in SeqNums
    PROVE  /\ s[1] = SetUpType => RouteUp(DataPacket(s)) = "setup"
           /\ s[1] # SetUpType => RouteUp(DataPacket(s)) = "data"
<1> DEFINE w == DataPacket(s)
<1>1. s[1] \in Half /\ s[2] \in Half /\ s[1] < 32768 /\ s[1] \in Nat
  BY P2PWireAssumption DEF Half
<1>2. Hi(s[1]) \in Nat /\ Hi(s[1]) < 128 /\ 256 * Hi(s[1]) + Lo(s[1]) = s[1]
  BY <1>1 DEF Hi, Lo
<1>3. Len(w) = 16 /\ w[1] = Hi(s[1]) /\ w[2] = Lo(s[1])
  <2> DEFINE u == U32(s)
             z == [i \in 1 .. 12 |-> 0]
  <2>1. u \in Seq(Byte) /\ Len(u) = 4 /\ u[1] = Hi(s[1]) /\ u[2] = Lo(s[1])
    BY <1>1, HalfBytes DEF U32
  <2>2. z \in Seq(Byte) /\ Len(z) = 12
    <3>1. z \in [1 .. 12 -> Byte]
      BY XorZero
    <3> QED BY <3>1
  <2>3. w = u \o z
    BY DEF DataPacket
  <2> HIDE DEF u, z, w
  <2>4. Len(w) = Len(u) + Len(z) /\ \A i \in 1 .. Len(u) + Len(z) : w[i] = IF i <= Len(u) THEN u[i] ELSE z[i - Len(u)]
    BY <2>1, <2>2, <2>3, ConcatProperties
  <2> QED BY <2>1, <2>2, <2>4
<1> HIDE DEF w
<1>4. Num(w, 1) = s[1] /\ w[1] < 128 /\ w[1] \in Nat /\ w[1] \div 16 # 14
  BY <1>2, <1>3 DEF Num
<1>5. Num(w, 1) \notin {32768, 32769, 32770, 32771, 32773, 32774}
  BY <1>1, <1>4
<1> QED BY <1>3, <1>4, <1>5 DEF RouteUp, Route, SetUpType, w

\* Every datagram goes where _handle_packet should send it, set-up look-alikes aside
\* (session.py:517-547).
THEOREM DatagramsAreRouted == Spec => []RoutedRight
<1>1. WireInv => RoutedRight
  <2> SUFFICES ASSUME WireInv, fate = "intact", wire # <<>>
               PROVE  RouteUp(wire) = Destination(sent)
    BY DEF RoutedRight, RouteUp
  <2>1. sent \in Sent /\ wire = Encoded(sent)
    BY DEF WireInv
  <2>2. CASE sent.is # "data"
    <3> DEFINE h == FixedPart(sent)
               b == BodyOf(sent)
    <3>1. h \in Seq(Byte) /\ Len(h) = HeaderLen /\ h[1] = 226 /\ h[12] = 0 /\ b \in Seq(Byte) /\ wire = Stamp(Frame(h, b))
      BY <2>1, <2>2, EncodedIsFramed
    <3> HIDE DEF h, b
    <3>2. Len(wire) = HeaderLen + Len(b) /\ \A i \in 1 .. 11 : wire[i] = h[i]
      <4>1. IsFramed(wire, h, b)
        BY <3>1, Framed
      <4> QED BY <4>1 DEF IsFramed
    <3>3. wire[1] = 226 /\ Len(b) \in Nat
      BY <3>1, <3>2 DEF HeaderLen
    <3>4. Len(wire) >= HeaderLen /\ ~(Len(wire) < 2) /\ wire[1] \div 16 = 14
      BY <3>2, <3>3 DEF HeaderLen
    <3> QED BY <2>2, <3>4 DEF RouteUp, Route, Destination
  <2>3. CASE sent.is = "data"
    <3>1. sent.of \in SeqNums /\ wire = DataPacket(sent.of)
      BY <2>1, <2>3, SentKinds DEF Encoded
    <3> DEFINE r == RouteUp(wire)
               n == sent.of
    <3>2. (n[1] = SetUpType => r = "setup") /\ (n[1] # SetUpType => r = "data")
      BY <3>1, DataRouted
    <3>3. Destination(sent) = IF n[1] = SetUpType THEN "setup" ELSE "data"
      BY <2>3 DEF Destination
    <3> HIDE DEF r, n
    <3>4. r = Destination(sent)
      BY <3>2, <3>3
    <3> QED BY <3>4 DEF r
  <2> QED BY <2>2, <2>3
<1> QED BY <1>1, DatagramIsKnown, PTL

-----------------------------------------------------------------------------
(***************************************************************************)
(* Where the attributes are in their encoding.                             *)
(***************************************************************************)
AttrIsAt(b, p, a, is2bLen) ==
    /\ b[p + 1] = a.tag
    /\ HeadOf(a, is2bLen) = 2 => b[p + 2] = Len(a.value)
    /\ HeadOf(a, is2bLen) = 3 => Num(b, p + 2) = Len(a.value)
    /\ \A k \in 1 .. Len(a.value) : b[p + HeadOf(a, is2bLen) + k] = a.value[k]

LEMMA HeadIs == \A a, is2bLen : HeadOf(a, is2bLen) \in {2, 3}
  BY DEF HeadOf

\* What is written at a place is there in whatever agrees up to its end.
LEMMA AttrStays ==
    ASSUME NEW b, NEW c, NEW a \in Attr, NEW is2bLen, NEW p \in Nat,
           \A k \in 1 .. p + HeadOf(a, is2bLen) + Len(a.value) : b[k] = c[k],
           AttrIsAt(c, p, a, is2bLen)
    PROVE  AttrIsAt(b, p, a, is2bLen)
<1> DEFINE n == Len(a.value)
           h == HeadOf(a, is2bLen)
<1>1. n \in Nat /\ h \in {2, 3}
  BY HeadIs DEF Attr
<1>2. /\ c[p + 1] = a.tag /\ (h = 2 => c[p + 2] = n) /\ (h = 3 => Num(c, p + 2) = n)
      /\ \A k \in 1 .. n : c[p + h + k] = a.value[k]
  BY DEF AttrIsAt
<1> HIDE DEF n, h
<1>3. \A k \in 1 .. p + h + n : b[k] = c[k]
  BY DEF n, h
<1>4. /\ b[p + 1] = c[p + 1] /\ b[p + 2] = c[p + 2] /\ (h = 3 => b[p + 3] = c[p + 3])
      /\ \A k \in 1 .. n : b[p + h + k] = c[p + h + k]
  BY <1>1, <1>3
<1>5. h = 3 => Num(b, p + 2) = Num(c, p + 2)
  BY <1>4 DEF Num
<1> QED BY <1>2, <1>4, <1>5 DEF AttrIsAt, n, h

\* One attribute lies after the encoding of those before it, which it leaves as it is.
LEMMA EndsAt ==
    ASSUME NEW attrs \in Seq(Attr), NEW is2bLen, Fits(attrs, is2bLen), NEW i \in 1 .. Len(attrs)
    PROVE  /\ Ends(attrs, is2bLen, i - 1) \in Nat
           /\ Ends(attrs, is2bLen, i) =
                  Ends(attrs, is2bLen, i - 1) + HeadOf(attrs[i], is2bLen) + Len(attrs[i].value)
           /\ \A k \in 1 .. Ends(attrs, is2bLen, i - 1) :
                  Encodings(attrs, is2bLen)[i][k] = Encodings(attrs, is2bLen)[i - 1][k]
           /\ AttrIsAt(Encodings(attrs, is2bLen)[i], Ends(attrs, is2bLen, i - 1), attrs[i], is2bLen)
<1> DEFINE a == attrs[i]
           f == Encodings(attrs, is2bLen)
           before == f[i - 1]
           after == f[i]
           e == EncodeAttr(a, is2bLen)
           p == Len(before)
           h == HeadOf(a, is2bLen)
           n == Len(a.value)
<1>1. a \in Attr /\ LengthFits(a, is2bLen) /\ i - 1 \in 0 .. Len(attrs)
  BY DEF Fits
<1>2. /\ e \in Seq(Byte) /\ Len(e) = h + n /\ e[1] = a.tag
      /\ h = 2 => e[2] = n
      /\ h = 3 => Num(e, 2) = n
      /\ \A k \in 1 .. n : e[h + k] = a.value[k]
  BY <1>1, EncodeAttrType
<1>3. h \in {2, 3} /\ n \in Nat
  BY <1>1, HeadIs DEF Attr
<1>4. after = before \o e /\ before \in Seq(Byte)
  BY <1>1, EncodingStep, EncodingType
<1> HIDE DEF a, f, before, after, e, h, n
<1>5. /\ Len(after) = p + Len(e) /\ p \in Nat
      /\ \A k \in 1 .. p + Len(e) : after[k] = IF k <= p THEN before[k] ELSE e[k - p]
  <2>1. /\ Len(before \o e) = Len(before) + Len(e)
        /\ \A k \in 1 .. Len(before) + Len(e) :
              (before \o e)[k] = IF k <= Len(before) THEN before[k] ELSE e[k - Len(before)]
    BY <1>2, <1>4, ConcatProperties
  <2>2. Len(before) \in Nat
    BY <1>4
  <2> QED BY <1>4, <2>1, <2>2
<1> HIDE DEF p
<1>6. \A k \in 1 .. Len(e) : after[p + k] = e[k]
  BY <1>2, <1>3, <1>5
<1>7. /\ after[p + 1] = a.tag
      /\ h = 2 => after[p + 2] = n
      /\ h = 3 => Num(after, p + 2) = n
      /\ \A k \in 1 .. n : after[p + h + k] = a.value[k]
  <2>1. after[p + 1] = e[1] /\ after[p + 2] = e[2] /\ (h = 3 => after[p + 3] = e[3])
    BY <1>2, <1>3, <1>6
  <2>2. h = 3 => Num(after, p + 2) = Num(e, 2)
    BY <1>5, <2>1 DEF Num
  <2>3. ASSUME NEW k \in 1 .. n PROVE after[p + h + k] = a.value[k]
    <3>1. h + k \in 1 .. Len(e) /\ p + (h + k) = p + h + k
      BY <1>2, <1>3, <1>5
    <3> QED BY <1>2, <1>6, <3>1
  <2> QED BY <1>2, <2>1, <2>2, <2>3
<1>8. AttrIsAt(after, p, a, is2bLen)
  BY <1>7 DEF AttrIsAt, h, n
<1>9. Len(after) = p + h + n /\ \A k \in 1 .. p : after[k] = before[k]
  BY <1>2, <1>3, <1>5
<1> QED BY <1>5, <1>8, <1>9 DEF Ends, p, before, after, f, h, n, a

\* The encoding of the first attributes is how the whole begins.
LEMMA EncodingBegins ==
    ASSUME NEW attrs \in Seq(Attr), NEW is2bLen, Fits(attrs, is2bLen)
    PROVE  \A i \in 0 .. Len(attrs) :
               /\ Ends(attrs, is2bLen, i) \in Nat
               /\ Ends(attrs, is2bLen, i) <= Len(EncodeAttrs(attrs, is2bLen))
               /\ \A k \in 1 .. Ends(attrs, is2bLen, i) :
                      EncodeAttrs(attrs, is2bLen)[k] = Encodings(attrs, is2bLen)[i][k]
<1> DEFINE n == Len(attrs)
           f == Encodings(attrs, is2bLen)
           whole == EncodeAttrs(attrs, is2bLen)
           P(i) == Ends(attrs, is2bLen, i)
           Good(i) == P(i) \in Nat /\ P(i) <= Len(whole) /\ \A k \in 1 .. P(i) : whole[k] = f[i][k]
           T == {i \in 0 .. n : Good(i)}
<1>1. n \in Nat
  OBVIOUS
<1>2. Good(n)
  <2>1. whole = f[n] /\ P(n) = Len(whole) /\ whole \in Seq(Byte)
    BY EncodingType DEF EncodeAttrs, Ends
  <2> HIDE DEF whole, f, P
  <2>2. Len(whole) \in Nat
    BY <2>1
  <2> QED BY <2>1, <2>2
<1>3. ASSUME NEW i \in 1 .. n
      PROVE  /\ P(i - 1) \in Nat /\ P(i) = P(i - 1) + HeadOf(attrs[i], is2bLen) + Len(attrs[i].value)
             /\ \A k \in 1 .. P(i - 1) : f[i][k] = f[i - 1][k]
             /\ HeadOf(attrs[i], is2bLen) \in Nat /\ Len(attrs[i].value) \in Nat
  <2>1. attrs[i] \in Attr
    OBVIOUS
  <2>2. HeadOf(attrs[i], is2bLen) \in Nat /\ Len(attrs[i].value) \in Nat
    BY <2>1, HeadIs DEF Attr
  <2> QED BY <2>2, EndsAt
<1> HIDE DEF n, f, whole, P
<1>4. ASSUME NEW i \in 0 .. n - 1, i + 1 \in T PROVE i \in T
  <2>1. PICK j \in 1 .. n : j = i + 1 /\ i = j - 1
    BY <1>1
  <2>2. Good(j)
    BY <1>4, <2>1
  <2> DEFINE q == P(j - 1)
             h == HeadOf(attrs[j], is2bLen)
             v == Len(attrs[j].value)
  <2>3. q \in Nat /\ P(j) = q + h + v /\ h \in Nat /\ v \in Nat /\ \A k \in 1 .. q : f[j][k] = f[j - 1][k]
    BY <1>3
  <2>4. P(j) \in Nat /\ P(j) <= Len(whole) /\ \A k \in 1 .. P(j) : whole[k] = f[j][k]
    BY <2>2
  <2>5. q <= P(j)
    <3> HIDE DEF q, h, v
    <3> QED BY <2>3
  <2>6. Good(j - 1)
    <3>1. whole \in Seq(Byte) /\ Len(whole) \in Nat
      BY EncodingType DEF whole
    <3> HIDE DEF q, h, v
    <3>2. q <= Len(whole) /\ \A k \in 1 .. q : whole[k] = f[j - 1][k]
      BY <2>3, <2>4, <2>5, <3>1
    <3> QED BY <2>3, <3>2 DEF q
  <2> QED BY <1>1, <2>1, <2>6
<1>5. \A i \in 0 .. n : i \in T
  <2>1. n \in T
    BY <1>1, <1>2
  <2> HIDE DEF T
  <2>2. 0 .. n \subseteq T
    BY <1>1, <1>4, <2>1, Descend
  <2> QED BY <2>2
<1> QED BY <1>5 DEF n, f, whole, P

\* So every attribute is where the ones before it end.
LEMMA Laid ==
    ASSUME NEW attrs \in Seq(Attr), NEW is2bLen, Fits(attrs, is2bLen), NEW i \in 1 .. Len(attrs)
    PROVE  AttrIsAt(EncodeAttrs(attrs, is2bLen), Ends(attrs, is2bLen, i - 1), attrs[i], is2bLen)
<1> DEFINE whole == EncodeAttrs(attrs, is2bLen)
           part == Encodings(attrs, is2bLen)[i]
           p == Ends(attrs, is2bLen, i - 1)
           q == Ends(attrs, is2bLen, i)
           a == attrs[i]
<1>1. a \in Attr /\ i \in 0 .. Len(attrs)
  OBVIOUS
<1>2. p \in Nat /\ q = p + HeadOf(a, is2bLen) + Len(a.value) /\ AttrIsAt(part, p, a, is2bLen)
  BY EndsAt
<1>3. \A k \in 1 .. q : whole[k] = part[k]
  BY <1>1, EncodingBegins
<1> HIDE DEF whole, part, p, q, a
<1>4. \A k \in 1 .. p + HeadOf(a, is2bLen) + Len(a.value) : whole[k] = part[k]
  BY <1>2, <1>3
<1>5. AttrIsAt(whole, p, a, is2bLen)
  BY <1>1, <1>2, <1>4, AttrStays
<1> QED BY <1>5 DEF whole, p, a

-----------------------------------------------------------------------------
(***************************************************************************)
(* What the readers of attributes return.  Each reads, from every offset,  *)
(* something that ends the list, or one attribute and then what is read    *)
(* from a later offset.                                                    *)
(***************************************************************************)
ChainBody(n, stop, base, head, next, f, k) ==
    [i \in k .. n |-> IF i \in stop THEN base[i] ELSE <<head[i]>> \o f[next[i]]]

\* Such a reader exists, as every step is to a later offset.
LEMMA ChainDefined ==
    ASSUME NEW n \in Nat \ {0}, NEW stop, NEW base, NEW head, NEW next, n \in stop,
           \A i \in 1 .. n : i \notin stop => next[i] \in i + 1 .. n
    PROVE  \E f : f = ChainBody(n, stop, base, head, next, f, 1)
<1> DEFINE Body(f, k) == ChainBody(n, stop, base, head, next, f, k)
           T == {k \in 0 .. n - 1 : \E f : f = Body(f, k + 1)}
<1>1. n - 1 \in T
  <2> DEFINE f == [i \in n .. n |-> base[i]]
  <2>1. f = Body(f, n)
    BY DEF ChainBody
  <2> HIDE DEF f
  <2> QED BY <2>1
<1>2. ASSUME NEW k \in 0 .. n - 2, k + 1 \in T PROVE k \in T
  <2> DEFINE j == k + 1
  <2>1. j \in 1 .. n - 1 /\ k = j - 1 /\ k \in 0 .. n - 1
    OBVIOUS
  <2>2. PICK f : f = Body(f, j + 1)
    BY <1>2
  <2> DEFINE g == [i \in j .. n |-> IF i = j THEN IF j \in stop THEN base[j] ELSE <<head[j]>> \o f[next[j]]
                                    ELSE f[i]]
  <2> HIDE DEF j
  <2>3. ASSUME NEW i \in j .. n
        PROVE  g[i] = IF i \in stop THEN base[i] ELSE <<head[i]>> \o g[next[i]]
    <3>1. i \in 1 .. n
      BY <2>1
    <3>2. i \notin stop => next[i] \in j + 1 .. n
      BY <2>1, <3>1
    <3>3. i \notin stop => g[next[i]] = f[next[i]]
      BY <2>1, <3>2
    <3>4. CASE i = j
      <4>1. g[i] = IF i \in stop THEN base[i] ELSE <<head[i]>> \o f[next[i]]
        BY <3>4
      <4> HIDE DEF g
      <4> QED BY <3>3, <4>1
    <3>5. CASE i # j
      <4>1. i \in j + 1 .. n /\ g[i] = f[i]
        BY <2>1, <3>5
      <4>2. f[i] = IF i \in stop THEN base[i] ELSE <<head[i]>> \o f[next[i]]
        BY <2>2, <4>1 DEF ChainBody
      <4> HIDE DEF g
      <4> QED BY <3>3, <4>1, <4>2
    <3> QED BY <3>4, <3>5
  <2>4. g = Body(g, j)
    BY <2>3 DEF ChainBody
  <2> HIDE DEF g
  <2>5. \E h : h = Body(h, j)
    BY <2>4
  <2> QED BY <2>1, <2>5 DEF j
<1>3. 0 \in T
  <2> DEFINE m == n - 1
  <2>1. m \in Nat /\ m \in T /\ \A i \in 0 .. m - 1 : i + 1 \in T => i \in T
    BY <1>1, <1>2
  <2> HIDE DEF T, m
  <2>2. 0 .. m \subseteq T
    BY <2>1, Descend
  <2> QED BY <2>1, <2>2
<1> QED BY <1>3

\* The next attribute starts behind this one and no later than past the end.
LEMMA AfterType ==
    ASSUME NEW b \in Seq(Byte), NEW is2bLen, NEW off \in 1 .. Len(b), off + HeadLen(b, off, is2bLen) <= Len(b) + 1
    PROVE  /\ HeadLen(b, off, is2bLen) \in {2, 3} /\ ValueLen(b, off, is2bLen) \in Nat
           /\ After(b, off, is2bLen) \in off + 1 .. Len(b) + 1
<1> DEFINE h == HeadLen(b, off, is2bLen)
           v == ValueLen(b, off, is2bLen)
<1>1. h \in {2, 3}
  BY DEF HeadLen
<1>2. v = IF h = 3 THEN 256 * b[off + 1] + b[off + 2] ELSE b[off + 1]
  BY DEF ValueLen, Num
<1>3. Len(b) \in Nat
  OBVIOUS
<1> HIDE DEF h, v
<1>4. off + h <= Len(b) + 1
  BY DEF h
<1>5. b[off + 1] \in Byte /\ (h = 3 => b[off + 2] \in Byte)
  <2>1. off + 1 \in 1 .. Len(b) /\ (h = 3 => off + 2 \in 1 .. Len(b))
    BY <1>1, <1>3, <1>4
  <2> QED BY <2>1
<1>6. v \in Nat
  <2>1. \A x, y \in Byte : 256 * x + y \in Nat /\ x \in Nat
    BY DEF Byte
  <2>2. CASE h = 3
    BY <1>2, <1>5, <2>1, <2>2
  <2>3. CASE h # 3
    BY <1>2, <1>5, <2>1, <2>3
  <2> QED BY <2>2, <2>3
<1>7. After(b, off, is2bLen) = IF off + h + v <= Len(b) THEN off + h + v ELSE Len(b) + 1
  BY DEF After, h, v
<1>8. After(b, off, is2bLen) \in off + 1 .. Len(b) + 1
  BY <1>1, <1>3, <1>6, <1>7
<1> QED BY <1>1, <1>6, <1>8 DEF h, v

ReadStep(b, is2bLen, off, f) ==
    IF off > Len(b) THEN <<>>
    ELSE IF off + HeadLen(b, off, is2bLen) > Len(b) + 1 THEN <<>>
    ELSE IF b[off] = EndMarker /\ b[off + 1] = 0 THEN <<[tag |-> EndMarker, value |-> <<>>]>>
    ELSE <<AttrAt(b, off, is2bLen)>> \o f[After(b, off, is2bLen)]

\* The recursive function Readings exists.
LEMMA ReadingsDefined ==
    ASSUME NEW b \in Seq(Byte), NEW is2bLen
    PROVE  Readings(b, is2bLen) = [off \in 1 .. Len(b) + 1 |-> ReadStep(b, is2bLen, off, Readings(b, is2bLen))]
<1> DEFINE n == Len(b) + 1
           Short(off) == off > Len(b) \/ off + HeadLen(b, off, is2bLen) > Len(b) + 1
           Ending(off) == b[off] = EndMarker /\ b[off + 1] = 0
           stop == {off \in 1 .. n : Short(off) \/ Ending(off)}
           base == [off \in 1 .. n |-> IF Short(off) THEN <<>> ELSE <<[tag |-> EndMarker, value |-> <<>>]>>]
           head == [off \in 1 .. n |-> AttrAt(b, off, is2bLen)]
           next == [off \in 1 .. n |-> After(b, off, is2bLen)]
<1>1. Len(b) \in Nat /\ n \in Nat \ {0} /\ n \in stop
  OBVIOUS
<1>2. ASSUME NEW off \in 1 .. n, off \notin stop PROVE next[off] \in off + 1 .. n
  <2>1. ~Short(off)
    BY <1>2
  <2>2. off \in 1 .. Len(b) /\ off + HeadLen(b, off, is2bLen) <= Len(b) + 1
    <3>1. HeadLen(b, off, is2bLen) \in {2, 3}
      BY DEF HeadLen
    <3> QED BY <1>1, <2>1, <3>1
  <2>3. After(b, off, is2bLen) \in off + 1 .. Len(b) + 1
    BY <2>2, AfterType
  <2> QED BY <2>3
<1>3. PICK f : f = ChainBody(n, stop, base, head, next, f, 1)
  <2> HIDE DEF n, stop, base, head, next
  <2> QED BY <1>1, <1>2, ChainDefined
<1>4. ASSUME NEW off \in 1 .. n PROVE f[off] = ReadStep(b, is2bLen, off, f)
  <2>1. f[off] = IF off \in stop THEN base[off] ELSE <<head[off]>> \o f[next[off]]
    <3> HIDE DEF n, stop, base, head, next
    <3> QED BY <1>3 DEF ChainBody
  <2>2. head[off] = AttrAt(b, off, is2bLen) /\ next[off] = After(b, off, is2bLen)
    OBVIOUS
  <2>3. base[off] = IF Short(off) THEN <<>> ELSE <<[tag |-> EndMarker, value |-> <<>>]>>
    OBVIOUS
  <2>4. off \in stop <=> Short(off) \/ Ending(off)
    OBVIOUS
  <2> HIDE DEF n, stop, base, head, next
  <2>5. CASE Short(off)
    BY <2>1, <2>3, <2>4, <2>5 DEF ReadStep
  <2>6. CASE ~Short(off) /\ Ending(off)
    BY <2>1, <2>3, <2>4, <2>6 DEF ReadStep
  <2>7. CASE ~Short(off) /\ ~Ending(off)
    BY <2>1, <2>2, <2>4, <2>7 DEF ReadStep
  <2> QED BY <2>5, <2>6, <2>7
<1>5. f = [off \in 1 .. Len(b) + 1 |-> ReadStep(b, is2bLen, off, f)]
  <2>1. f = [i \in 1 .. n |-> f[i]]
    <3> HIDE DEF n, stop, base, head, next
    <3> QED BY <1>3 DEF ChainBody
  <2> HIDE DEF stop, base, head, next
  <2> QED BY <1>4, <2>1
<1> QED BY <1>5 DEF Readings, ReadStep

\* What is read at one offset.
LEMMA ReadingAt ==
    ASSUME NEW b \in Seq(Byte), NEW is2bLen, NEW off \in 1 .. Len(b) + 1
    PROVE  Readings(b, is2bLen)[off] = ReadStep(b, is2bLen, off, Readings(b, is2bLen))
<1> DEFINE f == Readings(b, is2bLen)
<1>1. f = [i \in 1 .. Len(b) + 1 |-> ReadStep(b, is2bLen, i, f)]
  BY ReadingsDefined
<1> HIDE DEF f
<1>2. f[off] = ReadStep(b, is2bLen, off, f)
  BY <1>1
<1> QED BY <1>2 DEF f

SubStep(b, off, f) ==
    IF off + 1 > Len(b) THEN <<>>
    ELSE IF off + 1 + b[off + 1] > Len(b) THEN <<>>
    ELSE <<AttrAt(b, off, FALSE)>> \o f[After(b, off, FALSE)]

LEMMA NarrowHeads == \A b, off : HeadLen(b, off, FALSE) = 2 /\ ValueLen(b, off, FALSE) = b[off + 1]
  BY DEF HeadLen, ValueLen, Wide

\* The recursive function SubReadings exists.
LEMMA SubReadingsDefined ==
    ASSUME NEW b \in Seq(Byte)
    PROVE  SubReadings(b) = [off \in 1 .. Len(b) + 1 |-> SubStep(b, off, SubReadings(b))]
<1> DEFINE n == Len(b) + 1
           Short(off) == off + 1 > Len(b)
           Beyond(off) == off + 1 + b[off + 1] > Len(b)
           stop == {off \in 1 .. n : Short(off) \/ Beyond(off)}
           base == [off \in 1 .. n |-> <<>>]
           head == [off \in 1 .. n |-> AttrAt(b, off, FALSE)]
           next == [off \in 1 .. n |-> After(b, off, FALSE)]
<1>1. Len(b) \in Nat /\ n \in Nat \ {0} /\ n \in stop
  OBVIOUS
<1>2. ASSUME NEW off \in 1 .. n, off \notin stop PROVE next[off] \in off + 1 .. n
  <2>1. ~Short(off)
    BY <1>2
  <2>2. off \in 1 .. Len(b) /\ off + HeadLen(b, off, FALSE) <= Len(b) + 1
    <3> DEFINE h == HeadLen(b, off, FALSE)
    <3>1. h = 2
      BY NarrowHeads, Zenon
    <3> HIDE DEF h
    <3>2. off \in 1 .. Len(b) /\ off + h <= Len(b) + 1
      BY <1>1, <2>1, <3>1
    <3> QED BY <3>2 DEF h
  <2>3. After(b, off, FALSE) \in off + 1 .. Len(b) + 1
    BY <2>2, AfterType
  <2> QED BY <2>3
<1>3. PICK f : f = ChainBody(n, stop, base, head, next, f, 1)
  <2> HIDE DEF n, stop, base, head, next
  <2> QED BY <1>1, <1>2, ChainDefined
<1>4. ASSUME NEW off \in 1 .. n PROVE f[off] = SubStep(b, off, f)
  <2>1. f[off] = IF off \in stop THEN base[off] ELSE <<head[off]>> \o f[next[off]]
    <3> HIDE DEF n, stop, base, head, next
    <3> QED BY <1>3 DEF ChainBody
  <2>2. head[off] = AttrAt(b, off, FALSE) /\ next[off] = After(b, off, FALSE) /\ base[off] = <<>>
    OBVIOUS
  <2>3. off \in stop <=> Short(off) \/ Beyond(off)
    OBVIOUS
  <2> HIDE DEF n, stop, base, head, next
  <2>4. CASE Short(off)
    BY <2>1, <2>2, <2>3, <2>4 DEF SubStep
  <2>5. CASE ~Short(off) /\ Beyond(off)
    BY <2>1, <2>2, <2>3, <2>5 DEF SubStep
  <2>6. CASE ~Short(off) /\ ~Beyond(off)
    BY <2>1, <2>2, <2>3, <2>6 DEF SubStep
  <2> QED BY <2>4, <2>5, <2>6
<1>5. f = [off \in 1 .. Len(b) + 1 |-> SubStep(b, off, f)]
  <2>1. f = [i \in 1 .. n |-> f[i]]
    <3> HIDE DEF n, stop, base, head, next
    <3> QED BY <1>3 DEF ChainBody
  <2> HIDE DEF stop, base, head, next
  <2> QED BY <1>4, <2>1
<1> QED BY <1>5 DEF SubReadings, SubStep

\* What the set-up response's reader reads at one offset.
LEMMA SubReadingAt ==
    ASSUME NEW b \in Seq(Byte), NEW off \in 1 .. Len(b) + 1
    PROVE  SubReadings(b)[off] = SubStep(b, off, SubReadings(b))
<1> DEFINE f == SubReadings(b)
<1>1. f = [i \in 1 .. Len(b) + 1 |-> SubStep(b, i, f)]
  BY SubReadingsDefined
<1> HIDE DEF f
<1>2. f[off] = SubStep(b, off, f)
  BY <1>1
<1> QED BY <1>2 DEF f

-----------------------------------------------------------------------------
\* A part of a sequence of bytes.
LEMMA Slice ==
    ASSUME NEW b \in Seq(Byte), NEW l \in Nat \ {0}, NEW r \in Nat, r <= Len(b), l <= r + 1
    PROVE  /\ SubSeq(b, l, r) \in Seq(Byte) /\ Len(SubSeq(b, l, r)) = r - l + 1
           /\ \A i \in 1 .. r - l + 1 : SubSeq(b, l, r)[i] = b[l + i - 1]
<1>1. \A i \in l .. r : b[i] \in Byte
  OBVIOUS
<1>2. /\ SubSeq(b, l, r) \in Seq(Byte)
      /\ Len(SubSeq(b, l, r)) = IF l <= r THEN r - l + 1 ELSE 0
      /\ \A i \in 1 .. r - l + 1 : SubSeq(b, l, r)[i] = b[l + i - 1]
  BY <1>1, SubSeqProperties
<1>3. l <= r \/ r - l + 1 = 0
  OBVIOUS
<1> QED BY <1>2, <1>3

\* One attribute read: whole, or cut short.
IsEnd(a) == a.tag = EndMarker /\ a.value = <<>>

\* An attribute that is all there is found with its lengths and its value.
LEMMA WholeAt ==
    ASSUME NEW b \in Seq(Byte), NEW a \in Attr, NEW is2bLen, NEW p \in Nat,
           AttrIsAt(b, p, a, is2bLen), p + HeadOf(a, is2bLen) + Len(a.value) <= Len(b)
    PROVE  /\ HeadLen(b, p + 1, is2bLen) = HeadOf(a, is2bLen)
           /\ ValueLen(b, p + 1, is2bLen) = Len(a.value)
           /\ After(b, p + 1, is2bLen) = p + HeadOf(a, is2bLen) + Len(a.value) + 1
           /\ AttrAt(b, p + 1, is2bLen) = a
           /\ IsEnd(a) <=> (b[p + 1] = EndMarker /\ b[p + 1 + 1] = 0)
<1> DEFINE n == Len(a.value)
           h == HeadOf(a, is2bLen)
           off == p + 1
<1>1. n \in Nat /\ h \in {2, 3} /\ Len(b) \in Nat /\ p + h + n <= Len(b) /\ a.value \in Seq(Byte) /\ a.tag \in Byte
  BY HeadIs DEF Attr
<1>2. /\ b[p + 1] = a.tag /\ (h = 2 => b[p + 2] = n) /\ (h = 3 => Num(b, p + 2) = n)
      /\ \A k \in 1 .. n : b[p + h + k] = a.value[k]
  BY DEF AttrIsAt
<1>3. HeadLen(b, off, is2bLen) = h
  BY <1>2 DEF HeadLen, HeadOf
<1>4. ValueLen(b, off, is2bLen) = n
  <2>1. off + 1 = p + 2
    OBVIOUS
  <2> HIDE DEF off, n, h
  <2> QED BY <1>1, <1>2, <1>3, <2>1 DEF ValueLen
<1>5. After(b, off, is2bLen) = p + h + n + 1
  <2>1. After(b, off, is2bLen) = IF off + h + n <= Len(b) THEN off + h + n ELSE Len(b) + 1
    BY <1>3, <1>4 DEF After
  <2> HIDE DEF n, h
  <2> QED BY <1>1, <2>1
<1>6. AttrAt(b, off, is2bLen) = a
  <2> DEFINE l == off + h
             r == p + h + n
             s == SubSeq(b, l, r)
  <2>1. l \in Nat \ {0} /\ r \in Nat /\ l <= r + 1 /\ r - l + 1 = n /\ r <= Len(b)
    <3> HIDE DEF n, h
    <3> QED BY <1>1
  <2>2. After(b, off, is2bLen) - 1 = r
    <3> HIDE DEF n, h
    <3> QED BY <1>1, <1>5
  <2>3. AttrAt(b, off, is2bLen) = [tag |-> b[off], value |-> s]
    BY <1>3, <2>2 DEF AttrAt
  <2>4. \A i \in 1 .. n : b[l + i - 1] = a.value[i]
    <3> HIDE DEF n, h
    <3>1. \A i \in 1 .. n : l + i - 1 = p + h + i
      BY <1>1
    <3> QED BY <1>2, <3>1
  <2> HIDE DEF l, r
  <2>5. s \in Seq(Byte) /\ Len(s) = n /\ \A i \in 1 .. n : s[i] = b[l + i - 1]
    BY <2>1, Slice
  <2> HIDE DEF s
  <2>6. s = a.value
    <3>1. a.value \in Seq(Byte) /\ Len(a.value) = n
      BY <1>1
    <3> HIDE DEF n
    <3> QED BY <2>4, <2>5, <3>1, SeqEqual
  <2> QED BY <1>2, <2>3, <2>6 DEF Attr
<1>7. IsEnd(a) <=> (b[off] = EndMarker /\ b[off + 1] = 0)
  <2>1. b[off] = a.tag /\ off + 1 = p + 2
    BY <1>2
  <2>2. a.value = <<>> <=> n = 0
    BY <1>1
  <2>3. a.tag = EndMarker => h = 2
    BY DEF HeadOf, Wide, EndMarker, LargeData
  <2> HIDE DEF n, h, off
  <2> QED BY <1>2, <2>1, <2>2, <2>3 DEF IsEnd
<1> QED BY <1>3, <1>4, <1>5, <1>6, <1>7

\* So it is read, and unless it ends the list the rest after it.
LEMMA ReadWhole ==
    ASSUME NEW b \in Seq(Byte), NEW a \in Attr, NEW is2bLen, NEW p \in Nat,
           AttrIsAt(b, p, a, is2bLen), p + HeadOf(a, is2bLen) + Len(a.value) <= Len(b)
    PROVE  /\ IsEnd(a) => Readings(b, is2bLen)[p + 1] = <<a>>
           /\ ~IsEnd(a) =>
                 Readings(b, is2bLen)[p + 1] =
                     <<a>> \o Readings(b, is2bLen)[p + HeadOf(a, is2bLen) + Len(a.value) + 1]
<1> DEFINE n == Len(a.value)
           h == HeadOf(a, is2bLen)
           f == Readings(b, is2bLen)
           off == p + 1
<1>1. n \in Nat /\ h \in {2, 3} /\ Len(b) \in Nat /\ p + h + n <= Len(b)
  BY HeadIs DEF Attr
<1>2. /\ HeadLen(b, off, is2bLen) = h /\ After(b, off, is2bLen) = p + h + n + 1
      /\ AttrAt(b, off, is2bLen) = a
      /\ IsEnd(a) <=> (b[off] = EndMarker /\ b[off + 1] = 0)
  BY WholeAt
<1>3. off \in 1 .. Len(b) + 1 /\ ~(off > Len(b)) /\ ~(off + h > Len(b) + 1)
  <2> HIDE DEF n, h
  <2> QED BY <1>1
<1>4. f[off] = ReadStep(b, is2bLen, off, f)
  <2> HIDE DEF off
  <2> QED BY <1>3, ReadingAt
<1>5. IsEnd(a) => a = [tag |-> EndMarker, value |-> <<>>]
  BY DEF IsEnd, Attr
<1> HIDE DEF n, h, f
<1>6. f[off] = IF IsEnd(a) THEN <<a>> ELSE <<a>> \o f[p + h + n + 1]
  BY <1>2, <1>3, <1>4, <1>5 DEF ReadStep
<1> QED BY <1>6 DEF n, h, f

\* At the end nothing is read.
LEMMA ReadNothing ==
    ASSUME NEW b \in Seq(Byte), NEW is2bLen
    PROVE  Readings(b, is2bLen)[Len(b) + 1] = <<>> /\ SubReadings(b)[Len(b) + 1] = <<>>
<1> DEFINE off == Len(b) + 1
<1>1. off \in 1 .. Len(b) + 1 /\ off > Len(b) /\ off + 1 > Len(b)
  OBVIOUS
<1> HIDE DEF off
<1>2. Readings(b, is2bLen)[off] = ReadStep(b, is2bLen, off, Readings(b, is2bLen)) /\ SubReadings(b)[off] = SubStep(b, off, SubReadings(b))
  BY <1>1, ReadingAt, SubReadingAt
<1>3. Readings(b, is2bLen)[off] = <<>> /\ SubReadings(b)[off] = <<>>
  BY <1>1, <1>2 DEF ReadStep, SubStep
<1> QED BY <1>3 DEF off

-----------------------------------------------------------------------------
(***************************************************************************)
(* All that is written is read.                                            *)
(***************************************************************************)
LEMMA OneMore ==
    ASSUME NEW attrs \in Seq(Attr), NEW c \in 1 .. Len(attrs), NEW j \in c .. Len(attrs)
    PROVE  /\ SubSeq(attrs, c, c) = <<attrs[c]>>
           /\ <<attrs[c]>> \o SubSeq(attrs, c + 1, j) = SubSeq(attrs, c, j)
<1>1. SubSeq(attrs, c, c) = <<attrs[c]>>
  <2> DEFINE s == SubSeq(attrs, c, c)
             t == <<attrs[c]>>
  <2>1. attrs[c] \in Attr /\ \A i \in c .. c : attrs[i] \in Attr
    OBVIOUS
  <2>2. /\ s \in Seq(Attr) /\ Len(s) = IF c <= c THEN c - c + 1 ELSE 0
        /\ \A i \in 1 .. c - c + 1 : s[i] = attrs[c + i - 1]
    BY <2>1, SubSeqProperties
  <2>3. t \in Seq(Attr) /\ Len(t) = 1 /\ t[1] = attrs[c]
    BY <2>1
  <2> HIDE DEF s, t
  <2>4. Len(s) = 1 /\ s[1] = attrs[c]
    <3>1. c \in Nat /\ c - c + 1 = 1 /\ c + 1 - 1 = c /\ 1 \in 1 .. c - c + 1
      OBVIOUS
    <3>2. Len(s) = 1
      BY <2>2, <3>1
    <3>3. s[1] = attrs[c + 1 - 1]
      BY <2>2, <3>1
    <3> QED BY <3>1, <3>2, <3>3
  <2>5. \A i \in 1 .. Len(s) : s[i] = t[i]
    BY <2>3, <2>4
  <2>6. s = t
    BY <2>2, <2>3, <2>4, <2>5, SeqEqual
  <2> QED BY <2>6 DEF s, t
<1>2. SubSeq(attrs, c, c) \o SubSeq(attrs, c + 1, j) = SubSeq(attrs, c, j)
  <2>1. c \in 1 .. Len(attrs) + 1 /\ c \in c - 1 .. Len(attrs) /\ j \in c .. Len(attrs)
    OBVIOUS
  <2> QED BY <2>1, ConcatAdjacentSubSeq
<1> QED BY <1>1, <1>2

\* What a reader returns from where the first i attributes end: the others, up to an end
\* marker.
ReadUpTo(attrs, i, r) ==
    \E j \in i .. Len(attrs) :
        /\ r = SubSeq(attrs, i + 1, j)
        /\ \A k \in i + 1 .. j - 1 : ~IsEnd(attrs[k])
        /\ j = Len(attrs) \/ (j > i /\ IsEnd(attrs[j]))

\* One attribute more in front of what is read after it.
LEMMA ReadUpToNext ==
    ASSUME NEW attrs \in Seq(Attr), NEW c \in 1 .. Len(attrs), NEW rest, ReadUpTo(attrs, c, rest), NEW r,
           IsEnd(attrs[c]) => r = <<attrs[c]>>, ~IsEnd(attrs[c]) => r = <<attrs[c]>> \o rest
    PROVE  ReadUpTo(attrs, c - 1, r)
<1> DEFINE n == Len(attrs)
<1>1. n \in Nat /\ c - 1 + 1 = c
  OBVIOUS
<1>2. CASE IsEnd(attrs[c])
  <2>1. r = SubSeq(attrs, c, c)
    BY <1>2, OneMore
  <2>2. c \in c - 1 .. n /\ (\A k \in c .. c - 1 : ~IsEnd(attrs[k])) /\ c > c - 1
    OBVIOUS
  <2> QED BY <1>1, <1>2, <2>1, <2>2 DEF ReadUpTo
<1>3. CASE ~IsEnd(attrs[c])
  <2>1. PICK j \in c .. n : /\ rest = SubSeq(attrs, c + 1, j)
                            /\ \A k \in c + 1 .. j - 1 : ~IsEnd(attrs[k])
                            /\ j = n \/ (j > c /\ IsEnd(attrs[j]))
    BY DEF ReadUpTo
  <2>2. r = SubSeq(attrs, c, j)
    BY <1>3, <2>1, OneMore
  <2>3. j \in c - 1 .. n /\ (\A k \in c .. j - 1 : ~IsEnd(attrs[k])) /\ (j = n \/ (j > c - 1 /\ IsEnd(attrs[j])))
    BY <1>3, <2>1
  <2> QED BY <1>1, <2>2, <2>3 DEF ReadUpTo
<1> QED BY <1>2, <1>3

\* What is read from the start is the attributes up to an end marker.
LEMMA UpToEndIsThat ==
    ASSUME NEW attrs \in Seq(Attr), NEW r, ReadUpTo(attrs, 0, r)
    PROVE  r = UpToEnd(attrs)
<1> DEFINE n == Len(attrs)
           ends == {i \in 1 .. n : IsEnd(attrs[i])}
           first == CHOOSE i \in ends : \A j \in ends : i <= j
<1>1. UpToEnd(attrs) = IF ends = {} THEN attrs ELSE SubSeq(attrs, 1, first)
  BY DEF UpToEnd, IsEnd
<1>2. PICK j \in 0 .. n : /\ r = SubSeq(attrs, 1, j)
                          /\ \A k \in 1 .. j - 1 : ~IsEnd(attrs[k])
                          /\ j = n \/ (j > 0 /\ IsEnd(attrs[j]))
  BY DEF ReadUpTo
<1>3. n \in Nat
  OBVIOUS
<1>4. CASE ends = {}
  <2>1. j = n
    BY <1>2, <1>4
  <2>2. SubSeq(attrs, 1, n) = attrs
    BY SubSeqFull
  <2> QED BY <1>1, <1>2, <1>4, <2>1, <2>2
<1>5. CASE ends # {}
  <2>1. j \in ends /\ \A k \in ends : j <= k
    BY <1>2, <1>3, <1>5
  <2>2. \A i \in ends : (\A k \in ends : i <= k) => i = j
    BY <2>1, <1>3
  <2>3. first = j
    <3>1. first \in ends /\ \A k \in ends : first <= k
      <4> HIDE DEF ends
      <4> QED BY <2>1
    <3> HIDE DEF ends, first
    <3> QED BY <2>2, <3>1
  <2> HIDE DEF ends, first
  <2> QED BY <1>1, <1>2, <1>5, <2>3
<1> QED BY <1>4, <1>5

\* Decoding what was encoded yields the attributes up to an end marker: by induction from the
\* last of them to the first.
LEMMA AllIsRead ==
    ASSUME NEW attrs \in Seq(Attr), NEW is2bLen, Fits(attrs, is2bLen)
    PROVE  DecodeAttrs(EncodeAttrs(attrs, is2bLen), is2bLen) = UpToEnd(attrs)
<1> DEFINE n == Len(attrs)
           b == EncodeAttrs(attrs, is2bLen)
           f == Readings(b, is2bLen)
           P(i) == Ends(attrs, is2bLen, i)
           Good(i) == ReadUpTo(attrs, i, f[P(i) + 1])
           T == {i \in 0 .. n : Good(i)}
<1>1. n \in Nat /\ b \in Seq(Byte)
  BY EncodingType
<1>2. Good(n)
  <2>1. P(n) = Len(b)
    BY DEF EncodeAttrs, Ends
  <2>2. f[Len(b) + 1] = <<>>
    <3> HIDE DEF b
    <3> QED BY <1>1, ReadNothing
  <2>3. SubSeq(attrs, n + 1, n) = <<>>
    BY SubSeqEmpty
  <2>4. ReadUpTo(attrs, n, <<>>)
    BY <2>3 DEF ReadUpTo
  <2> HIDE DEF b, f, P, n
  <2> QED BY <2>1, <2>2, <2>4
<1>3. ASSUME NEW i \in 0 .. n - 1, i + 1 \in T PROVE i \in T
  <2>1. PICK c \in 1 .. n : c = i + 1 /\ i = c - 1
    BY <1>1
  <2> DEFINE a == attrs[c]
             p == P(c - 1)
             q == p + HeadOf(a, is2bLen) + Len(a.value)
  <2>2. a \in Attr /\ p \in Nat /\ P(c) = q
    BY EndsAt
  <2>3. q <= Len(b)
    <3>1. P(c) <= Len(b)
      BY EncodingBegins
    <3> HIDE DEF b, P, a, p, q
    <3> QED BY <2>2, <3>1
  <2>4. AttrIsAt(b, p, a, is2bLen)
    BY Laid
  <2>5. ReadUpTo(attrs, c, f[q + 1])
    <3>1. Good(c)
      BY <1>3, <2>1
    <3> HIDE DEF f, P, q
    <3> QED BY <2>2, <3>1
  <2>6. /\ IsEnd(a) => f[p + 1] = <<a>>
        /\ ~IsEnd(a) => f[p + 1] = <<a>> \o f[q + 1]
    <3> HIDE DEF b, a, P, p
    <3> QED BY <1>1, <2>2, <2>3, <2>4, ReadWhole
  <2>7. ReadUpTo(attrs, c - 1, f[p + 1])
    <3> HIDE DEF f, p, q, P
    <3> QED BY <2>5, <2>6, ReadUpToNext
  <2>8. Good(i)
    <3> HIDE DEF f, P
    <3> QED BY <2>1, <2>7
  <2> HIDE DEF Good
  <2> QED BY <1>1, <2>8
<1>4. ReadUpTo(attrs, 0, f[1])
  <2>1. n \in T
    <3> HIDE DEF Good
    <3> QED BY <1>1, <1>2
  <2>2. 0 \in T
    <3> HIDE DEF T, n
    <3>1. 0 .. n \subseteq T
      BY <1>1, <1>3, <2>1, Descend
    <3> QED BY <1>1, <3>1
  <2>3. P(0) = 0
    BY EncodingStep, EmptySeq DEF Ends
  <2>4. Good(0)
    BY <2>2
  <2> HIDE DEF f, P
  <2> QED BY <2>3, <2>4
<1> HIDE DEF b
<1> QED BY <1>4, UpToEndIsThat DEF DecodeAttrs, b

-----------------------------------------------------------------------------
(***************************************************************************)
(* A framed message is read as what its header and its body say.           *)
(***************************************************************************)
LEMMA BodyIsThere ==
    ASSUME NEW h \in Seq(Byte), NEW body \in Seq(Byte), NEW w, IsFramed(w, h, body), NEW k \in 0 .. Len(body)
    PROVE  SubSeq(w, HeaderLen + k + 1, Len(w)) = SubSeq(body, k + 1, Len(body))
<1> DEFINE n == Len(body)
           l == HeaderLen + k + 1
           r == Len(w)
           s == SubSeq(w, l, r)
           t == SubSeq(body, k + 1, n)
<1>1. w \in Seq(Byte) /\ r = HeaderLen + n /\ n \in Nat /\ HeaderLen = 12 /\ \A i \in 1 .. n : w[HeaderLen + i] = body[i]
  BY DEF IsFramed, HeaderLen
<1> HIDE DEF n, r
<1>2. k \in Nat /\ k <= n
  BY <1>1 DEF n
<1>3. l \in Nat \ {0} /\ r \in Nat /\ l <= r + 1 /\ r - l + 1 = n - k /\ k + 1 \in Nat \ {0} /\ k + 1 <= n + 1
  BY <1>1, <1>2
<1>4. s \in Seq(Byte) /\ Len(s) = n - k /\ \A i \in 1 .. n - k : s[i] = w[l + i - 1]
  <2>1. /\ s \in Seq(Byte) /\ Len(s) = r - l + 1
        /\ \A i \in 1 .. r - l + 1 : s[i] = w[l + i - 1]
    <3> HIDE DEF l
    <3> QED BY <1>1, <1>3, Slice DEF r
  <2> HIDE DEF s, l
  <2> QED BY <1>3, <2>1
<1>5. t \in Seq(Byte) /\ Len(t) = n - k /\ \A i \in 1 .. n - k : t[i] = body[k + 1 + i - 1]
  <2> DEFINE m == k + 1
  <2>1. m \in Nat \ {0} /\ m <= n + 1 /\ n - m + 1 = n - k /\ n \in Nat
    BY <1>1, <1>2, <1>3
  <2> HIDE DEF m
  <2>2. /\ SubSeq(body, m, n) \in Seq(Byte) /\ Len(SubSeq(body, m, n)) = n - m + 1
        /\ \A i \in 1 .. n - m + 1 : SubSeq(body, m, n)[i] = body[m + i - 1]
    BY <2>1, Slice DEF n
  <2> QED BY <2>1, <2>2 DEF m
<1> HIDE DEF s, t
<1>6. \A i \in 1 .. Len(s) : s[i] = t[i]
  <2> SUFFICES ASSUME NEW i \in 1 .. n - k PROVE s[i] = t[i]
    BY <1>4
  <2>1. k + i \in 1 .. n /\ l + i - 1 = HeaderLen + (k + i) /\ k + 1 + i - 1 = k + i
    BY <1>1, <1>2
  <2>2. s[i] = w[HeaderLen + (k + i)] /\ t[i] = body[k + i]
    BY <1>4, <1>5, <2>1
  <2> QED BY <1>1, <2>1, <2>2
<1>7. s = t
  BY <1>4, <1>5, <1>6, SeqEqual
<1> QED BY <1>7 DEF s, t, r, n, l

\* A stamped frame passes every check of decode_message.
LEMMA Accepted ==
    ASSUME NEW h \in Seq(Byte), Len(h) = HeaderLen, h[1] = 226, h[12] = 0, NEW body \in Seq(Byte),
           NEW w, w = Stamp(Frame(h, body)), NEW key,
           NEW k \in 0 .. Len(body), h[11] = HeaderLen + k
    PROVE  DecodeMessage(w, key) = Decrypted(HeaderOf(h), SubSeq(body, k + 1, Len(body)), key)
<1>1. IsFramed(w, h, body)
  BY Framed
<1>2. /\ w \in Seq(Byte) /\ Len(w) = HeaderLen + Len(body) /\ Len(body) \in Nat
      /\ \A i \in 1 .. 11 : w[i] = h[i]
      /\ w[12] = Crc8(Frame(h, body))
  BY <1>1 DEF IsFramed
<1>3. Crc8([w EXCEPT ![12] = 0]) = w[12]
  <2>1. [w EXCEPT ![12] = 0] = Frame(h, body)
    BY Unstamped
  <2> QED BY <1>2, <2>1
<1>4. HeaderOf(w) = HeaderOf(h)
  <2>1. w[2] = h[2] /\ Num(w, 3) = Num(h, 3) /\ Num(w, 5) = Num(h, 5) /\ Num(w, 7) = Num(h, 7) /\ Num(w, 9) = Num(h, 9)
    <3>1. /\ w[2] = h[2] /\ w[3] = h[3] /\ w[4] = h[4] /\ w[5] = h[5] /\ w[6] = h[6]
          /\ w[7] = h[7] /\ w[8] = h[8] /\ w[9] = h[9] /\ w[10] = h[10]
      BY <1>2
    <3> QED BY <3>1 DEF Num
  <2> QED BY <2>1 DEF HeaderOf
<1>5. ~(Len(w) < HeaderLen) /\ w[1] \div 16 = 14 /\ w[11] = HeaderLen + k /\ ~(w[11] > Len(w))
  BY <1>2 DEF HeaderLen
<1>6. SubSeq(w, w[11] + 1, Len(w)) = SubSeq(body, k + 1, Len(body))
  <2>1. SubSeq(w, HeaderLen + k + 1, Len(w)) = SubSeq(body, k + 1, Len(body))
    BY <1>1, BodyIsThere
  <2> QED BY <1>5, <2>1
<1>7. DecodeMessage(w, key) = Decrypted(HeaderOf(w), SubSeq(w, w[11] + 1, Len(w)), key)
  BY <1>3, <1>5 DEF DecodeMessage
<1> QED BY <1>4, <1>6, <1>7

\* The fields of a header are read as they were written.
LEMMA HeaderRead ==
    ASSUME NEW type \in Half, NEW seq \in Half \X Half, NEW reserved \in Half, NEW mask \in Masks,
           NEW headerLen \in Byte
    PROVE  HeaderOf(Header(type, seq, reserved, mask, headerLen)) =
               [type |-> type, seq |-> seq, reserved |-> reserved, mask |-> Carried(mask), attrs |-> <<>>]
<1> DEFINE h == Header(type, seq, reserved, mask, headerLen)
<1>1. /\ h[2] = MaskByte(mask) /\ Num(h, 3) = type
      /\ Num(h, 5) = seq[1] /\ Num(h, 7) = seq[2] /\ Num(h, 9) = reserved
  BY HeaderType
<1>2. MaskOf(h[2]) = Carried(mask)
  BY <1>1, MaskFits
<1> HIDE DEF h
<1>3. <<Num(h, 5), Num(h, 7)>> = seq
  BY <1>1
<1>4. HeaderOf(h) = [type |-> type, seq |-> seq, reserved |-> reserved, mask |-> Carried(mask), attrs |-> <<>>]
  BY <1>1, <1>2, <1>3 DEF HeaderOf
<1> QED BY <1>4 DEF h

\* A body is read as it was before it was encrypted, if it was.
LEMMA BodyRead ==
    ASSUME NEW m, NEW e \in Seq(Byte), NEW body,
           m.mask.encrypt => body = AesEncrypt(e, Key), ~m.mask.encrypt => body = e
    PROVE  Decrypted(m, body, Key) = DecodeBody(m, e)
<1>1. CASE ~m.mask.encrypt
  BY <1>1 DEF Decrypted
<1>2. CASE m.mask.encrypt
  <2> DEFINE dec == Cipher(body, Key, -1)
  <2>1. dec = Pad(e)
    BY <1>2, Encrypted, P2PWireAssumption
  <2>2. Padded(dec) /\ SubSeq(dec, 1, Len(dec) - Last(dec)) = e
    BY <2>1, PadComesOff
  <2>3. Decrypted(m, body, Key) = IF ~m.mask.encrypt THEN DecodeBody(m, body)
                                  ELSE IF Padded(dec) THEN DecodeBody(m, SubSeq(dec, 1, Len(dec) - Last(dec)))
                                  ELSE Error
    BY DEF Decrypted
  <2> HIDE DEF dec
  <2> QED BY <1>2, <2>2, <2>3
<1> QED BY <1>1, <1>2

-----------------------------------------------------------------------------
\* So a message is received as it was sent.
LEMMA MessageRead ==
    ASSUME NEW s \in Sent, s.is = "message", Encoded(s) # <<>>
    PROVE  DecodeMessage(Encoded(s), Key) = [ok |-> TRUE, msg |-> Received(s.of)]
<1> DEFINE m == s.of
           h == FixedPart(s)
           b == BodyOf(s)
           e == EncodeAttrs(m.attrs, m.mask.is2bLen)
           got == [type |-> m.type, seq |-> m.seq, reserved |-> m.reserved, mask |-> Carried(m.mask), attrs |-> <<>>]
<1>1. m \in Messages
  BY SentKinds
<1>2. /\ m.type \in Half /\ m.seq \in Half \X Half /\ m.reserved \in Half /\ m.mask \in Masks
      /\ m.attrs \in Seq(Attr)
  BY <1>1, MessageTypes
<1>3. /\ h \in Seq(Byte) /\ Len(h) = HeaderLen /\ h[1] = 226 /\ h[12] = 0
      /\ b \in Seq(Byte) /\ Encoded(s) = Stamp(Frame(h, b)) /\ Fits(m.attrs, m.mask.is2bLen)
  BY EncodedIsFramed
<1>4. HeaderLen \in Byte
  BY DEF HeaderLen, Byte
<1>5. h = Header(m.type, m.seq, m.reserved, m.mask, HeaderLen)
  BY DEF FixedPart
<1>6. HeaderOf(h) = got /\ h[11] = HeaderLen
  BY <1>2, <1>4, <1>5, HeaderRead, HeaderType
<1>7. e \in Seq(Byte)
  BY <1>2, <1>3, EncodingType
<1>8. (m.mask.encrypt => b = AesEncrypt(e, Key)) /\ (~m.mask.encrypt => b = e)
  BY DEF BodyOf
<1>9. got.mask.encrypt = m.mask.encrypt /\ got.mask.is2bLen = m.mask.is2bLen
  BY DEF Carried
<1> HIDE DEF h, b, e
<1>10. DecodeMessage(Encoded(s), Key) = Decrypted(HeaderOf(h), b, Key)
  <2>1. 0 \in 0 .. Len(b) /\ h[11] = HeaderLen + 0
    <3>1. Len(b) \in Nat
      BY <1>3
    <3> QED BY <1>6, <3>1 DEF HeaderLen
  <2>2. DecodeMessage(Encoded(s), Key) = Decrypted(HeaderOf(h), SubSeq(b, 0 + 1, Len(b)), Key)
    BY <1>3, <2>1, Accepted
  <2>3. SubSeq(b, 0 + 1, Len(b)) = b
    BY <1>3, SubSeqFull
  <2> QED BY <2>2, <2>3
<1>11. Decrypted(got, b, Key) = DecodeBody(got, e)
  <2> HIDE DEF got
  <2> QED BY <1>7, <1>8, <1>9, BodyRead
<1>12. DecodeAttrs(e, m.mask.is2bLen) = UpToEnd(m.attrs)
  BY <1>2, <1>3, AllIsRead DEF e
<1>13. DecodeBody(got, e) = [ok |-> TRUE, msg |-> Received(m)]
  <2>1. [got EXCEPT !.attrs = UpToEnd(m.attrs)] = Received(m)
    BY DEF Received
  <2>2. DecodeBody(got, e) = [ok |-> TRUE, msg |-> [got EXCEPT !.attrs = DecodeAttrs(e, got.mask.is2bLen)]]
    BY DEF DecodeBody
  <2> HIDE DEF got
  <2> QED BY <1>9, <1>12, <2>1, <2>2
<1> QED BY <1>6, <1>10, <1>11, <1>13

\* A message is read as it was sent: fields, flags, salts cut to their bits, and the
\* attributes up to an end marker (v3.py:248-311).
THEOREM MessagesRoundTrip == Spec => []RoundTrip
<1>1. WireInv => RoundTrip
  <2> SUFFICES ASSUME WireInv, fate = "intact", sent.is = "message", wire # <<>>
               PROVE  DecodeMessage(wire, Key) = [ok |-> TRUE, msg |-> Received(sent.of)]
    BY DEF RoundTrip
  <2>1. sent \in Sent /\ wire = Encoded(sent)
    BY DEF WireInv
  <2> QED BY <2>1, MessageRead
<1> QED BY <1>1, DatagramIsKnown, PTL

-----------------------------------------------------------------------------
(***************************************************************************)
(* The play request.                                                       *)
(***************************************************************************)
LEMMA SecondPart ==
    ASSUME NEW x \in Seq(Byte), NEW c \in Seq(Byte)
    PROVE  SubSeq(x \o c, Len(x) + 1, Len(x) + Len(c)) = c
<1>1. Len(x) \in Nat /\ Len(c) \in Nat
  OBVIOUS
<1>2. CASE Len(c) = 0
  <2>1. Len(x) + Len(c) < Len(x) + 1 /\ Len(x) + 1 \in Int /\ Len(x) + Len(c) \in Int /\ c = <<>>
    BY <1>1, <1>2
  <2> QED BY <2>1, SubSeqEmpty
<1>3. CASE Len(c) # 0
  <2> DEFINE l == Len(x) + 1
             r == Len(x) + Len(c)
  <2>1. l \in Len(x) + 1 .. Len(x) + Len(c) /\ r \in Len(x) + 1 .. Len(x) + Len(c)
        /\ l - Len(x) = 1 /\ r - Len(x) = Len(c)
    BY <1>1, <1>3
  <2> HIDE DEF l, r
  <2>2. SubSeq(x \o c, l, r) = SubSeq(c, l - Len(x), r - Len(x))
    BY <2>1, SubSeqOfConcat2
  <2>3. SubSeq(c, 1, Len(c)) = c
    BY SubSeqFull
  <2> QED BY <2>1, <2>2, <2>3 DEF l, r
<1> QED BY <1>2, <1>3

\* The length of an attribute that has a one-byte length.
LEMMA ShortLens ==
    ASSUME NEW attrs \in Seq(Attr), NEW is2bLen, NEW i \in 1 .. Len(attrs), Fits(attrs, is2bLen),
           attrs[i].tag # LargeData
    PROVE  Ends(attrs, is2bLen, i) = Ends(attrs, is2bLen, i - 1) + 2 + Len(attrs[i].value)
<1>1. HeadOf(attrs[i], is2bLen) = 2
  BY DEF HeadOf, Wide
<1> QED BY <1>1, EndsAt

\* The expand header is 16 bytes longer than the user id.
LEMMA ExpandLength ==
    ASSUME NEW uid \in Seq(Byte), Len(uid) < 256
    PROVE  Len(ExpandHeader(uid)) = 16 + Len(uid)
<1> DEFINE all == ExpandAttrs(uid)
           P(i) == Ends(all, FALSE, i)
<1>1. all \in Seq(Attr) /\ Fits(all, FALSE)
  BY ExpandFits
<1>2. /\ Len(all) = 4
      /\ all[1].tag = 0 /\ Len(all[1].value) = 2
      /\ all[2].tag = 1 /\ Len(all[2].value) = Len(uid)
      /\ all[3].tag = 2 /\ Len(all[3].value) = 4
      /\ all[4].tag = 3 /\ Len(all[4].value) = 2
  BY DEF ExpandAttrs
<1>3. Len(ExpandHeader(uid)) = P(4)
  <2>1. ExpandHeader(uid) = EncodeAttrs(all, FALSE)
    BY DEF ExpandHeader, ExpandAttrs
  <2> QED BY <1>2, <2>1 DEF EncodeAttrs, Ends
<1>4. P(0) = 0
  BY <1>1, EncodingStep, EmptySeq DEF Ends
<1> HIDE DEF all
<1>5. ASSUME NEW i \in 1 .. 4 PROVE P(i) = P(i - 1) + 2 + Len(all[i].value)
  <2>1. i \in 1 .. Len(all) /\ all[i].tag # LargeData
    BY <1>2 DEF LargeData
  <2> QED BY <1>1, <2>1, ShortLens
<1> HIDE DEF P
<1>6. Len(uid) \in Nat
  OBVIOUS
<1>7. P(1) = P(0) + 2 + 2 /\ P(2) = P(1) + 2 + Len(uid) /\ P(3) = P(2) + 2 + 4 /\ P(4) = P(3) + 2 + 2
  <2>1. /\ P(1) = P(1 - 1) + 2 + Len(all[1].value) /\ P(2) = P(2 - 1) + 2 + Len(all[2].value)
        /\ P(3) = P(3 - 1) + 2 + Len(all[3].value) /\ P(4) = P(4 - 1) + 2 + Len(all[4].value)
    BY <1>5
  <2> QED BY <1>2, <2>1
<1> QED BY <1>3, <1>4, <1>6, <1>7

\* None of its tags has the wide length.
LEMMA PlayAttrsRead ==
    ASSUME NEW is2bLen
    PROVE  DecodeAttrs(EncodeAttrs(PlayBody, FALSE), is2bLen) = PlayBody
<1> DEFINE a1 == [tag |-> 118, value |-> <<1>>]
           a2 == [tag |-> 119, value |-> <<0, 1>>]
<1>1. PlayBody = <<a1, a2>> /\ Len(PlayBody) = 2 /\ PlayBody[1] = a1 /\ PlayBody[2] = a2
  BY DEF PlayBody
<1>2. ASSUME NEW a \in {a1, a2}, NEW w, NEW u PROVE EncodeAttr(a, w) = EncodeAttr(a, u)
  <2>1. ~Wide(a.tag, w) /\ ~Wide(a.tag, u)
    BY DEF Wide, LargeData
  <2> HIDE DEF a1, a2
  <2> QED BY <2>1 DEF EncodeAttr
<1> HIDE DEF a1, a2
<1>3. ASSUME NEW w PROVE EncodeAttrs(PlayBody, w) = (<<>> \o EncodeAttr(a1, w)) \o EncodeAttr(a2, w)
  <2> DEFINE f == Encodings(PlayBody, w)
  <2>1. f[0] = <<>> /\ \A i \in 1 .. 2 : f[i] = f[i - 1] \o EncodeAttr(PlayBody[i], w)
    BY <1>1, PlayFits, EncodingStep
  <2>2. EncodeAttrs(PlayBody, w) = f[2]
    BY <1>1 DEF EncodeAttrs
  <2> DEFINE F(i) == f[i]
             G(i) == EncodeAttr(PlayBody[i], w)
  <2>3. PlayBody[1] = a1 /\ PlayBody[2] = a2
    BY <1>1
  <2>4. f[1] = <<>> \o EncodeAttr(a1, w) /\ f[2] = f[1] \o EncodeAttr(a2, w)
    <3>1. F(0) = <<>> /\ \A i \in 1 .. 2 : F(i) = F(i - 1) \o G(i)
      BY <2>1
    <3> HIDE DEF F, G
    <3>2. F(1) = <<>> \o G(1) /\ F(2) = F(1) \o G(2)
      <4>1. F(1) = F(1 - 1) \o G(1) /\ F(2) = F(2 - 1) \o G(2) /\ 1 - 1 = 0 /\ 2 - 1 = 1
        BY <3>1
      <4> QED BY <3>1, <4>1
    <3>3. G(1) = EncodeAttr(a1, w) /\ G(2) = EncodeAttr(a2, w)
      BY <2>3 DEF G
    <3> QED BY <3>2, <3>3 DEF F
  <2> HIDE DEF f
  <2> QED BY <2>2, <2>4
<1>4. EncodeAttrs(PlayBody, FALSE) = EncodeAttrs(PlayBody, is2bLen)
  <2>1. EncodeAttr(a1, FALSE) = EncodeAttr(a1, is2bLen) /\ EncodeAttr(a2, FALSE) = EncodeAttr(a2, is2bLen)
    BY <1>2
  <2> QED BY <1>3, <2>1
<1>5. PlayBody \in Seq(Attr) /\ Fits(PlayBody, is2bLen)
  BY PlayFits
<1>6. DecodeAttrs(EncodeAttrs(PlayBody, is2bLen), is2bLen) = UpToEnd(PlayBody)
  BY <1>5, AllIsRead
<1>7. UpToEnd(PlayBody) = PlayBody
  <2>1. \A i \in 1 .. Len(PlayBody) : PlayBody[i].tag # EndMarker
    BY <1>1 DEF a1, a2, EndMarker
  <2> QED BY <2>1 DEF UpToEnd
<1> QED BY <1>4, <1>6, <1>7

\* A play request is read, for user ids of at most 227 bytes.
LEMMA PlayRead ==
    ASSUME NEW s \in Sent, s.is = "play", Len(s.of) <= 227
    PROVE  DecodeMessage(Encoded(s), Key).ok /\ DecodeMessage(Encoded(s), Key).msg.attrs = PlayBody
<1> DEFINE uid == s.of
           h == FixedPart(s)
           b == BodyOf(s)
           x == ExpandHeader(uid)
           e == EncodeAttrs(PlayBody, FALSE)
           c == AesEncrypt(e, Key)
           got == [type |-> 3074, seq |-> <<0, 1>>, reserved |-> 25140, mask |-> Carried(PlayMask), attrs |-> <<>>]
<1>1. uid \in Seq(Byte) /\ Len(uid) \in Nat /\ Len(uid) < 256
  <2>1. uid \in UserIds
    BY SentKinds
  <2> QED BY <2>1, P2PWireAssumption
<1>2. /\ h \in Seq(Byte) /\ Len(h) = HeaderLen /\ h[1] = 226 /\ h[12] = 0
      /\ b \in Seq(Byte) /\ Encoded(s) = Stamp(Frame(h, b))
  BY EncodedIsFramed
<1>3. x \in Seq(Byte) /\ Len(x) = 16 + Len(uid)
  BY <1>1, ExpandFits, ExpandLength
<1>4. e \in Seq(Byte) /\ c \in Seq(Byte)
  <2>1. e \in Seq(Byte)
    BY PlayFits, Zenon
  <2>2. Key \in Byte
    BY P2PWireAssumption
  <2> HIDE DEF e
  <2> QED BY <2>1, <2>2, Encrypted
<1>5. b = x \o c /\ h = Header(3074, <<0, 1>>, 25140, PlayMask, (HeaderLen + Len(x)) % 256)
  BY DEF BodyOf, FixedPart
<1>6. (HeaderLen + Len(x)) % 256 = HeaderLen + Len(x) /\ HeaderLen + Len(x) \in Byte
  <2> DEFINE n == HeaderLen + Len(x)
  <2>1. n \in Nat /\ n < 256
    <3>1. Len(uid) <= 227
      OBVIOUS
    <3> HIDE DEF x, uid
    <3> QED BY <1>1, <1>3, <3>1 DEF HeaderLen
  <2> HIDE DEF n
  <2>2. n % 256 = n /\ n \in Byte
    BY <2>1, SmallIsByte
  <2> QED BY <2>2 DEF n
<1>7. HeaderOf(h) = got /\ h[11] = HeaderLen + Len(x)
  <2>1. 3074 \in Half /\ <<0, 1>> \in Half \X Half /\ 25140 \in Half /\ PlayMask \in Masks
    BY DEF Half, PlayMask, Masks
  <2> DEFINE n == HeaderLen + Len(x)
  <2>2. h = Header(3074, <<0, 1>>, 25140, PlayMask, n) /\ n \in Byte
    BY <1>5, <1>6
  <2> HIDE DEF h, n
  <2>3. HeaderOf(h) = got
    BY <2>1, <2>2, HeaderRead
  <2>4. h[11] = n
    BY <2>1, <2>2, HeaderType
  <2> QED BY <2>3, <2>4 DEF n
<1>8. got.mask.encrypt
  BY DEF Carried, PlayMask
<1> HIDE DEF h, b, x, e, c, uid, got
<1>9. Len(x) \in 0 .. Len(b) /\ SubSeq(b, Len(x) + 1, Len(b)) = c
  <2>1. Len(b) = Len(x) + Len(c) /\ Len(c) \in Nat /\ Len(x) \in Nat
    BY <1>3, <1>4, <1>5, ConcatProperties
  <2>2. SubSeq(x \o c, Len(x) + 1, Len(b)) = c
    BY <1>3, <1>4, <2>1, SecondPart
  <2> QED BY <1>5, <2>1, <2>2
<1>10. DecodeMessage(Encoded(s), Key) = Decrypted(got, c, Key)
  <2>1. DecodeMessage(Encoded(s), Key) = Decrypted(HeaderOf(h), SubSeq(b, Len(x) + 1, Len(b)), Key)
    BY <1>2, <1>7, <1>9, Accepted
  <2> QED BY <1>7, <1>9, <2>1
<1>11. Decrypted(got, c, Key) = DecodeBody(got, e)
  BY <1>4, <1>8, BodyRead DEF c
<1>12. DecodeBody(got, e).ok /\ DecodeBody(got, e).msg.attrs = DecodeAttrs(e, got.mask.is2bLen)
  BY DEF DecodeBody, got
<1>13. DecodeAttrs(e, got.mask.is2bLen) = PlayBody
  BY PlayAttrsRead DEF e
<1> QED BY <1>10, <1>11, <1>12, <1>13

\* A play request with a user id of at most 227 bytes is read behind its expand header
\* (session.py:416-435).
THEOREM PlayRequestsAreRead == Spec => []PlayIsRead
<1>1. WireInv => PlayIsRead
  <2> SUFFICES ASSUME WireInv, fate = "intact", sent.is = "play", Len(sent.of) <= 227
               PROVE  DecodeMessage(wire, Key).ok /\ DecodeMessage(wire, Key).msg.attrs = PlayBody
    BY DEF PlayIsRead
  <2>1. sent \in Sent /\ wire = Encoded(sent)
    BY DEF WireInv
  <2> QED BY <2>1, PlayRead
<1> QED BY <1>1, DatagramIsKnown, PTL

-----------------------------------------------------------------------------
(***************************************************************************)
(* An attribute cut short.                                                 *)
(***************************************************************************)
PartOf(v, u) == v \in Seq(Byte) /\ Len(v) <= Len(u) /\ \A k \in 1 .. Len(v) : v[k] = u[k]

\* An attribute whose value is cut is found with its tag, its length and what is left of its
\* value; past it is the end.
LEMMA CutAt ==
    ASSUME NEW b \in Seq(Byte), NEW c, NEW a \in Attr, NEW is2bLen, NEW p \in Nat,
           \A k \in 1 .. Len(b) : b[k] = c[k], AttrIsAt(c, p, a, is2bLen),
           p + HeadOf(a, is2bLen) <= Len(b), p + HeadOf(a, is2bLen) + Len(a.value) > Len(b)
    PROVE  /\ b[p + 1] = a.tag /\ HeadLen(b, p + 1, is2bLen) = HeadOf(a, is2bLen)
           /\ ValueLen(b, p + 1, is2bLen) = Len(a.value) /\ Len(a.value) # 0
           /\ After(b, p + 1, is2bLen) = Len(b) + 1
           /\ \E v : PartOf(v, a.value) /\ AttrAt(b, p + 1, is2bLen) = [tag |-> a.tag, value |-> v]
<1> DEFINE n == Len(a.value)
           h == HeadOf(a, is2bLen)
           off == p + 1
           m == Len(b)
<1>1. n \in Nat /\ h \in {2, 3} /\ m \in Nat /\ p + h <= m /\ p + h + n > m /\ a.value \in Seq(Byte)
  BY HeadIs DEF Attr
<1>2. /\ c[p + 1] = a.tag /\ (h = 2 => c[p + 2] = n) /\ (h = 3 => Num(c, p + 2) = n)
      /\ \A k \in 1 .. n : c[p + h + k] = a.value[k]
  BY DEF AttrIsAt
<1>3. \A k \in 1 .. m : b[k] = c[k]
  OBVIOUS
<1>4. /\ b[p + 1] = a.tag /\ (h = 2 => b[p + 2] = n) /\ (h = 3 => Num(b, p + 2) = n)
      /\ \A k \in 1 .. m - (p + h) : b[p + h + k] = a.value[k]
  <2> HIDE DEF n, h, m
  <2>1. b[p + 1] = c[p + 1] /\ b[p + 2] = c[p + 2] /\ (h = 3 => b[p + 3] = c[p + 3])
    BY <1>1, <1>3
  <2>2. h = 3 => Num(b, p + 2) = Num(c, p + 2)
    BY <2>1 DEF Num
  <2>3. ASSUME NEW k \in 1 .. m - (p + h) PROVE b[p + h + k] = a.value[k]
    <3>1. p + h + k \in 1 .. m /\ k \in 1 .. n
      BY <1>1
    <3> QED BY <1>2, <1>3, <3>1
  <2> QED BY <1>2, <2>1, <2>2, <2>3
<1>5. HeadLen(b, off, is2bLen) = h
  BY <1>4 DEF HeadLen, HeadOf
<1>6. ValueLen(b, off, is2bLen) = n
  <2>1. off + 1 = p + 2
    OBVIOUS
  <2> HIDE DEF off, n, h
  <2> QED BY <1>1, <1>4, <1>5, <2>1 DEF ValueLen
<1>7. After(b, off, is2bLen) = m + 1
  <2>1. After(b, off, is2bLen) = IF off + h + n <= m THEN off + h + n ELSE m + 1
    BY <1>5, <1>6 DEF After
  <2> HIDE DEF n, h, m
  <2> QED BY <1>1, <2>1
<1>8. \E v : PartOf(v, a.value) /\ AttrAt(b, off, is2bLen) = [tag |-> a.tag, value |-> v]
  <2> DEFINE l == off + h
             v == SubSeq(b, l, m)
  <2>1. l \in Nat \ {0} /\ m \in Nat /\ l <= m + 1 /\ m - l + 1 = m - (p + h) /\ m - (p + h) <= n
    <3> HIDE DEF n, h, m
    <3> QED BY <1>1
  <2>2. After(b, off, is2bLen) - 1 = m
    <3> HIDE DEF m
    <3> QED BY <1>1, <1>7
  <2>3. AttrAt(b, off, is2bLen) = [tag |-> b[off], value |-> v]
    BY <1>5, <2>2 DEF AttrAt
  <2>4. \A k \in 1 .. m - (p + h) : b[l + k - 1] = a.value[k]
    <3> HIDE DEF n, h, m
    <3>1. \A k \in 1 .. m - (p + h) : l + k - 1 = p + h + k
      BY <1>1
    <3> QED BY <1>4, <3>1
  <2> HIDE DEF l
  <2>5. v \in Seq(Byte) /\ Len(v) = m - l + 1 /\ \A k \in 1 .. m - l + 1 : v[k] = b[l + k - 1]
    BY <2>1, Slice
  <2> HIDE DEF v
  <2>6. PartOf(v, a.value)
    <3>1. Len(v) = m - (p + h) /\ Len(v) <= n
      BY <2>1, <2>5
    <3>2. \A k \in 1 .. Len(v) : v[k] = a.value[k]
      BY <2>1, <2>4, <2>5
    <3> QED BY <2>5, <3>1, <3>2 DEF PartOf
  <2> QED BY <1>4, <2>3, <2>6
<1>9. n # 0
  BY <1>1
<1> QED BY <1>4, <1>5, <1>6, <1>7, <1>8, <1>9

\* So it is read with what is left of its value, or not at all.
LEMMA ReadCut ==
    ASSUME NEW b \in Seq(Byte), NEW c, NEW a \in Attr, NEW is2bLen, NEW p \in Nat,
           \A k \in 1 .. Len(b) : b[k] = c[k], AttrIsAt(c, p, a, is2bLen),
           p <= Len(b), p + HeadOf(a, is2bLen) + Len(a.value) > Len(b)
    PROVE  \/ Readings(b, is2bLen)[p + 1] = <<>>
           \/ \E v : PartOf(v, a.value) /\ Readings(b, is2bLen)[p + 1] = <<[tag |-> a.tag, value |-> v]>>
<1> DEFINE n == Len(a.value)
           h == HeadOf(a, is2bLen)
           f == Readings(b, is2bLen)
           off == p + 1
           m == Len(b)
<1>1. n \in Nat /\ h \in {2, 3} /\ m \in Nat /\ p <= m
  BY HeadIs DEF Attr
<1>2. f[off] = ReadStep(b, is2bLen, off, f)
  <2>1. off \in 1 .. Len(b) + 1
    BY <1>1
  <2> HIDE DEF off
  <2> QED BY <2>1, ReadingAt
<1>3. CASE p = m
  <2>1. off > Len(b)
    BY <1>3
  <2> HIDE DEF f, off
  <2>2. f[off] = <<>>
    BY <1>2, <2>1 DEF ReadStep
  <2> QED BY <2>2 DEF f, off
<1>4. CASE p < m /\ p + h > m
  <2>1. b[off] = c[off] /\ c[off] = a.tag
    <3>1. off \in 1 .. m
      BY <1>1, <1>4
    <3> QED BY <3>1 DEF AttrIsAt
  <2>2. HeadLen(b, off, is2bLen) = h
    BY <2>1 DEF HeadLen, HeadOf
  <2>3. off + h > Len(b) + 1
    <3> HIDE DEF h
    <3> QED BY <1>1, <1>4
  <2> HIDE DEF f, off, h
  <2>4. f[off] = <<>>
    BY <1>2, <2>2, <2>3 DEF ReadStep
  <2> QED BY <2>4 DEF f, off
<1>5. CASE p + h <= m
  <2>1. /\ b[off] = a.tag /\ HeadLen(b, off, is2bLen) = h /\ ValueLen(b, off, is2bLen) = n /\ n # 0
        /\ After(b, off, is2bLen) = m + 1
        /\ \E v : PartOf(v, a.value) /\ AttrAt(b, off, is2bLen) = [tag |-> a.tag, value |-> v]
    BY <1>5, CutAt
  <2>2. PICK v : PartOf(v, a.value) /\ AttrAt(b, off, is2bLen) = [tag |-> a.tag, value |-> v]
    BY <2>1
  <2>3. ~(off > m) /\ ~(off + h > m + 1)
    <3> HIDE DEF h, m
    <3> QED BY <1>1, <1>5
  <2>4. ~(b[off] = EndMarker /\ b[off + 1] = 0)
    <3> SUFFICES ASSUME b[off] = EndMarker PROVE b[off + 1] # 0
      OBVIOUS
    <3>1. h = 2
      BY <2>1 DEF HeadOf, Wide, EndMarker, LargeData
    <3>2. ValueLen(b, off, is2bLen) = b[off + 1]
      BY <2>1, <3>1 DEF ValueLen
    <3> HIDE DEF off, h, n
    <3> QED BY <2>1, <3>2
  <2>5. f[m + 1] = <<>>
    BY ReadNothing
  <2> HIDE DEF f, off, h, n, m
  <2>6. f[off] = <<AttrAt(b, off, is2bLen)>> \o f[m + 1]
    BY <1>2, <2>1, <2>3, <2>4 DEF ReadStep, m
  <2>7. f[off] = <<[tag |-> a.tag, value |-> v]>>
    <3>1. \A x : <<x>> \o <<>> = <<x>>
      OBVIOUS
    <3> QED BY <2>2, <2>5, <2>6, <3>1
  <2> QED BY <2>2, <2>7 DEF f, off
<1>6. p = m \/ (p < m /\ p + h > m) \/ p + h <= m
  <2> HIDE DEF h, m
  <2> QED BY <1>1
<1> QED BY <1>3, <1>4, <1>5, <1>6

-----------------------------------------------------------------------------
\* What a reader returns from where the first i attributes end, of a body that may end too
\* soon: the next ones, the last of them perhaps in part.
ReadSoFar(attrs, i, r) ==
    /\ r \in Seq(Attr) /\ Len(r) <= Len(attrs) - i
    /\ \A k \in 1 .. Len(r) :
          /\ r[k].tag = attrs[i + k].tag /\ PartOf(r[k].value, attrs[i + k].value)
          /\ k < Len(r) => r[k] = attrs[i + k]

\* Nothing more may be read.
LEMMA NothingSoFar ==
    ASSUME NEW attrs \in Seq(Attr), NEW i \in 0 .. Len(attrs) PROVE ReadSoFar(attrs, i, <<>>)
<1>1. <<>> \in Seq(Attr) /\ Len(<<>>) = 0 /\ 0 <= Len(attrs) - i
  OBVIOUS
<1> QED BY <1>1 DEF ReadSoFar

LEMMA WholeIsPart == ASSUME NEW a \in Attr PROVE PartOf(a.value, a.value)
<1>1. a.value \in Seq(Byte)
  BY DEF Attr
<1> QED BY <1>1 DEF PartOf

\* Or one attribute more, with a part of its value.
LEMMA OneSoFar ==
    ASSUME NEW attrs \in Seq(Attr), NEW c \in 1 .. Len(attrs), NEW v, PartOf(v, attrs[c].value)
    PROVE  ReadSoFar(attrs, c - 1, <<[tag |-> attrs[c].tag, value |-> v]>>)
<1> DEFINE x == [tag |-> attrs[c].tag, value |-> v]
           r == <<x>>
<1>1. attrs[c] \in Attr /\ v \in Seq(Byte)
  BY DEF PartOf
<1>2. x \in Attr /\ x.tag = attrs[c].tag /\ x.value = v
  BY <1>1 DEF Attr
<1> HIDE DEF x
<1>3. r \in Seq(Attr) /\ Len(r) = 1 /\ r[1] = x
  BY <1>2
<1> HIDE DEF r
<1>4. c - 1 + 1 = c /\ 1 <= Len(attrs) - (c - 1)
  OBVIOUS
<1>5. ASSUME NEW k \in 1 .. Len(r)
      PROVE  /\ r[k].tag = attrs[c - 1 + k].tag /\ PartOf(r[k].value, attrs[c - 1 + k].value)
             /\ ~(k < Len(r))
  <2>1. k = 1 /\ c - 1 + k = c
    BY <1>3, <1>4
  <2> QED BY <1>2, <1>3, <2>1
<1>6. ReadSoFar(attrs, c - 1, r)
  BY <1>3, <1>4, <1>5 DEF ReadSoFar
<1> QED BY <1>6 DEF r, x

\* Or a whole one, and then what is read after it.
LEMMA OneMoreSoFar ==
    ASSUME NEW attrs \in Seq(Attr), NEW c \in 1 .. Len(attrs), NEW rest, ReadSoFar(attrs, c, rest)
    PROVE  ReadSoFar(attrs, c - 1, <<attrs[c]>> \o rest)
<1> DEFINE s == <<attrs[c]>>
           r == s \o rest
<1>1. attrs[c] \in Attr /\ c \in Nat /\ Len(attrs) \in Nat
  OBVIOUS
<1>2. s \in Seq(Attr) /\ Len(s) = 1 /\ s[1] = attrs[c]
  BY <1>1
<1>3. /\ rest \in Seq(Attr) /\ Len(rest) <= Len(attrs) - c /\ Len(rest) \in Nat
      /\ \A k \in 1 .. Len(rest) :
            /\ rest[k].tag = attrs[c + k].tag /\ PartOf(rest[k].value, attrs[c + k].value)
            /\ k < Len(rest) => rest[k] = attrs[c + k]
  BY DEF ReadSoFar
<1> HIDE DEF s
<1>4. /\ r \in Seq(Attr) /\ Len(r) = Len(s) + Len(rest)
      /\ \A k \in 1 .. Len(s) + Len(rest) : r[k] = IF k <= Len(s) THEN s[k] ELSE rest[k - Len(s)]
  BY <1>2, <1>3, ConcatProperties
<1> HIDE DEF r
<1>5. Len(r) = 1 + Len(rest) /\ Len(r) <= Len(attrs) - (c - 1)
  BY <1>1, <1>2, <1>3, <1>4
<1>6. ASSUME NEW k \in 1 .. Len(r)
      PROVE  /\ r[k].tag = attrs[c - 1 + k].tag /\ PartOf(r[k].value, attrs[c - 1 + k].value)
             /\ k < Len(r) => r[k] = attrs[c - 1 + k]
  <2>1. CASE k = 1
    <3>1. r[k] = attrs[c] /\ c - 1 + k = c
      BY <1>1, <1>2, <1>3, <1>4, <1>5, <2>1
    <3>2. PartOf(attrs[c].value, attrs[c].value)
      BY <1>1, WholeIsPart
    <3> QED BY <3>1, <3>2
  <2>2. CASE k # 1
    <3> DEFINE j == k - 1
    <3>1. j \in 1 .. Len(rest) /\ c - 1 + k = c + j /\ (k < Len(r) => j < Len(rest))
      BY <1>1, <1>3, <1>5, <2>2
    <3>2. r[k] = rest[j]
      <4>1. k \in 1 .. Len(s) + Len(rest) /\ ~(k <= Len(s)) /\ k - Len(s) = j
        BY <1>2, <1>3, <1>5, <2>2
      <4> QED BY <1>4, <4>1
    <3> HIDE DEF j
    <3> QED BY <1>3, <3>1, <3>2
  <2> QED BY <2>1, <2>2
<1>7. ReadSoFar(attrs, c - 1, r)
  BY <1>4, <1>5, <1>6 DEF ReadSoFar
<1> QED BY <1>7 DEF r, s

-----------------------------------------------------------------------------
\* The encoding of attributes, cut after m bytes.
CutBodyTo(b, attrs, is2bLen) ==
    /\ b \in Seq(Byte) /\ Len(b) <= Len(EncodeAttrs(attrs, is2bLen))
    /\ \A k \in 1 .. Len(b) : b[k] = EncodeAttrs(attrs, is2bLen)[k]

\* What is read of a body cut short, by induction from the last attribute to the first.
LEMMA CutIsRead ==
    ASSUME NEW attrs \in Seq(Attr), NEW is2bLen, Fits(attrs, is2bLen), NEW b, CutBodyTo(b, attrs, is2bLen)
    PROVE  ReadSoFar(attrs, 0, DecodeAttrs(b, is2bLen))
<1> DEFINE n == Len(attrs)
           whole == EncodeAttrs(attrs, is2bLen)
           f == Readings(b, is2bLen)
           P(i) == Ends(attrs, is2bLen, i)
           Good(i) == P(i) <= Len(b) => ReadSoFar(attrs, i, f[P(i) + 1])
           T == {i \in 0 .. n : Good(i)}
<1>1. /\ n \in Nat /\ b \in Seq(Byte) /\ Len(b) \in Nat /\ whole \in Seq(Byte) /\ Len(whole) \in Nat
      /\ Len(b) <= Len(whole) /\ \A k \in 1 .. Len(b) : b[k] = whole[k]
  BY EncodingType DEF CutBodyTo
<1>2. Good(n)
  <2>1. P(n) = Len(whole)
    BY DEF EncodeAttrs, Ends
  <2>2. f[Len(b) + 1] = <<>>
    BY <1>1, ReadNothing
  <2>3. ReadSoFar(attrs, n, <<>>)
    BY NothingSoFar
  <2> HIDE DEF f, P, n, whole
  <2> QED BY <1>1, <2>1, <2>2, <2>3
<1>3. ASSUME NEW i \in 0 .. n - 1, i + 1 \in T PROVE i \in T
  <2>1. PICK c \in 1 .. n : c = i + 1 /\ i = c - 1
    BY <1>1
  <2> DEFINE a == attrs[c]
             p == P(c - 1)
             q == p + HeadOf(a, is2bLen) + Len(a.value)
  <2>1a. a \in Attr
    OBVIOUS
  <2>2. p \in Nat /\ P(c) = q
    BY EndsAt
  <2>3. AttrIsAt(whole, p, a, is2bLen)
    BY Laid
  <2>4. q \in Nat
    <3>1. HeadOf(a, is2bLen) \in Nat
      BY HeadIs
    <3>2. Len(a.value) \in Nat
      BY <2>1a DEF Attr
    <3> HIDE DEF a, p, P
    <3> QED BY <2>2, <3>1, <3>2
  <2>5. ASSUME p <= Len(b), q <= Len(b) PROVE ReadSoFar(attrs, c - 1, f[p + 1])
    <3>1. AttrIsAt(b, p, a, is2bLen)
      <4>1. \A k \in 1 .. q : b[k] = whole[k]
        <5> HIDE DEF q, whole
        <5> QED BY <1>1, <2>4, <2>5
      <4> HIDE DEF a, p, whole, P
      <4> QED BY <2>1a, <2>2, <2>3, <4>1, AttrStays
    <3>2. ReadSoFar(attrs, c, f[q + 1])
      <4>1. Good(c)
        BY <1>3, <2>1
      <4> HIDE DEF f, P, q
      <4> QED BY <2>2, <2>5, <4>1
    <3>3. /\ IsEnd(a) => f[p + 1] = <<a>>
          /\ ~IsEnd(a) => f[p + 1] = <<a>> \o f[q + 1]
      <4> HIDE DEF a, P, p
      <4> QED BY <1>1, <2>1a, <2>2, <2>5, <3>1, ReadWhole
    <3>4. CASE IsEnd(a)
      <4>1. a = [tag |-> a.tag, value |-> a.value]
        BY <2>1a DEF Attr
      <4>2. ReadSoFar(attrs, c - 1, <<[tag |-> a.tag, value |-> a.value]>>)
        BY <2>1a, WholeIsPart, OneSoFar
      <4> HIDE DEF f, p, q, P
      <4> QED BY <3>3, <3>4, <4>1, <4>2
    <3>5. CASE ~IsEnd(a)
      <4>1. ReadSoFar(attrs, c - 1, <<a>> \o f[q + 1])
        <5> HIDE DEF f, q, P
        <5> QED BY <3>2, OneMoreSoFar
      <4> HIDE DEF f, p, q, P
      <4> QED BY <3>3, <3>5, <4>1
    <3> QED BY <3>4, <3>5
  <2>6. ASSUME p <= Len(b), q > Len(b) PROVE ReadSoFar(attrs, c - 1, f[p + 1])
    <3>1. \/ f[p + 1] = <<>>
          \/ \E v : PartOf(v, a.value) /\ f[p + 1] = <<[tag |-> a.tag, value |-> v]>>
      <4>1. p + HeadOf(a, is2bLen) + Len(a.value) > Len(b)
        <5> HIDE DEF P, p, a
        <5> QED BY <2>6
      <4>2. \A k \in 1 .. Len(b) : b[k] = whole[k]
        BY <1>1
      <4>3. p \in Nat /\ p <= Len(b) /\ b \in Seq(Byte)
        BY <1>1, <2>2, <2>6
      <4> HIDE DEF a, P, p, whole, f
      <4>4. \/ Readings(b, is2bLen)[p + 1] = <<>>
            \/ \E v : PartOf(v, a.value) /\ Readings(b, is2bLen)[p + 1] = <<[tag |-> a.tag, value |-> v]>>
        BY <2>1a, <2>3, <2>6, <4>1, <4>2, <4>3, ReadCut
      <4> QED BY <4>4 DEF f
    <3>2. CASE f[p + 1] = <<>>
      <4>1. c - 1 \in 0 .. Len(attrs)
        BY <1>1
      <4>2. ReadSoFar(attrs, c - 1, <<>>)
        BY <4>1, NothingSoFar
      <4> HIDE DEF f, p, P
      <4> QED BY <3>2, <4>2
    <3>3. ASSUME NEW v, PartOf(v, a.value), f[p + 1] = <<[tag |-> a.tag, value |-> v]>>
          PROVE  ReadSoFar(attrs, c - 1, f[p + 1])
      <4>1. ReadSoFar(attrs, c - 1, <<[tag |-> a.tag, value |-> v]>>)
        BY <3>3, OneSoFar
      <4> HIDE DEF f, p, P
      <4> QED BY <3>3, <4>1
    <3> HIDE DEF f, p, a
    <3> QED BY <3>1, <3>2, <3>3
  <2>7. Good(c - 1)
    <3>1. q <= Len(b) \/ q > Len(b)
      <4> HIDE DEF q
      <4> QED BY <1>1, <2>4
    <3> HIDE DEF f, q, P
    <3> QED BY <2>5, <2>6, <3>1
  <2> HIDE DEF Good
  <2> QED BY <1>1, <2>1, <2>7
<1>4. ReadSoFar(attrs, 0, f[1])
  <2>1. n \in T
    <3> HIDE DEF Good
    <3> QED BY <1>1, <1>2
  <2>2. 0 \in T
    <3> HIDE DEF T, n
    <3>1. 0 .. n \subseteq T
      BY <1>1, <1>3, <2>1, Descend
    <3> QED BY <1>1, <3>1
  <2>3. P(0) = 0
    BY EncodingStep, EmptySeq DEF Ends
  <2>4. Good(0)
    BY <2>2
  <2> HIDE DEF f, P
  <2> QED BY <1>1, <2>3, <2>4
<1> QED BY <1>4 DEF DecodeAttrs

-----------------------------------------------------------------------------
(***************************************************************************)
(* The set-up response's own reader.                                       *)
(***************************************************************************)
SubAfter(b, off) == After(b, off, FALSE)
SubAttrAt(b, off) == AttrAt(b, off, FALSE)

\* Without two-byte lengths the two readers find the same attributes.
LEMMA NarrowAlike ==
    ASSUME NEW w, ~w
    PROVE  \A b, off : After(b, off, w) = SubAfter(b, off) /\ AttrAt(b, off, w) = SubAttrAt(b, off)
<1> SUFFICES ASSUME NEW b, NEW off
             PROVE  After(b, off, w) = SubAfter(b, off) /\ AttrAt(b, off, w) = SubAttrAt(b, off)
  OBVIOUS
<1>1. HeadLen(b, off, w) = HeadLen(b, off, FALSE)
  BY Zenon DEF HeadLen, Wide
<1>2. ValueLen(b, off, w) = ValueLen(b, off, FALSE)
  BY <1>1, Zenon DEF ValueLen
<1>3. After(b, off, w) = SubAfter(b, off)
  BY <1>1, <1>2, Zenon DEF After, SubAfter
<1>4. AttrAt(b, off, w) = SubAttrAt(b, off)
  BY <1>1, <1>3, Zenon DEF AttrAt, SubAttrAt, SubAfter
<1> QED BY <1>3, <1>4

LEMMA SubStepIs ==
    ASSUME NEW b, NEW off, NEW f
    PROVE  SubStep(b, off, f) = IF off + 1 > Len(b) THEN <<>>
                                ELSE IF off + 1 + b[off + 1] > Len(b) THEN <<>>
                                ELSE <<SubAttrAt(b, off)>> \o f[SubAfter(b, off)]
  BY Zenon DEF SubStep, SubAttrAt, SubAfter

\* A whole attribute is read, and then what is after it.
LEMMA SubReadWhole ==
    ASSUME NEW b \in Seq(Byte), NEW a \in Attr, NEW w, ~w, NEW p \in Nat,
           AttrIsAt(b, p, a, w), p + HeadOf(a, w) + Len(a.value) <= Len(b)
    PROVE  SubReadings(b)[p + 1] = <<a>> \o SubReadings(b)[p + HeadOf(a, w) + Len(a.value) + 1]
<1> DEFINE n == Len(a.value)
           h == HeadOf(a, w)
           f == SubReadings(b)
           off == p + 1
<1>1. n \in Nat /\ Len(b) \in Nat /\ p + h + n <= Len(b)
  BY DEF Attr
<1>2. h = 2
  BY DEF HeadOf, Wide
<1>3. b[off + 1] = n
  <2>1. b[p + 2] = n /\ off + 1 = p + 2
    BY <1>2 DEF AttrIsAt
  <2> QED BY <2>1
<1>4. After(b, off, w) = p + h + n + 1 /\ AttrAt(b, off, w) = a
  BY WholeAt
<1>5. SubAfter(b, off) = p + h + n + 1 /\ SubAttrAt(b, off) = a
  BY <1>4, NarrowAlike
<1>6. f[off] = IF off + 1 > Len(b) THEN <<>>
               ELSE IF off + 1 + b[off + 1] > Len(b) THEN <<>>
               ELSE <<SubAttrAt(b, off)>> \o f[SubAfter(b, off)]
  <2>1. off \in 1 .. Len(b) + 1
    <3> HIDE DEF n, h
    <3> QED BY <1>1, <1>2
  <2> HIDE DEF off, f
  <2>2. f[off] = SubStep(b, off, f)
    BY <2>1, SubReadingAt DEF f
  <2> QED BY <2>2, SubStepIs
<1>7. ~(off + 1 > Len(b)) /\ ~(off + 1 + n > Len(b))
  <2> HIDE DEF n, h
  <2> QED BY <1>1, <1>2
<1> HIDE DEF f, off, n, h
<1>8. f[off] = <<a>> \o f[p + h + n + 1]
  BY <1>3, <1>5, <1>6, <1>7
<1> QED BY <1>8 DEF f, off, n, h

\* One that is cut ends the list.
LEMMA SubReadCut ==
    ASSUME NEW b \in Seq(Byte), NEW c, NEW a \in Attr, NEW w, ~w, NEW p \in Nat,
           \A k \in 1 .. Len(b) : b[k] = c[k], AttrIsAt(c, p, a, w),
           p <= Len(b), p + HeadOf(a, w) + Len(a.value) > Len(b)
    PROVE  SubReadings(b)[p + 1] = <<>>
<1> DEFINE n == Len(a.value)
           h == HeadOf(a, w)
           f == SubReadings(b)
           off == p + 1
           m == Len(b)
<1>1. n \in Nat /\ m \in Nat /\ p <= m /\ p + h + n > m
  BY DEF Attr
<1>2. h = 2
  BY DEF HeadOf, Wide
<1>3. c[off + 1] = n
  <2>1. c[p + 2] = n /\ off + 1 = p + 2
    BY <1>2 DEF AttrIsAt
  <2> QED BY <2>1
<1>6. f[off] = IF off + 1 > Len(b) THEN <<>>
               ELSE IF off + 1 + b[off + 1] > Len(b) THEN <<>>
               ELSE <<SubAttrAt(b, off)>> \o f[SubAfter(b, off)]
  <2>1. off \in 1 .. Len(b) + 1
    <3> HIDE DEF n, h
    <3> QED BY <1>1
  <2> HIDE DEF off, f
  <2>2. f[off] = SubStep(b, off, f)
    BY <2>1, SubReadingAt DEF f
  <2> QED BY <2>2, SubStepIs
<1>7. off + 1 > m \/ off + 1 + b[off + 1] > m
  <2>1. CASE off + 1 > m
    BY <2>1
  <2>2. CASE ~(off + 1 > m)
    <3>1. off + 1 \in 1 .. m
      BY <1>1, <2>2
    <3>2. b[off + 1] = n
      BY <1>3, <3>1
    <3>3. off + 1 + n > m
      <4> HIDE DEF n, h, m
      <4> QED BY <1>1, <1>2
    <3> QED BY <3>2, <3>3
  <2> QED BY <2>1, <2>2
<1> HIDE DEF f, off
<1>8. f[off] = <<>>
  BY <1>6, <1>7
<1> QED BY <1>8 DEF f, off

-----------------------------------------------------------------------------
\* What it returns: attributes that are whole.
WholeSoFar(attrs, i, r) ==
    /\ r \in Seq(Attr) /\ Len(r) <= Len(attrs) - i
    /\ \A k \in 1 .. Len(r) : r[k] = attrs[i + k]

LEMMA NoneWhole ==
    ASSUME NEW attrs \in Seq(Attr), NEW i \in 0 .. Len(attrs) PROVE WholeSoFar(attrs, i, <<>>)
<1>1. <<>> \in Seq(Attr) /\ Len(<<>>) = 0 /\ 0 <= Len(attrs) - i
  OBVIOUS
<1> QED BY <1>1 DEF WholeSoFar

\* A whole attribute, and then what is read after it.
LEMMA OneMoreWhole ==
    ASSUME NEW attrs \in Seq(Attr), NEW c \in 1 .. Len(attrs), NEW rest, WholeSoFar(attrs, c, rest)
    PROVE  WholeSoFar(attrs, c - 1, <<attrs[c]>> \o rest)
<1> DEFINE s == <<attrs[c]>>
           r == s \o rest
<1>1. attrs[c] \in Attr /\ c \in Nat /\ Len(attrs) \in Nat
  OBVIOUS
<1>2. s \in Seq(Attr) /\ Len(s) = 1 /\ s[1] = attrs[c]
  BY <1>1
<1>3. /\ rest \in Seq(Attr) /\ Len(rest) <= Len(attrs) - c /\ Len(rest) \in Nat
      /\ \A k \in 1 .. Len(rest) : rest[k] = attrs[c + k]
  BY DEF WholeSoFar
<1> HIDE DEF s
<1>4. /\ r \in Seq(Attr) /\ Len(r) = Len(s) + Len(rest)
      /\ \A k \in 1 .. Len(s) + Len(rest) : r[k] = IF k <= Len(s) THEN s[k] ELSE rest[k - Len(s)]
  BY <1>2, <1>3, ConcatProperties
<1> HIDE DEF r
<1>5. Len(r) = 1 + Len(rest) /\ Len(r) <= Len(attrs) - (c - 1)
  BY <1>1, <1>2, <1>3, <1>4
<1>6. ASSUME NEW k \in 1 .. Len(r) PROVE r[k] = attrs[c - 1 + k]
  <2>1. CASE k = 1
    <3>1. r[k] = attrs[c] /\ c - 1 + k = c
      BY <1>1, <1>2, <1>3, <1>4, <1>5, <2>1
    <3> QED BY <3>1
  <2>2. CASE k # 1
    <3> DEFINE j == k - 1
    <3>1. j \in 1 .. Len(rest) /\ c - 1 + k = c + j
      BY <1>1, <1>3, <1>5, <2>2
    <3>2. r[k] = rest[j]
      <4>1. k \in 1 .. Len(s) + Len(rest) /\ ~(k <= Len(s)) /\ k - Len(s) = j
        BY <1>2, <1>3, <1>5, <2>2
      <4> QED BY <1>4, <4>1
    <3> HIDE DEF j
    <3> QED BY <1>3, <3>1, <3>2
  <2> QED BY <2>1, <2>2
<1>7. WholeSoFar(attrs, c - 1, r)
  BY <1>4, <1>5, <1>6 DEF WholeSoFar
<1> QED BY <1>7 DEF r, s

\* What that reader takes of a body cut short: whole attributes, as they were sent.
LEMMA SubCutIsRead ==
    ASSUME NEW attrs \in Seq(Attr), NEW w, ~w, Fits(attrs, w), NEW b, CutBodyTo(b, attrs, w)
    PROVE  WholeSoFar(attrs, 0, SubAttrs(b))
<1> DEFINE n == Len(attrs)
           whole == EncodeAttrs(attrs, w)
           f == SubReadings(b)
           P(i) == Ends(attrs, w, i)
           Good(i) == P(i) <= Len(b) => WholeSoFar(attrs, i, f[P(i) + 1])
           T == {i \in 0 .. n : Good(i)}
<1>1. /\ n \in Nat /\ b \in Seq(Byte) /\ Len(b) \in Nat /\ whole \in Seq(Byte) /\ Len(whole) \in Nat
      /\ Len(b) <= Len(whole) /\ \A k \in 1 .. Len(b) : b[k] = whole[k]
  BY EncodingType DEF CutBodyTo
<1>2. Good(n)
  <2>1. P(n) = Len(whole)
    BY DEF EncodeAttrs, Ends
  <2>2. f[Len(b) + 1] = <<>>
    <3> DEFINE off == Len(b) + 1
    <3>1. off \in 1 .. Len(b) + 1 /\ off + 1 > Len(b)
      BY <1>1
    <3> HIDE DEF off, f
    <3>2. f[off] = SubStep(b, off, f)
      BY <1>1, <3>1, SubReadingAt DEF f
    <3>3. f[off] = <<>>
      BY <3>1, <3>2, SubStepIs
    <3> QED BY <3>3 DEF off
  <2>3. WholeSoFar(attrs, n, <<>>)
    BY NoneWhole
  <2> HIDE DEF f, P, n, whole
  <2> QED BY <1>1, <2>1, <2>2, <2>3
<1>3. ASSUME NEW i \in 0 .. n - 1, i + 1 \in T PROVE i \in T
  <2>1. PICK c \in 1 .. n : c = i + 1 /\ i = c - 1
    BY <1>1
  <2> DEFINE a == attrs[c]
             p == P(c - 1)
             q == p + HeadOf(a, w) + Len(a.value)
  <2>2. a \in Attr
    OBVIOUS
  <2>3. p \in Nat /\ P(c) = q
    BY EndsAt
  <2>4. AttrIsAt(whole, p, a, w)
    BY Laid
  <2>5. q \in Nat
    <3>1. HeadOf(a, w) \in Nat
      BY HeadIs
    <3>2. Len(a.value) \in Nat
      BY <2>2 DEF Attr
    <3> HIDE DEF a, p, P
    <3> QED BY <2>3, <3>1, <3>2
  <2>6. ASSUME p <= Len(b), q <= Len(b) PROVE WholeSoFar(attrs, c - 1, f[p + 1])
    <3>1. AttrIsAt(b, p, a, w)
      <4>1. \A k \in 1 .. q : b[k] = whole[k]
        <5> HIDE DEF q, whole
        <5> QED BY <1>1, <2>5, <2>6
      <4> HIDE DEF a, p, whole, P
      <4> QED BY <2>2, <2>3, <2>4, <4>1, AttrStays
    <3>2. WholeSoFar(attrs, c, f[q + 1])
      <4>1. Good(c)
        BY <1>3, <2>1
      <4> HIDE DEF f, P, q
      <4> QED BY <2>3, <2>6, <4>1
    <3>3. f[p + 1] = <<a>> \o f[q + 1]
      <4> HIDE DEF a, P, p
      <4> QED BY <1>1, <2>2, <2>3, <2>6, <3>1, SubReadWhole
    <3>4. WholeSoFar(attrs, c - 1, <<a>> \o f[q + 1])
      <4> HIDE DEF f, q, P
      <4> QED BY <3>2, OneMoreWhole
    <3> HIDE DEF f, p, q, P
    <3> QED BY <3>3, <3>4
  <2>7. ASSUME p <= Len(b), q > Len(b) PROVE WholeSoFar(attrs, c - 1, f[p + 1])
    <3>1. f[p + 1] = <<>>
      <4>1. p + HeadOf(a, w) + Len(a.value) > Len(b)
        <5> HIDE DEF P, p, a
        <5> QED BY <2>7
      <4>2. \A k \in 1 .. Len(b) : b[k] = whole[k]
        BY <1>1
      <4>3. p \in Nat /\ p <= Len(b) /\ b \in Seq(Byte)
        BY <1>1, <2>3, <2>7
      <4> HIDE DEF a, P, p, whole, f
      <4>4. SubReadings(b)[p + 1] = <<>>
        BY <2>2, <2>4, <4>1, <4>2, <4>3, SubReadCut
      <4> QED BY <4>4 DEF f
    <3>2. c - 1 \in 0 .. Len(attrs)
      BY <1>1
    <3>3. WholeSoFar(attrs, c - 1, <<>>)
      BY <3>2, NoneWhole
    <3> HIDE DEF f, p, P
    <3> QED BY <3>1, <3>3
  <2>8. Good(c - 1)
    <3>1. q <= Len(b) \/ q > Len(b)
      <4> HIDE DEF q
      <4> QED BY <1>1, <2>5
    <3> HIDE DEF f, q, P
    <3> QED BY <2>6, <2>7, <3>1
  <2> HIDE DEF Good
  <2> QED BY <1>1, <2>1, <2>8
<1>4. WholeSoFar(attrs, 0, f[1])
  <2>1. n \in T
    <3> HIDE DEF Good
    <3> QED BY <1>1, <1>2
  <2>2. 0 \in T
    <3> HIDE DEF T, n
    <3>1. 0 .. n \subseteq T
      BY <1>1, <1>3, <2>1, Descend
    <3> QED BY <1>1, <3>1
  <2>3. P(0) = 0
    BY EncodingStep, EmptySeq DEF Ends
  <2>4. Good(0)
    BY <2>2
  <2> HIDE DEF f, P
  <2> QED BY <1>1, <2>3, <2>4
<1> QED BY <1>4 DEF SubAttrs

-----------------------------------------------------------------------------
(***************************************************************************)
(* A message cut short is one with a shorter body.                         *)
(***************************************************************************)
CutOff(w, n) == [SubSeq(w, 1, n) EXCEPT ![12] = 0]

IsCut(e, b) == b \in Seq(Byte) /\ Len(b) <= Len(e) /\ \A k \in 1 .. Len(b) : b[k] = e[k]

\* The beginning of a framed message is its header before the beginning of its body.
LEMMA CutFrame ==
    ASSUME NEW h \in Seq(Byte), Len(h) = HeaderLen, h[12] = 0, NEW e \in Seq(Byte),
           NEW w, w = Stamp(Frame(h, e)), NEW n \in HeaderLen .. Len(w) - 1
    PROVE  /\ CutOff(w, n) = Frame(h, SubSeq(e, 1, n - 12))
           /\ IsCut(e, SubSeq(e, 1, n - 12))
<1> DEFINE b == SubSeq(e, 1, n - 12)
           full == Frame(h, b)
           t == SubSeq(w, 1, n)
           u == CutOff(w, n)
<1>1. /\ w \in Seq(Byte) /\ Len(w) = 12 + Len(e) /\ Len(e) \in Nat
      /\ \A i \in 1 .. 11 : w[i] = h[i]
      /\ \A i \in 1 .. Len(e) : w[12 + i] = e[i]
  <2>1. IsFramed(w, h, e)
    BY Framed
  <2> QED BY <2>1 DEF IsFramed, HeaderLen
<1>2. PICK d \in Nat : n = 12 + d /\ d <= Len(e) /\ n - 12 = d /\ n <= Len(w)
  <2>1. n - 12 \in Nat /\ n = 12 + (n - 12) /\ n - 12 <= Len(e) /\ n <= Len(w)
    BY <1>1 DEF HeaderLen
  <2> QED BY <2>1
<1>3. b \in Seq(Byte) /\ Len(b) = d /\ \A i \in 1 .. d : b[i] = e[i]
  <2> DEFINE one == 1
  <2>1. one \in Nat \ {0} /\ one <= d + 1 /\ d - one + 1 = d /\ \A i \in 1 .. d : one + i - 1 = i
    BY <1>2
  <2> HIDE DEF one
  <2>2. /\ SubSeq(e, one, d) \in Seq(Byte) /\ Len(SubSeq(e, one, d)) = d - one + 1
        /\ \A i \in 1 .. d - one + 1 : SubSeq(e, one, d)[i] = e[one + i - 1]
    BY <1>2, <2>1, Slice
  <2>3. SubSeq(e, one, d) \in Seq(Byte) /\ Len(SubSeq(e, one, d)) = d /\ \A i \in 1 .. d : SubSeq(e, one, d)[i] = e[i]
    BY <2>1, <2>2
  <2> QED BY <1>2, <2>3 DEF one
<1>4. t \in Seq(Byte) /\ Len(t) = n /\ \A i \in 1 .. n : t[i] = w[i]
  <2> DEFINE one == 1
  <2>0. n \in Nat
    BY <1>2
  <2>1. one \in Nat \ {0} /\ one <= n + 1 /\ n - one + 1 = n /\ \A i \in 1 .. n : one + i - 1 = i
    BY <2>0
  <2> HIDE DEF one
  <2>2. /\ SubSeq(w, one, n) \in Seq(Byte) /\ Len(SubSeq(w, one, n)) = n - one + 1
        /\ \A i \in 1 .. n - one + 1 : SubSeq(w, one, n)[i] = w[one + i - 1]
    BY <1>1, <1>2, <2>0, <2>1, Slice
  <2>3. SubSeq(w, one, n) \in Seq(Byte) /\ Len(SubSeq(w, one, n)) = n /\ \A i \in 1 .. n : SubSeq(w, one, n)[i] = w[i]
    BY <2>1, <2>2
  <2> QED BY <2>3 DEF one
<1>5. u = [t EXCEPT ![12] = 0]
  BY DEF CutOff
<1> HIDE DEF b, t, u
<1>6. 0 \in Byte
  BY DEF Byte
<1>7. u \in Seq(Byte) /\ Len(u) = n /\ \A i \in 1 .. n : u[i] = IF i = 12 THEN 0 ELSE t[i]
  <2>0. n \in Nat /\ DOMAIN t = 1 .. n
    BY <1>2, <1>4
  <2>2. \A i \in 1 .. n : u[i] = IF i = 12 THEN 0 ELSE t[i]
    BY <1>5, <2>0
  <2>1. u \in Seq(Byte) /\ Len(u) = n
    <3>1. t \in [1 .. n -> Byte]
      BY <1>4
    <3>2. u \in [1 .. n -> Byte]
      BY <1>5, <1>6, <3>1
    <3>3. \A f \in [1 .. n -> Byte] : f \in Seq(Byte) /\ Len(f) = n
      BY <2>0
    <3> QED BY <3>2, <3>3
  <2> QED BY <2>1, <2>2
<1>8. /\ full \in Seq(Byte) /\ Len(full) = 12 + d
      /\ \A i \in 1 .. 12 : full[i] = h[i]
      /\ \A i \in 1 .. d : full[12 + i] = b[i]
  BY <1>3, Joined
<1> HIDE DEF full
<1>9. ASSUME NEW i \in 1 .. n PROVE u[i] = full[i]
  <2>1. CASE i < 12
    <3>1. i \in 1 .. 11 /\ i \in 1 .. 12 /\ i # 12
      BY <1>2, <2>1
    <3>2. u[i] = t[i]
      BY <1>7, <3>1
    <3>3. t[i] = w[i]
      BY <1>4
    <3>4. w[i] = h[i]
      BY <1>1, <3>1
    <3>5. full[i] = h[i]
      BY <1>8, <3>1
    <3> QED BY <3>2, <3>3, <3>4, <3>5
  <2>2. CASE i = 12
    BY <1>7, <1>8, <2>2
  <2>3. CASE i > 12
    <3> DEFINE k == i - 12
    <3>1. k \in 1 .. d /\ k \in 1 .. Len(e) /\ i = 12 + k /\ i # 12
      BY <1>1, <1>2, <2>3
    <3> HIDE DEF k
    <3>2. u[i] = w[12 + k] /\ full[i] = b[k]
      BY <1>4, <1>7, <1>8, <3>1
    <3> QED BY <1>1, <1>3, <3>1, <3>2
  <2> QED BY <1>2, <2>1, <2>2, <2>3
<1>10. u = full
  BY <1>2, <1>7, <1>8, <1>9, SeqEqual
<1>11. IsCut(e, b)
  BY <1>1, <1>2, <1>3 DEF IsCut
<1> QED BY <1>10, <1>11 DEF u, full, b

-----------------------------------------------------------------------------
\* A sequence that agrees with the beginning of another is a prefix of it.
LEMMA PrefixOf ==
    ASSUME NEW S, NEW s \in Seq(S), NEW t \in Seq(S), Len(s) <= Len(t), \A k \in 1 .. Len(s) : s[k] = t[k]
    PROVE  IsPrefix(s, t)
<1> DEFINE n == Len(s)
<1>1. n \in Nat /\ Len(t) \in Nat /\ n <= Len(t)
  OBVIOUS
<1>2. SubSeq(s, 1, n) = s
  BY SubSeqFull
<1>3. SubSeq(t, 1, n) = s
  <2> DEFINE u == SubSeq(t, 1, n)
  <2>1. u \in Seq(S) /\ Len(u) = n /\ \A i \in 1 .. n : u[i] = t[i]
    <3>1. \A i \in 1 .. n : t[i] \in S
      BY <1>1
    <3> DEFINE one == 1
    <3>2. one \in 1 .. Len(t) + 1 /\ n - one + 1 = n /\ \A i \in 1 .. n : one + i - 1 = i
      BY <1>1
    <3> HIDE DEF n
    <3> QED BY <1>1, <3>1, SubSeqProperties
  <2> HIDE DEF u
  <2> QED BY <2>1, SeqEqual
<1> HIDE DEF n
<1> QED BY <1>1, <1>2, <1>3 DEF IsPrefix, n

-----------------------------------------------------------------------------
\* What a receiver makes of it.
LEMMA CutMessage ==
    ASSUME NEW s \in Sent, s.is = "message", ~s.of.mask.encrypt, NEW w, CutTo(s, w)
    PROVE  \E b : /\ CutBodyTo(b, s.of.attrs, s.of.mask.is2bLen) /\ Fits(s.of.attrs, s.of.mask.is2bLen)
                  /\ SubSeq(w, HeaderLen + 1, Len(w)) = b
                  /\ DecodeMessage(w, Key).msg.attrs = DecodeAttrs(b, s.of.mask.is2bLen)
<1> DEFINE m == s.of
           h == FixedPart(s)
           e == EncodeAttrs(m.attrs, m.mask.is2bLen)
           v == Encoded(s)
           got == [type |-> m.type, seq |-> m.seq, reserved |-> m.reserved, mask |-> Carried(m.mask), attrs |-> <<>>]
<1>1. m \in Messages
  BY SentKinds
<1>2. /\ m.type \in Half /\ m.seq \in Half \X Half /\ m.reserved \in Half /\ m.mask \in Masks
      /\ m.attrs \in Seq(Attr)
  BY <1>1, MessageTypes
<1>3. PICK n \in HeaderLen .. Len(v) - 1 : w = Stamp(CutOff(v, n))
  BY DEF CutTo, CutOff
<1>4. v # <<>>
  <2>1. HeaderLen = 12
    BY DEF HeaderLen
  <2> HIDE DEF v
  <2> QED BY <1>3, <2>1
<1>5. /\ h \in Seq(Byte) /\ Len(h) = HeaderLen /\ h[1] = 226 /\ h[12] = 0
      /\ v = Stamp(Frame(h, BodyOf(s))) /\ Fits(m.attrs, m.mask.is2bLen)
  BY <1>4, EncodedIsFramed
<1>6. BodyOf(s) = e /\ e \in Seq(Byte)
  <2>1. e \in Seq(Byte)
    BY <1>2, <1>5, EncodingType
  <2> QED BY <2>1 DEF BodyOf
<1>7. HeaderOf(h) = got /\ h[11] = HeaderLen
  <2>1. HeaderLen \in Byte
    BY DEF HeaderLen, Byte
  <2>2. h = Header(m.type, m.seq, m.reserved, m.mask, HeaderLen)
    BY DEF FixedPart
  <2>3. HeaderOf(Header(m.type, m.seq, m.reserved, m.mask, HeaderLen)) = got
    BY <1>2, <2>1, HeaderRead
  <2>4. Header(m.type, m.seq, m.reserved, m.mask, HeaderLen)[11] = HeaderLen
    BY <1>2, <2>1, HeaderType
  <2> HIDE DEF h, got
  <2> QED BY <2>2, <2>3, <2>4
<1>8. got.mask.encrypt = m.mask.encrypt /\ got.mask.is2bLen = m.mask.is2bLen
  BY DEF Carried
<1> DEFINE b == SubSeq(e, 1, n - 12)
<1> HIDE DEF h, v
<1>9. w = Stamp(Frame(h, b)) /\ IsCut(e, b)
  <2> HIDE DEF e
  <2>1. CutOff(v, n) = Frame(h, b) /\ IsCut(e, b)
    BY <1>3, <1>5, <1>6, CutFrame
  <2> QED BY <1>3, <2>1
<1> HIDE DEF b, e
<1>10. b \in Seq(Byte) /\ CutBodyTo(b, m.attrs, m.mask.is2bLen)
  <2>1. b \in Seq(Byte) /\ Len(b) <= Len(e) /\ \A k \in 1 .. Len(b) : b[k] = e[k]
    BY <1>9 DEF IsCut
  <2> QED BY <2>1 DEF CutBodyTo, e
<1>11. /\ 0 \in 0 .. Len(b) /\ h[11] = HeaderLen + 0 /\ HeaderLen + 0 + 1 = HeaderLen + 1
       /\ SubSeq(b, 0 + 1, Len(b)) = b
  <2>1. Len(b) \in Nat /\ HeaderLen = 12
    BY <1>10 DEF HeaderLen
  <2>2. SubSeq(b, 1, Len(b)) = b
    BY <1>10, SubSeqFull
  <2>3. 0 + 1 = 1
    OBVIOUS
  <2> QED BY <1>7, <2>1, <2>2, <2>3
<1>12. SubSeq(w, HeaderLen + 1, Len(w)) = b
  <2>1. IsFramed(w, h, b)
    BY <1>5, <1>9, <1>10, Framed
  <2>2. SubSeq(w, HeaderLen + 0 + 1, Len(w)) = SubSeq(b, 0 + 1, Len(b))
    BY <1>5, <1>10, <1>11, <2>1, BodyIsThere
  <2> QED BY <1>11, <2>2
<1>13. DecodeMessage(w, Key) = Decrypted(HeaderOf(h), b, Key)
  <2>1. DecodeMessage(w, Key) = Decrypted(HeaderOf(h), SubSeq(b, 0 + 1, Len(b)), Key)
    BY <1>5, <1>9, <1>10, <1>11, Accepted
  <2> QED BY <1>11, <2>1
<1>14. Decrypted(got, b, Key) = DecodeBody(got, b)
  <2> HIDE DEF got
  <2> QED BY <1>8 DEF Decrypted
<1>15. DecodeBody(got, b).msg.attrs = DecodeAttrs(b, m.mask.is2bLen)
  <2>1. DecodeBody(got, b) = [ok |-> TRUE, msg |-> [got EXCEPT !.attrs = DecodeAttrs(b, got.mask.is2bLen)]]
    BY DEF DecodeBody
  <2> DEFINE x == DecodeAttrs(b, got.mask.is2bLen)
             y == [got EXCEPT !.attrs = x]
  <2>2. y.attrs = x
    OBVIOUS
  <2>3. x = DecodeAttrs(b, m.mask.is2bLen)
    BY <1>8
  <2> HIDE DEF got
  <2>4. DecodeBody(got, b) = [ok |-> TRUE, msg |-> y]
    BY <2>1
  <2> HIDE DEF x, y
  <2>5. DecodeBody(got, b).msg = y
    BY <2>4
  <2> QED BY <2>2, <2>3, <2>5
<1> HIDE DEF got
<1>16. DecodeMessage(w, Key).msg.attrs = DecodeAttrs(b, m.mask.is2bLen)
  BY <1>7, <1>13, <1>14, <1>15
<1> QED BY <1>5, <1>10, <1>12, <1>16

\* A body that ends too soon yields the attributes sent, in their order, the last perhaps
\* cut short, and the set-up response's reader yields whole ones only (v3.py:184-213,
\* session.py:611-634).
THEOREM CutBodiesAreRead == Spec => []CutShortReadRight
<1>1. WireInv => CutShortReadRight
  <2> SUFFICES ASSUME WireInv, fate = "cut" PROVE CutShortReadRight
    BY DEF CutShortReadRight
  <2> DEFINE all == sent.of.attrs
             w == sent.of.mask.is2bLen
             got == DecodeMessage(wire, Key).msg.attrs
             sub == SubAttrs(SubSeq(wire, HeaderLen + 1, Len(wire)))
  <2>1. sent \in Sent /\ sent.is = "message" /\ ~sent.of.mask.encrypt /\ CutTo(sent, wire)
    BY DEF WireInv
  <2>2. PICK b : /\ CutBodyTo(b, all, w) /\ Fits(all, w) /\ SubSeq(wire, HeaderLen + 1, Len(wire)) = b
                 /\ got = DecodeAttrs(b, w)
    BY <2>1, CutMessage
  <2>3. all \in Seq(Attr)
    BY <2>1, SentKinds, MessageTypes
  <2> HIDE DEF all, w, got
  <2>4. ReadSoFar(all, 0, got)
    BY <2>2, <2>3, CutIsRead
  <2>5. got \in Seq(Attr) /\ Len(got) \in Nat /\ Len(all) \in Nat /\ Len(got) <= Len(all)
    BY <2>3, <2>4 DEF ReadSoFar
  <2>6. ASSUME NEW i \in 1 .. Len(got)
        PROVE  /\ got[i].tag = all[i].tag /\ IsPrefix(got[i].value, all[i].value)
               /\ i < Len(got) => got[i] = all[i]
    <3>1. 0 + i = i /\ i \in 1 .. Len(all)
      BY <2>5
    <3>2. /\ got[i].tag = all[i].tag /\ PartOf(got[i].value, all[i].value)
          /\ i < Len(got) => got[i] = all[i]
      BY <2>4, <3>1 DEF ReadSoFar
    <3>3. all[i].value \in Seq(Byte)
      <4>1. all[i] \in Attr
        BY <2>3, <3>1
      <4> QED BY <4>1 DEF Attr
    <3>4. IsPrefix(got[i].value, all[i].value)
      <4> DEFINE x == got[i].value
                 y == all[i].value
      <4>1. x \in Seq(Byte) /\ Len(x) <= Len(y) /\ \A k \in 1 .. Len(x) : x[k] = y[k]
        BY <3>2 DEF PartOf
      <4> HIDE DEF x, y
      <4>2. y \in Seq(Byte)
        BY <3>3 DEF y
      <4>3. IsPrefix(x, y)
        BY <4>1, <4>2, PrefixOf
      <4> QED BY <4>3 DEF x, y
    <3> QED BY <3>2, <3>4
  <2>7. ASSUME ~w PROVE IsPrefix(sub, all)
    <3>1. WholeSoFar(all, 0, SubAttrs(b))
      BY <2>2, <2>3, <2>7, SubCutIsRead
    <3>2. sub = SubAttrs(b)
      BY <2>2
    <3> HIDE DEF sub
    <3>3. sub \in Seq(Attr) /\ Len(sub) <= Len(all) - 0 /\ \A k \in 1 .. Len(sub) : sub[k] = all[0 + k]
      BY <3>1, <3>2 DEF WholeSoFar
    <3>4. Len(sub) <= Len(all) /\ \A k \in 1 .. Len(sub) : sub[k] = all[k]
      <4>1. Len(all) - 0 = Len(all) /\ \A k \in 1 .. Len(sub) : 0 + k = k
        BY <2>5
      <4> QED BY <3>3, <4>1
    <3> QED BY <2>3, <3>3, <3>4, PrefixOf
  <2>8. Len(got) <= Len(all)
    BY <2>5
  <2> HIDE DEF sub
  <2> QED BY <2>6, <2>7, <2>8 DEF CutShortReadRight, got, all, w, sub
<1> QED BY <1>1, DatagramIsKnown, PTL
=============================================================================
