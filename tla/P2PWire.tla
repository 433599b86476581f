------------------------------ MODULE P2PWire ------------------------------
(***************************************************************************)
(* The bytes of the P2P datagrams: the V3 codec (p2p/v3.py), the messages  *)
(* p2p/session.py frames by hand, and the way _handle_packet routes what   *)
(* arrives.                                                                *)
(*                                                                         *)
(* A datagram is built, then arrives intact, with a byte changed, or with  *)
(* a body shorter than its lengths say.  Bytes have their eight bits; a    *)
(* 32-bit number is the pair of its halves.                                *)
(***************************************************************************)
EXTENDS Integers, Sequences, SequencesExt

CONSTANTS
    Messages,  \* v3.Message values sent
    UserIds,   \* user ids, as bytes, of play requests
    SeqNums,   \* SRT sequence numbers of data packets
    Changes,   \* bits that change in a byte
    MaxChanged, \* bound: bytes of a message that is changed or cut
    Key        \* the key both sides use

Byte == 0 .. 255

LargeData == 7
EndMarker == 255
SetUpType == 30004  \* 0x7534
HeaderLen == 12
Block     == 16

Half == {n \in Nat : n < 65536}
Attr == [tag : Byte, value : Seq(Byte)]
Masks == [encrypt : BOOLEAN, saltVersion : Int, saltIndex : Int,
          expandHeader : BOOLEAN, is2bLen : BOOLEAN]

ASSUME P2PWireAssumption ==
    /\ Key \in Byte /\ Changes \subseteq Byte \ {0} /\ MaxChanged \in Nat
    /\ \A m \in Messages :
          m \in [type : Half, seq : Half \X Half, reserved : Half, mask : Masks, attrs : Seq(Attr)]
    /\ \A s \in SeqNums : s \in Half \X Half /\ s[1] < 32768
    /\ \A u \in UserIds : u \in Seq(Byte) /\ Len(u) < 256

\* The bit of weight w.
Bit(x, w) == (x \div w) % 2
Flag(b)   == IF b THEN 1 ELSE 0
Hi(n)     == n \div 256
Lo(n)     == n % 256
U32(p)    == <<Hi(p[1]), Lo(p[1]), Hi(p[2]), Lo(p[2])>>
Num(b, i) == 256 * b[i] + b[i + 1]

-----------------------------------------------------------------------------
(***************************************************************************)
(* The checksum, in the reverse-engineered form of the code and in that of *)
(* CRC-8/MAXIM: bit by bit, the reflected polynomial 0x8C.                 *)
(***************************************************************************)
XorBit(a, b, w) == IF Bit(a, w) = Bit(b, w) THEN 0 ELSE w

XorByte == [a \in Byte |-> [b \in Byte |->
    XorBit(a, b, 1) + XorBit(a, b, 2) + XorBit(a, b, 4) + XorBit(a, b, 8)
    + XorBit(a, b, 16) + XorBit(a, b, 32) + XorBit(a, b, 64) + XorBit(a, b, 128)]]

Turn(c, bit) == IF c % 2 = bit THEN c \div 2 ELSE XorByte[c \div 2 + 128][12]

CrcStep == [x \in Byte |->
    LET low  == XorByte[Bit(x, 1) * 35][XorByte[Bit(x, 2) * 70][Bit(x, 4) * 140]]
        bit3 == IF low % 2 = Bit(x, 8) THEN low \div 2 ELSE XorByte[low \div 2][140]
    IN Turn(Turn(Turn(Turn(bit3, Bit(x, 16)), Bit(x, 32)), Bit(x, 64)), Bit(x, 128))]

\* What the loop returns from where i bytes are done.
CrcLoop(s) ==
    LET loop[i \in 0 .. Len(s)] == [crc \in Byte |->
          IF i = Len(s) THEN crc ELSE loop[i + 1][CrcStep[XorByte[s[i + 1]][crc]]]]
    IN loop

\* Mutant: the header is left out.
CrcOfBody(s) == CrcLoop(s)[HeaderLen][0]

Crc8(s) == CrcLoop(s)[0][0]

MaximBit(c) == IF c % 2 = 1 THEN XorByte[c \div 2][140] ELSE c \div 2

MaximStep == [x \in Byte |->
    MaximBit(MaximBit(MaximBit(MaximBit(MaximBit(MaximBit(MaximBit(MaximBit(x))))))))]

\* So the checksum is CRC-8/MAXIM, although its docstring calls it "Not a standard
\* polynomial CRC" (v3.py:125-130).
CrcIsMaxim == CrcStep = MaximStep /\ CrcStep \in [Byte -> Byte]

-----------------------------------------------------------------------------
(***************************************************************************)
(* Attributes: tag, length, value.  Tag 0x07 has a two-byte length when    *)
(* the mask says so.                                                       *)
(***************************************************************************)
Wide(tag, is2bLen) == tag = LargeData /\ is2bLen

\* A length that does not fit raises ValueError or struct.error.
LengthFits(a, is2bLen) == IF Wide(a.tag, is2bLen) THEN Len(a.value) <= 65535 ELSE Len(a.value) <= 255

Fits(attrs, is2bLen) == \A i \in 1 .. Len(attrs) : LengthFits(attrs[i], is2bLen)

EncodeAttr(a, is2bLen) ==
    (IF Wide(a.tag, is2bLen) THEN <<a.tag, Hi(Len(a.value)), Lo(Len(a.value))>>
                             ELSE <<a.tag, Len(a.value)>>) \o a.value

\* out, after each attribute.
Encodings(attrs, is2bLen) ==
    LET out[i \in 0 .. Len(attrs)] == IF i = 0 THEN <<>> ELSE out[i - 1] \o EncodeAttr(attrs[i], is2bLen)
    IN out

EncodeAttrs(attrs, is2bLen) == Encodings(attrs, is2bLen)[Len(attrs)]

\* Mutant: every length is read as one byte.
NarrowHead(b, off, is2bLen) == 2

\* The attribute at offset off: how long its tag and length are, where its value ends.
HeadLen(b, off, is2bLen) == IF Wide(b[off], is2bLen) THEN 3 ELSE 2

ValueLen(b, off, is2bLen) == IF HeadLen(b, off, is2bLen) = 3 THEN Num(b, off + 1) ELSE b[off + 1]

After(b, off, is2bLen) ==
    LET end == off + HeadLen(b, off, is2bLen) + ValueLen(b, off, is2bLen)
    IN IF end <= Len(b) THEN end ELSE Len(b) + 1

AttrAt(b, off, is2bLen) ==
    [tag |-> b[off], value |-> SubSeq(b, off + HeadLen(b, off, is2bLen), After(b, off, is2bLen) - 1)]

\* What is read from each offset: an empty 0xFF ends the list; a value cut short is taken
\* as far as it goes.
Readings(b, is2bLen) ==
    LET attrs[off \in 1 .. Len(b) + 1] ==
          IF off > Len(b) THEN <<>>
          ELSE IF off + HeadLen(b, off, is2bLen) > Len(b) + 1 THEN <<>>
          ELSE IF b[off] = EndMarker /\ b[off + 1] = 0 THEN <<[tag |-> EndMarker, value |-> <<>>]>>
          ELSE <<AttrAt(b, off, is2bLen)>> \o attrs[After(b, off, is2bLen)]
    IN attrs

DecodeAttrs(b, is2bLen) == Readings(b, is2bLen)[1]

\* The attributes inside the 0xFF of a set-up response, which its handler reads itself:
\* a value cut short ends them.
SubReadings(b) ==
    LET attrs[off \in 1 .. Len(b) + 1] ==
          IF off + 1 > Len(b) THEN <<>>
          ELSE IF off + 1 + b[off + 1] > Len(b) THEN <<>>
          ELSE <<AttrAt(b, off, FALSE)>> \o attrs[After(b, off, FALSE)]
    IN attrs

SubAttrs(b) == SubReadings(b)[1]

-----------------------------------------------------------------------------
(***************************************************************************)
(* Encryption.  The cipher stands for AES-CBC: for each key a permutation  *)
(* of the bytes of whole blocks.                                           *)
(***************************************************************************)
Cipher(b, key, sign) == [i \in 1 .. Len(b) |-> (b[i] + 256 + sign * key) % 256]

\* Mutant: no padding when the body fills its last block.
PadShort(b) == LET pad == (Block - (Len(b) % Block)) % Block IN b \o [i \in 1 .. pad |-> pad]

Pad(b) == LET pad == Block - (Len(b) % Block) IN b \o [i \in 1 .. pad |-> pad]

Padded(b) ==
    /\ b # <<>> /\ Len(b) % Block = 0
    /\ Last(b) \in 1 .. Block
    /\ \A i \in Len(b) - Last(b) + 1 .. Len(b) : b[i] = Last(b)

AesEncrypt(b, key) == Cipher(Pad(b), key, 1)

-----------------------------------------------------------------------------
MaskByte(m) ==
    128 * Flag(m.encrypt) + 64 * (m.saltVersion % 2) + 8 * (m.saltIndex % 8)
    + 4 * Flag(m.expandHeader) + 2 * Flag(m.is2bLen)

MaskOf(b) == [encrypt |-> Bit(b, 128) = 1, saltVersion |-> Bit(b, 64), saltIndex |-> (b \div 8) % 8,
              expandHeader |-> Bit(b, 4) = 1, is2bLen |-> Bit(b, 2) = 1]

Header(type, seq, reserved, mask, headerLen) ==
    <<226, MaskByte(mask), Hi(type), Lo(type), Hi(seq[1]), Lo(seq[1]), Hi(seq[2]), Lo(seq[2]),
      Hi(reserved), Lo(reserved), headerLen, 0>>

Stamp(full) == [full EXCEPT ![12] = Crc8(full)]

EncodeMessage(m, key) ==
    LET body == EncodeAttrs(m.attrs, m.mask.is2bLen)
    IN Stamp(Header(m.type, m.seq, m.reserved, m.mask, HeaderLen)
             \o (IF m.mask.encrypt THEN AesEncrypt(body, key) ELSE body))

Error == [ok |-> FALSE]

\* The message of a header; its attributes are still to come.
HeaderOf(b) ==
    [type |-> Num(b, 3), seq |-> <<Num(b, 5), Num(b, 7)>>, reserved |-> Num(b, 9),
     mask |-> MaskOf(b[2]), attrs |-> <<>>]

DecodeBody(m, body) ==
    [ok |-> TRUE, msg |-> [m EXCEPT !.attrs = DecodeAttrs(body, m.mask.is2bLen)]]

Decrypted(m, body, key) ==
    LET dec == Cipher(body, key, -1)
    IN IF ~m.mask.encrypt THEN DecodeBody(m, body)
       ELSE IF Padded(dec) THEN DecodeBody(m, SubSeq(dec, 1, Len(dec) - Last(dec)))
       ELSE Error

DecodeMessage(b, key) ==
    IF \/ Len(b) < HeaderLen \/ b[1] \div 16 # 14
       \/ Crc8([b EXCEPT ![12] = 0]) # b[12] \/ b[11] > Len(b) THEN Error
    ELSE Decrypted(HeaderOf(b), SubSeq(b, b[11] + 1, Len(b)), key)

-----------------------------------------------------------------------------
(***************************************************************************)
(* session.py: the play request, with an expand header that holds the      *)
(* user id, and the routing of what arrives.                               *)
(***************************************************************************)
PlayBody == <<[tag |-> 118, value |-> <<1>>], [tag |-> 119, value |-> <<0, 1>>]>>
PlayMask == [encrypt |-> TRUE, saltVersion |-> 1, saltIndex |-> 3, expandHeader |-> TRUE, is2bLen |-> TRUE]

ExpandHeader(uid) ==
    EncodeAttrs(<<[tag |-> 0, value |-> <<0, 1>>], [tag |-> 1, value |-> uid],
                  [tag |-> 2, value |-> <<0, 0, 0, 1>>], [tag |-> 3, value |-> <<0, 1>>]>>, FALSE)

\* Mutant: the length of the fixed header alone.
InnerFixed(uid, key) ==
    Stamp(Header(3074, <<0, 1>>, 25140, PlayMask, HeaderLen) \o ExpandHeader(uid)
          \o AesEncrypt(EncodeAttrs(PlayBody, FALSE), key))

InnerMessage(uid, key) ==
    Stamp(Header(3074, <<0, 1>>, 25140, PlayMask, (HeaderLen + Len(ExpandHeader(uid))) % 256)
          \o ExpandHeader(uid) \o AesEncrypt(EncodeAttrs(PlayBody, FALSE), key))

DataPacket(s) == U32(s) \o [i \in 1 .. 12 |-> 0]

\* Mutant: the magic is looked for in the lower half of the byte.
RouteLow(b, up) ==
    IF Len(b) < 2 THEN "dropped"
    ELSE IF b[1] % 16 = 14 /\ Len(b) >= HeaderLen THEN "v3"
    ELSE IF Len(b) >= 16 /\ b[1] < 128 /\ up THEN "data"
    ELSE "dropped"

\* _handle_packet; up: the data session is.
Route(b, up) ==
    LET t == Num(b, 1) IN
    IF Len(b) < 2 THEN "dropped"
    ELSE IF b[1] \div 16 = 14 /\ Len(b) >= HeaderLen THEN "v3"
    ELSE IF t = 32769 THEN "keepalive"                                   \* 0x8001
    ELSE IF t \in {32770, 32771, 32773, 32774} THEN "dropped"
    ELSE IF t = SetUpType THEN "setup"
    ELSE IF t = 32768 THEN "handshake"                                   \* 0x8000
    ELSE IF Len(b) >= 16 /\ b[1] < 128 /\ up THEN "data"
    ELSE "dropped"

-----------------------------------------------------------------------------
VARIABLES
    sent,  \* what is sent
    wire,  \* its bytes; none when it cannot be encoded
    fate   \* what becomes of them: "intact", "changed" or "cut"

vars == <<sent, wire, fate>>

Sent == [is : {"message"}, of : Messages] \cup [is : {"play"}, of : UserIds]
        \cup [is : {"data"}, of : SeqNums]

Encoded(s) ==
    CASE s.is = "message" -> IF Fits(s.of.attrs, s.of.mask.is2bLen) THEN EncodeMessage(s.of, Key) ELSE <<>>
      [] s.is = "play"    -> InnerMessage(s.of, Key)
      [] s.is = "data"    -> DataPacket(s.of)

Init == sent \in Sent /\ wire = Encoded(sent) /\ fate = "intact"

ChangeByte ==
    /\ fate = "intact" /\ sent.is # "data" /\ Len(wire) <= MaxChanged
    /\ \E i \in 1 .. Len(wire), c \in Changes : wire' = [wire EXCEPT ![i] = XorByte[@][c]]
    /\ fate' = "changed" /\ UNCHANGED sent

\* A sender whose body ends too soon, with a checksum of what it sends.
CutBody ==
    /\ fate = "intact" /\ sent.is = "message" /\ ~sent.of.mask.encrypt /\ Len(wire) <= MaxChanged
    /\ \E n \in HeaderLen .. Len(wire) - 1 :
          wire' = Stamp([SubSeq(wire, 1, n) EXCEPT ![12] = 0])
    /\ fate' = "cut" /\ UNCHANGED sent

Next == ChangeByte \/ CutBody

Spec == Init /\ [][Next]_vars

-----------------------------------------------------------------------------
\* What a mask byte has room for.
Carried(m) == [encrypt |-> m.encrypt, saltVersion |-> m.saltVersion % 2, saltIndex |-> m.saltIndex % 8,
               expandHeader |-> m.expandHeader, is2bLen |-> m.is2bLen]

\* The attributes up to an empty 0xFF, if there is one.
UpToEnd(attrs) ==
    LET ends == {i \in 1 .. Len(attrs) : attrs[i].tag = EndMarker /\ attrs[i].value = <<>>}
    IN IF ends = {} THEN attrs ELSE SubSeq(attrs, 1, CHOOSE i \in ends : \A j \in ends : i <= j)

Received(m) == [type |-> m.type, seq |-> m.seq, reserved |-> m.reserved,
                mask |-> Carried(m.mask), attrs |-> UpToEnd(m.attrs)]

(***************************************************************************)
(* decode_message undoes encode_message: fields, flags, salts cut to their *)
(* bits, and the attributes up to an end marker, encrypted or not and with *)
(* either form of length (v3.py:248-311).                                  *)
(***************************************************************************)
RoundTrip ==
    fate = "intact" /\ sent.is = "message" /\ wire # <<>> =>
        DecodeMessage(wire, Key) = [ok |-> TRUE, msg |-> Received(sent.of)]

(***************************************************************************)
(* A message with one byte changed, in whatever bits, is never taken       *)
(* (v3.py:290-297).                                                        *)
(***************************************************************************)
ByteChangeCaught == fate = "changed" => ~DecodeMessage(wire, Key).ok

(***************************************************************************)
(* A body that ends too soon yields the attributes sent, in their order,   *)
(* the last of them perhaps cut short, and nothing else (v3.py:184-213);   *)
(* the set-up response's own reader agrees on those that are whole, and    *)
(* takes no port from an address cut short (session.py:611-634).           *)
(***************************************************************************)
CutShortReadRight ==
    fate = "cut" =>
        LET got == DecodeMessage(wire, Key).msg.attrs
            all == sent.of.attrs
        IN /\ Len(got) <= Len(all)
           /\ \A i \in 1 .. Len(got) :
                 /\ got[i].tag = all[i].tag /\ IsPrefix(got[i].value, all[i].value)
                 /\ i < Len(got) => got[i] = all[i]
           /\ ~sent.of.mask.is2bLen =>
                 IsPrefix(SubAttrs(SubSeq(wire, HeaderLen + 1, Len(wire))), all)

(***************************************************************************)
(* The reader of a play request finds its body behind the expand header,   *)
(* as long as the user id has at most 227 bytes: with more, the length of  *)
(* the header wraps (session.py:416-435).                                  *)
(***************************************************************************)
PlayIsRead ==
    fate = "intact" /\ sent.is = "play" /\ Len(sent.of) <= 227 =>
        LET d == DecodeMessage(wire, Key) IN d.ok /\ d.msg.attrs = PlayBody

Destination(s) == IF s.is # "data" THEN "v3" ELSE IF s.of[1] = SetUpType THEN "setup" ELSE "data"

(***************************************************************************)
(* Every message goes to the V3 handler, and every data packet of a        *)
(* session that is up to the window, except those whose sequence number    *)
(* has 0x7534 for its upper half: they look like the device's set-up       *)
(* (session.py:517-547).                                                   *)
(***************************************************************************)
RoutedRight == fate = "intact" /\ wire # <<>> => Route(wire, TRUE) = Destination(sent)
=============================================================================
