----------------------------- MODULE MCP2PWire -----------------------------
(***************************************************************************)
(* Instances of P2PWire: every list of at most two attributes over tags    *)
(* and values that look like each other's tags, lengths and end markers,   *)
(* under the four combinations of encryption and length form; lengths that *)
(* need two bytes; user ids around the wrap of the header length; sequence *)
(* numbers around the packet types.                                        *)
(***************************************************************************)
EXTENDS P2PWire, Bitwise

\* The sum of the bits that differ is the exclusive or; the checksum is CRC-8/MAXIM.
ASSUME XorIsBitwise == \A a, b \in Byte : XorByte[a][b] = a ^^ b
ASSUME CrcIsMaxim

SomeValues == {<<>>, <<7>>, <<255, 0>>}
SomeAttrs  == [tag : {5, 7, 255}, value : SomeValues]
Long       == [i \in 1 .. 256 |-> i % 256]
LongAttrs  == [tag : {5, 7}, value : {Long}]

Mask(enc, wide, salt) ==
    [encrypt |-> enc, saltVersion |-> salt % 3, saltIndex |-> salt, expandHeader |-> FALSE, is2bLen |-> wide]
SomeMasks == {Mask(enc, wide, 5) : enc \in BOOLEAN, wide \in BOOLEAN} \cup {Mask(FALSE, TRUE, 10)}

Lists == UNION {[1 .. n -> SomeAttrs] : n \in 0 .. 2} \cup {<<a>> : a \in LongAttrs}

SomeMessages ==
    [type : {2819}, seq : {<<65535, 1>>}, reserved : {25140}, mask : SomeMasks, attrs : Lists]

SomeUserIds == {[i \in 1 .. n |-> 65] : n \in {0, 3, 227, 228}}
SomeSeqNums == {0, 3584, 30003, 30004, 30005, 32767} \X {0, 65535}
=============================================================================
