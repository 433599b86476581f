------------------------------- MODULE HikRtp -------------------------------
(***************************************************************************)
(* The HIK-RTP depacketizer (p2p/hikrtp.py, HikRTPExtractor): it turns the *)
(* video payloads the receive window lets through into H.265 NAL units.    *)
(*                                                                         *)
(* The device sends units 1, 2, ... of six kinds: a NAL in one payload,    *)
(* several length-prefixed NALs in one payload, a NAL cut into             *)
(* fragmentation units (FU, RFC 7798), a NAL of FU type too short for one, *)
(* a NAL of a type that is dropped, and payloads that carry no video.      *)
(* Payload <<u, f>> is the f-th of unit u.  Any of them may be lost.       *)
(***************************************************************************)
EXTENDS Naturals, Sequences, FiniteSets, SequencesExt

CONSTANTS
    Units,    \* what the device sends: a sequence of [kind, size]
    InOrder,  \* are payloads fed in the order they were sent?
    NoUnit

Kinds == {"nal", "prefixed", "fu", "stub", "dropped", "other"}

ASSUME HikRtpAssumption ==
    /\ Units \in Seq([kind : Kinds, size : Nat \ {0}])
    /\ InOrder \in BOOLEAN
    /\ NoUnit \notin DOMAIN Units

Kind(p) == Units[p[1]].kind

\* The fragments of an FU come in as many payloads, all else in one.
PayloadsOf(u) ==
    [f \in 1 .. IF Units[u].kind = "fu" THEN Units[u].size ELSE 1 |-> <<u, f>>]

Payloads == UNION {ToSet(PayloadsOf(u)) : u \in DOMAIN Units}

IsStart(p) == p[2] = 1
IsEnd(p)   == p[2] = Units[p[1]].size

Before(p, q) == p[1] < q[1] \/ (p[1] = q[1] /\ p[2] < q[2])

VARIABLES
    fed,        \* the payloads process() was called with
    header,     \* _fu_nal_header: the unit it was taken from
    fragments,  \* _fu_fragments
    emitted     \* the NAL units returned: [header, parts]

vars == <<fed, header, fragments, emitted>>

Init ==
    /\ fed = <<>>
    /\ header = NoUnit
    /\ fragments = <<>>
    /\ emitted = <<>>

-----------------------------------------------------------------------------
NAL(h, parts) == [header |-> h, parts |-> parts]

\* _flush followed by _reset_fu.  _fu_complete holds only within the call
\* that received an End, so elsewhere a flush discards.
Discard == /\ header' = NoUnit
           /\ fragments' = <<>>

\* A payload without video.
Skip(p) ==
    /\ Kind(p) = "other"
    /\ UNCHANGED <<header, fragments, emitted>>

\* A unit that is not an FU.  An FU in progress had no End: it is discarded.
\* Fragments without a header stay.
Interrupt == IF header # NoUnit THEN Discard ELSE UNCHANGED <<header, fragments>>

\* Of no type that is let through, or invalid.
Drop(p) ==
    /\ Kind(p) = "dropped"
    /\ Interrupt
    /\ UNCHANGED emitted

\* Of FU type without an FU header: passed through, and no end to an FU.
Stub(p) ==
    /\ Kind(p) = "stub"
    /\ emitted' = Append(emitted, NAL(p[1], <<p>>))
    /\ UNCHANGED <<header, fragments>>

SingleNal(p) ==
    /\ Kind(p) = "nal"
    /\ Interrupt
    /\ emitted' = Append(emitted, NAL(p[1], <<p>>))

Prefixed(p) ==
    /\ Kind(p) = "prefixed"
    /\ Interrupt
    /\ emitted' = emitted \o [i \in 1 .. Units[p[1]].size |-> NAL(p[1], <<p>>)]

\* Mutant: a Start keeps the fragments of the unit before it.
StartAppends(p) ==
    <<IF IsStart(p) THEN p[1] ELSE header, Append(fragments, p)>>

\* Mutant: a missing header is taken from any fragment.
HeaderFromAny(p) ==
    IF IsStart(p) \/ header = NoUnit THEN <<p[1], <<p>>>>
                                     ELSE <<header, Append(fragments, p)>>

\* A Start drops what was pending, any other fragment goes to its end,
\* whatever unit that belongs to.
Collect(p) == IF IsStart(p) THEN <<p[1], <<p>>>>
                            ELSE <<header, Append(fragments, p)>>

\* Mutant: the FU is not reset after its End.
EndKeeps(p, h, parts) ==
    /\ header' = h
    /\ fragments' = parts
    /\ emitted' = IF IsEnd(p) /\ h # NoUnit THEN Append(emitted, NAL(h, parts))
                                            ELSE emitted

Complete(p, h, parts) ==
    IF IsEnd(p)
    THEN /\ Discard
         /\ emitted' = IF h = NoUnit THEN emitted
                                     ELSE Append(emitted, NAL(h, parts))
    ELSE /\ header' = h
         /\ fragments' = parts
         /\ UNCHANGED emitted

Fragment(p) ==
    /\ Kind(p) = "fu"
    /\ Complete(p, Collect(p)[1], Collect(p)[2])

\* HikRTPExtractor.process of a payload.
Process(p) ==
    /\ p \notin ToSet(fed)
    /\ (InOrder /\ fed # <<>>) => Before(Last(fed), p)
    /\ fed' = Append(fed, p)
    /\ \/ Skip(p) \/ Drop(p) \/ Stub(p)
       \/ SingleNal(p) \/ Prefixed(p) \/ Fragment(p)

Next == \E p \in Payloads : Process(p)

Spec == Init /\ [][Next]_vars

-----------------------------------------------------------------------------
(***************************************************************************)
(* Properties.                                                             *)
(***************************************************************************)

\* A header is there together with its Start fragment.
TypeOK ==
    /\ fed \in Seq(Payloads)
    /\ header \in DOMAIN Units \cup {NoUnit}
    /\ fragments \in Seq(Payloads)
    /\ emitted \in Seq([header : DOMAIN Units, parts : Seq(Payloads)])
    /\ header # NoUnit => fragments # <<>> /\ fragments[1] = <<header, 1>>

\* A NAL carries the header of the unit its first fragment starts, whatever
\* was lost or swapped: fragments that wait without a header never lead one.
BeginsAtStart ==
    \A i \in DOMAIN emitted : emitted[i].parts[1] = <<emitted[i].header, 1>>

\* No payload goes into two NALs, unless it holds several: what an End has
\* completed and what a flush has discarded is gone.
UsedOnce ==
    \A i, j \in DOMAIN emitted : i # j =>
        \/ emitted[i].header = emitted[j].header
             /\ Units[emitted[i].header].kind = "prefixed"
        \/ ToSet(emitted[i].parts) \cap ToSet(emitted[j].parts) = {}

\* NALs a unit holds.
NalsIn(u) == CASE Units[u].kind \in {"other", "dropped"} -> 0
               [] Units[u].kind = "prefixed"            -> Units[u].size
               [] OTHER                                 -> 1

\* The NALs that hold a unit and nothing else.
WholeNALs(u) == {i \in DOMAIN emitted : emitted[i] = NAL(u, PayloadsOf(u))}

\* When payloads come in order, a unit that lost no payload is emitted
\* whole, once per NAL in it: what was lost of its neighbours does not hurt
\* it.
IntactUnitsSurvive ==
    InOrder => \A u \in DOMAIN Units :
        ToSet(PayloadsOf(u)) \subseteq ToSet(fed) => Cardinality(WholeNALs(u)) = NalsIn(u)

\* A NAL mixes payloads of two units only when both the End of the one and the
\* Start of the other were lost: either of them alone keeps the units apart
\* (hikrtp.py:155-173).
MixedOnlyAcrossTwoLosses ==
    InOrder => \A i \in DOMAIN emitted : \A p \in ToSet(emitted[i].parts) :
        LET u == emitted[i].header IN
        p[1] # u => <<u, Units[u].size>> \notin ToSet(fed) /\ <<p[1], 1>> \notin ToSet(fed)
=============================================================================
