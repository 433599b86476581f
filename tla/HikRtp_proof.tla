---------------------------- MODULE HikRtp_proof ----------------------------
(***************************************************************************)
(* For any units the device sends and any payloads lost: a NAL begins at   *)
(* the Start of the unit its header is from, and no fragment is used       *)
(* twice, in any order of the payloads (IInv, UInv); in the order sent, a  *)
(* NAL of two units lacks the End of one and the Start of the other (MInv),*)
(* and a unit that lost nothing is emitted whole, once (SInv).             *)
(***************************************************************************)
EXTENDS HikRtp, SequenceTheorems, FiniteSetTheorems, TLAPS

\* NALs that begin where they should.
GoodNAL == {e \in [header : DOMAIN Units, parts : Seq(Payloads)] :
                e.parts[1] = <<e.header, 1>>}

IInv == TypeOK /\ emitted \in Seq(GoodNAL)

-----------------------------------------------------------------------------
LEMMA PayloadShape ==
    ASSUME NEW p \in Payloads
    PROVE  /\ p = <<p[1], p[2]>> /\ p[1] \in DOMAIN Units
           /\ IsStart(p) => p = <<p[1], 1>>
           /\ Kind(p) # "fu" => p = <<p[1], 1>>
<1>1. PICK u \in DOMAIN Units : p \in ToSet(PayloadsOf(u))
  BY DEF Payloads
<1>2. PICK f \in 1 .. (IF Units[u].kind = "fu" THEN Units[u].size ELSE 1) : p = <<u, f>>
  BY <1>1 DEF PayloadsOf, ToSet
<1>3. Kind(p) # "fu" => f = 1
  BY <1>2 DEF Kind
<1> QED BY <1>2, <1>3 DEF IsStart

LEMMA UnitSize == ASSUME NEW u \in DOMAIN Units PROVE Units[u].size \in Nat \ {0}
<1>1. Units \in Seq([kind : Kinds, size : Nat \ {0}])
  BY HikRtpAssumption DEF HikRtpAssumption
<1> DEFINE Unit == [kind : Kinds, size : Nat \ {0}]
<1>2. Units[u] \in Unit
  <2> HIDE DEF Unit
  <2>1. Units \in Seq(Unit)
    BY <1>1 DEF Unit
  <2>2. DOMAIN Units = 1 .. Len(Units)
    BY <2>1, LenProperties
  <2> QED BY <2>1, <2>2, ElementOfSeq
<1> QED BY <1>2

\* A payload that is not part of an FU makes a good NAL.
LEMMA WholeNAL ==
    ASSUME NEW p \in Payloads, Kind(p) # "fu"
    PROVE  NAL(p[1], <<p>>) \in GoodNAL
<1>1. p = <<p[1], 1>> /\ p[1] \in DOMAIN Units
  BY PayloadShape
<1>2. <<p>> \in Seq(Payloads) /\ <<p>>[1] = p
  OBVIOUS
<1> QED BY <1>1, <1>2 DEF NAL, GoodNAL

\* What is collected begins with the Start of its header, and is never empty.
LEMMA CollectsFromStart ==
    ASSUME TypeOK, NEW p \in Payloads, NEW h, NEW parts,
           h = Collect(p)[1], parts = Collect(p)[2]
    PROVE  /\ h \in DOMAIN Units \cup {NoUnit} /\ parts \in Seq(Payloads)
           /\ h # NoUnit => parts # <<>> /\ parts[1] = <<h, 1>>
<1>1. CASE IsStart(p)
  <2>1. h = p[1] /\ parts = <<p>>
    BY <1>1 DEF Collect
  <2>2. p = <<p[1], 1>> /\ p[1] \in DOMAIN Units
    BY <1>1, PayloadShape
  <2> QED BY <2>1, <2>2
<1>2. CASE ~ IsStart(p)
  <2>1. h = header /\ parts = Append(fragments, p)
    BY <1>2 DEF Collect
  <2>2. /\ fragments \in Seq(Payloads) /\ header \in DOMAIN Units \cup {NoUnit}
        /\ header # NoUnit => fragments # <<>> /\ fragments[1] = <<header, 1>>
    BY DEF TypeOK
  <2>3. parts \in Seq(Payloads) /\ parts # <<>>
    BY <2>1, <2>2, AppendProperties
  <2>4. fragments # <<>> => parts[1] = fragments[1]
    BY <2>1, <2>2, AppendProperties, EmptySeq
  <2> QED BY <2>1, <2>2, <2>3, <2>4
<1> QED BY <1>1, <1>2

LEMMA SeqOfSubset ==
    ASSUME NEW S, NEW T, S \subseteq T, NEW es \in Seq(S)
    PROVE  es \in Seq(T)
<1>1. Len(es) \in Nat /\ es \in [1 .. Len(es) -> S]
  BY LenProperties
<1>2. es \in [1 .. Len(es) -> T]
  BY <1>1
<1> QED BY <1>1, <1>2

LEMMA GoodIsTyped ==
    ASSUME NEW es \in Seq(GoodNAL)
    PROVE  es \in Seq([header : DOMAIN Units, parts : Seq(Payloads)])
<1>1. GoodNAL \subseteq [header : DOMAIN Units, parts : Seq(Payloads)]
  BY DEF GoodNAL
<1> DEFINE Typed == [header : DOMAIN Units, parts : Seq(Payloads)]
<1> HIDE DEF Typed
<1>2. GoodNAL \subseteq Typed
  BY <1>1 DEF Typed
<1>3. es \in Seq(Typed)
  BY <1>2, SeqOfSubset
<1> QED BY <1>3 DEF Typed

-----------------------------------------------------------------------------
\* A unit that is not an FU leaves an FU in progress or drops it.
LEMMA Interrupts ==
    ASSUME TypeOK, Interrupt
    PROVE  /\ header' \in DOMAIN Units \cup {NoUnit} /\ fragments' \in Seq(Payloads)
           /\ header' # NoUnit => fragments' # <<>> /\ fragments'[1] = <<header', 1>>
<1>1. CASE header # NoUnit
  <2>1. header' = NoUnit /\ fragments' = <<>>
    BY <1>1 DEF Interrupt, Discard
  <2> QED BY <2>1
<1>2. CASE header = NoUnit
  <2>1. header' = header /\ fragments' = fragments
    BY <1>2 DEF Interrupt
  <2> QED BY <2>1 DEF TypeOK
<1> QED BY <1>1, <1>2

LEMMA Initial == Init => IInv
BY DEF Init, IInv, TypeOK

LEMMA Inductive == IInv /\ [Next]_vars => IInv'
<1> SUFFICES ASSUME IInv, [Next]_vars PROVE IInv'
  OBVIOUS
<1>1. CASE UNCHANGED vars
  BY <1>1 DEF vars, IInv, TypeOK
<1>2. CASE Next
  <2>1. PICK p \in Payloads : Process(p)
    BY <1>2 DEF Next
  <2> DEFINE FU(h, parts) ==
        /\ h \in DOMAIN Units \cup {NoUnit} /\ parts \in Seq(Payloads)
        /\ h # NoUnit => parts # <<>> /\ parts[1] = <<h, 1>>
  <2>2. fed' \in Seq(Payloads)
    BY <2>1 DEF Process, IInv, TypeOK
  <2>3. SUFFICES FU(header', fragments') /\ emitted' \in Seq(GoodNAL)
    BY <2>2, GoodIsTyped DEF IInv, TypeOK
  <2>4. CASE Skip(p)
    BY <2>4 DEF Skip, IInv, TypeOK
  <2>8. CASE Drop(p)
    BY <2>8, Interrupts DEF Drop, IInv
  <2>9. CASE Stub(p)
    <3>1. NAL(p[1], <<p>>) \in GoodNAL
      BY <2>9, WholeNAL DEF Stub
    <3> QED BY <2>9, <3>1 DEF Stub, IInv, TypeOK
  <2>5. CASE SingleNal(p)
    <3>1. NAL(p[1], <<p>>) \in GoodNAL
      BY <2>5, WholeNAL DEF SingleNal
    <3>2. emitted' \in Seq(GoodNAL)
      BY <2>5, <3>1 DEF SingleNal, IInv
    <3> QED BY <2>5, <3>2, Interrupts DEF SingleNal, IInv
  <2>6. CASE Prefixed(p)
    <3> DEFINE es == [i \in 1 .. Units[p[1]].size |-> NAL(p[1], <<p>>)]
    <3>1. NAL(p[1], <<p>>) \in GoodNAL /\ Units[p[1]].size \in Nat
      BY <2>6, WholeNAL, PayloadShape, UnitSize DEF Prefixed
    <3>2. es \in Seq(GoodNAL)
      BY <3>1
    <3>3. emitted' = emitted \o es
      BY <2>6 DEF Prefixed
    <3>4. emitted' \in Seq(GoodNAL)
      <4> HIDE DEF es
      <4> QED BY <3>2, <3>3, ConcatProperties DEF IInv
    <3> QED BY <2>6, <3>4, Interrupts DEF Prefixed, IInv
  <2>7. CASE Fragment(p)
    <3> DEFINE h == Collect(p)[1]
               parts == Collect(p)[2]
    <3>1. FU(h, parts)
      BY CollectsFromStart DEF IInv
    <3>2. Complete(p, h, parts)
      BY <2>7 DEF Fragment
    <3> HIDE DEF h, parts
    <3>3. CASE IsEnd(p)
      <4>1. header' = NoUnit /\ fragments' = <<>>
        BY <3>2, <3>3 DEF Complete, Discard
      <4>2. h # NoUnit => NAL(h, parts) \in GoodNAL
        BY <3>1 DEF NAL, GoodNAL
      <4>3. emitted' \in Seq(GoodNAL)
        BY <3>2, <3>3, <4>2 DEF Complete, IInv
      <4> QED BY <4>1, <4>3
    <3>4. CASE ~ IsEnd(p)
      BY <3>1, <3>2, <3>4 DEF Complete, IInv
    <3> QED BY <3>3, <3>4
  <2> QED BY <2>1, <2>4, <2>5, <2>6, <2>7, <2>8, <2>9 DEF Process
<1> QED BY <1>1, <1>2

\* The emitted NALs, the pending header and its fragments keep their types, and a
\* pending header always has its Start fragment (HikRTPExtractor).
THEOREM TypeCorrect == Spec => []TypeOK
<1>1. IInv => TypeOK
  BY DEF IInv
<1> QED BY <1>1, Initial, Inductive, PTL DEF Spec

\* A NAL never carries a header over fragments that another unit starts, whatever
\* was lost or reordered on the way (HikRTPExtractor.process).
THEOREM HeaderFitsStart == Spec => []BeginsAtStart
<1>1. IInv => BeginsAtStart
  <2> SUFFICES ASSUME IInv, NEW i \in DOMAIN emitted
               PROVE  emitted[i].parts[1] = <<emitted[i].header, 1>>
    BY DEF BeginsAtStart
  <2>1. emitted[i] \in GoodNAL
    BY ElementOfSeq DEF IInv
  <2> QED BY <2>1 DEF GoodNAL
<1> QED BY <1>1, Initial, Inductive, PTL DEF Spec

-----------------------------------------------------------------------------
(***************************************************************************)
(* Units are mixed only across two losses.  When payloads come in order, a *)
(* payload that was not fed before a later one never will be.              *)
(***************************************************************************)
Gone(q) == fed # <<>> /\ q \notin ToSet(fed) /\ Before(q, Last(fed))

Apart(h, p) == p[1] # h => Gone(<<h, Units[h].size>>) /\ Gone(<<p[1], 1>>)

\* The same after a step.
GoneNext(q) == fed' # <<>> /\ q \notin ToSet(fed') /\ Before(q, Last(fed'))
ApartNext(h, p) == p[1] # h => GoneNext(<<h, Units[h].size>>) /\ GoneNext(<<p[1], 1>>)

\* What was fed came before the last of it, ...
FedInv == \A q \in ToSet(fed) : q = Last(fed) \/ Before(q, Last(fed))

\* ... a pending header is that of an FU whose Start was fed and whose End was not, ...
HeaderInv ==
    header # NoUnit =>
        /\ Units[header].kind = "fu" /\ <<header, 1>> \in ToSet(fed)
        /\ <<header, Units[header].size>> \notin ToSet(fed)

\* ... it is pending as long as nothing but fragments of that unit come, ...
PendingInv ==
    fed # <<>> /\ Kind(Last(fed)) = "fu" /\ <<Last(fed)[1], 1>> \in ToSet(fed)
        /\ ~IsEnd(Last(fed)) => header = Last(fed)[1]

\* ... and what is collected or emitted is of its header's unit, or lost both ends.
FragmentsInv == header # NoUnit => \A p \in ToSet(fragments) : Apart(header, p)
EmittedInv ==
    \A i \in DOMAIN emitted : \A p \in ToSet(emitted[i].parts) : Apart(emitted[i].header, p)

MInv == IInv /\ FedInv /\ HeaderInv /\ PendingInv /\ FragmentsInv /\ EmittedInv

LEMMA PayloadNumbers ==
    ASSUME NEW p \in Payloads
    PROVE  /\ p[1] \in DOMAIN Units /\ p[1] \in Nat /\ p[2] \in Nat /\ p = <<p[1], p[2]>>
           /\ 1 <= p[2] /\ Units[p[1]].size \in Nat \ {0}
           /\ Kind(p) = "fu" => p[2] <= Units[p[1]].size
<1>1. PICK u \in DOMAIN Units : p \in ToSet(PayloadsOf(u))
  BY DEF Payloads
<1>2. PICK f \in 1 .. (IF Units[u].kind = "fu" THEN Units[u].size ELSE 1) : p = <<u, f>>
  BY <1>1 DEF PayloadsOf, ToSet
<1>3. DOMAIN Units \subseteq Nat
  <2>1. Units \in Seq([kind : Kinds, size : Nat \ {0}])
    BY HikRtpAssumption DEF HikRtpAssumption
  <2> DEFINE Unit == [kind : Kinds, size : Nat \ {0}]
  <2>2. Units \in Seq(Unit)
    BY <2>1
  <2> HIDE DEF Unit
  <2>3. DOMAIN Units = 1 .. Len(Units) /\ Len(Units) \in Nat
    BY <2>2, LenProperties
  <2> QED BY <2>3
<1>4. Units[u].size \in Nat \ {0}
  BY UnitSize
<1>5. Kind(p) = "fu" => f \in 1 .. Units[u].size
  BY <1>2 DEF Kind
<1>6. f \in Nat /\ 1 <= f
  BY <1>2, <1>4
<1>7. p[1] = u /\ p[2] = f /\ p = <<u, f>>
  BY <1>2
<1> QED BY <1>3, <1>4, <1>5, <1>6, <1>7

\* The set of a sequence grows by what is appended.
LEMMA AppendToSet ==
    ASSUME NEW S, NEW s \in Seq(S), NEW x \in S
    PROVE  ToSet(Append(s, x)) = ToSet(s) \cup {x} /\ Last(Append(s, x)) = x
<1>1. /\ Append(s, x) \in Seq(S) /\ Len(s) \in Nat /\ Len(Append(s, x)) = Len(s) + 1
      /\ Append(s, x)[Len(s) + 1] = x
      /\ \A i \in 1 .. Len(s) : Append(s, x)[i] = s[i]
      /\ DOMAIN s = 1 .. Len(s) /\ DOMAIN Append(s, x) = 1 .. Len(s) + 1
  BY AppendProperties, LenProperties
<1>2. Last(Append(s, x)) = x
  BY <1>1 DEF Last
<1>3. ASSUME NEW y \in ToSet(Append(s, x)) PROVE y \in ToSet(s) \cup {x}
  <2>1. PICK i \in 1 .. Len(s) + 1 : y = Append(s, x)[i]
    BY <1>1, <1>3 DEF ToSet
  <2>2. CASE i = Len(s) + 1
    BY <1>1, <2>1, <2>2
  <2>3. CASE i # Len(s) + 1
    <3>1. i \in 1 .. Len(s) /\ y = s[i]
      BY <1>1, <2>1, <2>3
    <3> QED BY <1>1, <3>1 DEF ToSet
  <2> QED BY <2>2, <2>3
<1>4. ASSUME NEW y \in ToSet(s) PROVE y \in ToSet(Append(s, x))
  <2>1. PICK i \in 1 .. Len(s) : y = s[i]
    BY <1>1, <1>4 DEF ToSet
  <2>2. i \in 1 .. Len(s) + 1 /\ Append(s, x)[i] = y
    BY <1>1, <2>1
  <2> QED BY <1>1, <2>2 DEF ToSet
<1>5. x \in ToSet(Append(s, x))
  <2>1. Len(s) + 1 \in 1 .. Len(s) + 1
    BY <1>1
  <2> QED BY <1>1, <2>1 DEF ToSet
<1> QED BY <1>2, <1>3, <1>4, <1>5

\* Before is a strict order on payloads and on the ends of units.
Place(q) == q = <<q[1], q[2]>> /\ q[1] \in Nat /\ q[2] \in Nat

LEMMA Order ==
    ASSUME NEW a, NEW b, NEW c, Place(a), Place(b), Place(c), Before(a, b)
    PROVE  a # b /\ ~Before(b, a) /\ (Before(b, c) => Before(a, c))
<1>1. a[1] \in Nat /\ a[2] \in Nat /\ b[1] \in Nat /\ b[2] \in Nat /\ c[1] \in Nat /\ c[2] \in Nat
  BY DEF Place
<1> QED BY <1>1 DEF Before

\* One step of process, seen from what was fed.
LEMMA Feeding ==
    ASSUME InOrder, IInv, FedInv, NEW p \in Payloads, Process(p)
    PROVE  /\ fed' # <<>> /\ Last(fed') = p /\ ToSet(fed') = ToSet(fed) \cup {p}
           /\ p \notin ToSet(fed) /\ FedInv'
           /\ \A q \in ToSet(fed) : q \in Payloads /\ Before(q, p)
           /\ \A q : Gone(q) /\ Place(q) => GoneNext(q)
<1>1. fed \in Seq(Payloads) /\ fed' = Append(fed, p) /\ p \notin ToSet(fed)
  BY DEF IInv, TypeOK, Process
<1>2. Last(fed') = p /\ ToSet(fed') = ToSet(fed) \cup {p}
  BY <1>1, AppendToSet
<1>3. fed' # <<>>
  BY <1>1, AppendProperties
<1>4. \A q \in ToSet(fed) : q \in Payloads
  BY <1>1, ElementOfSeq, LenProperties DEF ToSet
<1>5. fed # <<>> => Last(fed) \in Payloads /\ Before(Last(fed), p)
  <2>1. fed # <<>> => Before(Last(fed), p)
    BY DEF Process
  <2>2. fed # <<>> => Len(fed) \in 1 .. Len(fed)
    BY <1>1, LenProperties, EmptySeq
  <2> QED BY <1>1, <2>1, <2>2, ElementOfSeq DEF Last
<1>6. \A q \in Payloads : Place(q)
  BY PayloadNumbers DEF Place
<1>7. ASSUME NEW q \in ToSet(fed) PROVE Before(q, p)
  <2>1. fed # <<>>
    BY <1>7 DEF ToSet
  <2>2. q = Last(fed) \/ Before(q, Last(fed))
    BY DEF FedInv
  <2> QED BY <1>4, <1>5, <1>6, <2>1, <2>2, Order
<1>8. FedInv'
  BY <1>2, <1>7 DEF FedInv
<1>9. ASSUME NEW q, Gone(q), Place(q) PROVE GoneNext(q)
  <2>1. fed # <<>> /\ q \notin ToSet(fed) /\ Before(q, Last(fed))
    BY <1>9 DEF Gone
  <2>2. Before(q, p) /\ q # p
    BY <1>5, <1>6, <1>9, <2>1, Order
  <2> QED BY <1>2, <1>3, <2>1, <2>2 DEF GoneNext
<1> QED BY <1>1, <1>2, <1>3, <1>4, <1>7, <1>8, <1>9

\* What is apart stays apart.
LEMMA ApartStays ==
    ASSUME InOrder, IInv, FedInv, NEW p \in Payloads, Process(p),
           NEW h \in DOMAIN Units, NEW q \in Payloads, Apart(h, q)
    PROVE  ApartNext(h, q)
<1>1. h \in Nat /\ Units[h].size \in Nat
  <2>1. Units \in Seq([kind : Kinds, size : Nat \ {0}])
    BY HikRtpAssumption DEF HikRtpAssumption
  <2> DEFINE Unit == [kind : Kinds, size : Nat \ {0}]
  <2>2. Units \in Seq(Unit)
    BY <2>1
  <2> HIDE DEF Unit
  <2>3. DOMAIN Units = 1 .. Len(Units) /\ Len(Units) \in Nat
    BY <2>2, LenProperties
  <2> QED BY <2>3, UnitSize
<1>2. Place(<<h, Units[h].size>>) /\ Place(<<q[1], 1>>)
  BY <1>1, PayloadNumbers DEF Place
<1> QED BY <1>2, Feeding DEF Apart, ApartNext

\* A fragment that is not a Start finds its unit's header pending if its Start was fed.
LEMMA StartIsPending ==
    ASSUME InOrder, IInv, FedInv, PendingInv, NEW p \in Payloads, Process(p),
           Kind(p) = "fu", ~IsStart(p), <<p[1], 1>> \in ToSet(fed)
    PROVE  header = p[1]
<1>1. fed \in Seq(Payloads) /\ fed # <<>>
  BY DEF IInv, TypeOK, ToSet
<1> DEFINE l == Last(fed)
<1>2. l \in Payloads /\ l \in ToSet(fed)
  <2>1. Len(fed) \in DOMAIN fed /\ fed[Len(fed)] \in Payloads
    BY <1>1, LenProperties, EmptySeq, ElementOfSeq
  <2> QED BY <2>1 DEF Last, ToSet
<1>3. Before(l, p) /\ (l = <<p[1], 1>> \/ Before(<<p[1], 1>>, l))
  BY <1>2, Feeding DEF FedInv
<1> HIDE DEF l
<1>4. /\ l[1] \in Nat /\ l[2] \in Nat /\ p[1] \in Nat /\ p[2] \in Nat
      /\ p[2] <= Units[p[1]].size /\ Units[p[1]].size \in Nat
  BY <1>2, PayloadNumbers
<1>5. l[1] = p[1] /\ l[2] < p[2]
  BY <1>3, <1>4 DEF Before
<1>6. Kind(l) = "fu" /\ ~IsEnd(l)
  BY <1>4, <1>5 DEF Kind, IsEnd
<1> QED BY <1>1, <1>5, <1>6 DEF PendingInv, l

\* A fragment of another unit goes to a pending header only when the End of the one and
\* the Start of the other are lost.
LEMMA CollectsApart ==
    ASSUME InOrder, MInv, NEW p \in Payloads, Process(p), Kind(p) = "fu",
           NEW h, NEW parts, h = Collect(p)[1], parts = Collect(p)[2], h # NoUnit
    PROVE  \A q \in ToSet(parts) : q \in Payloads /\ ApartNext(h, q)
<1> USE DEF MInv
<1>1. CASE IsStart(p)
  <2>1. h = p[1] /\ parts = <<p>>
    BY <1>1 DEF Collect
  <2>2. ToSet(parts) = {p}
    BY <2>1 DEF ToSet
  <2> QED BY <2>1, <2>2 DEF ApartNext
<1>2. CASE ~IsStart(p)
  <2>1. h = header /\ parts = Append(fragments, p) /\ fragments \in Seq(Payloads)
    BY <1>2 DEF Collect, IInv, TypeOK
  <2>2. ToSet(parts) = ToSet(fragments) \cup {p}
    BY <2>1, AppendToSet
  <2>3. h \in DOMAIN Units
    BY <2>1 DEF IInv, TypeOK
  <2>4. ASSUME NEW q \in ToSet(fragments) PROVE q \in Payloads /\ ApartNext(h, q)
    <3>1. q \in Payloads
      BY <2>1, ElementOfSeq, LenProperties DEF ToSet
    <3>2. Apart(h, q)
      BY <2>1 DEF FragmentsInv
    <3> QED BY <2>3, <3>1, <3>2, ApartStays
  <2>5. ApartNext(h, p)
    <3> SUFFICES ASSUME p[1] # h
                 PROVE  GoneNext(<<h, Units[h].size>>) /\ GoneNext(<<p[1], 1>>)
      BY DEF ApartNext
    <3>1. <<h, Units[h].size>> \notin ToSet(fed) /\ <<h, 1>> \in ToSet(fed)
      BY <2>1 DEF HeaderInv
    <3>2. <<h, 1>> \in Payloads /\ Before(<<h, 1>>, p)
      BY <3>1, Feeding
    <3>3. h \in Nat /\ p[1] \in Nat /\ p[2] \in Nat /\ 1 <= p[2] /\ p = <<p[1], p[2]>>
      BY <3>2, PayloadNumbers
    <3>4. Before(<<h, Units[h].size>>, p) /\ <<h, Units[h].size>> # p
      BY <3>2, <3>3 DEF Before
    <3>5. <<p[1], 1>> \notin ToSet(fed) /\ <<p[1], 1>> # p
      BY <1>2, <2>1, <3>3, StartIsPending DEF IsStart
    <3>6. Before(<<p[1], 1>>, p)
      BY <1>2, <3>3 DEF Before, IsStart
    <3> QED BY <3>1, <3>4, <3>5, <3>6, Feeding DEF GoneNext
  <2> QED BY <2>2, <2>4, <2>5
<1> QED BY <1>1, <1>2

LEMMA MixingInitial == Init => MInv
<1> SUFFICES ASSUME Init PROVE MInv
  OBVIOUS
<1>1. fed = <<>> /\ header = NoUnit /\ emitted = <<>> /\ IInv
  BY Initial DEF Init
<1>2. ToSet(fed) = {} /\ DOMAIN emitted = {}
  BY <1>1 DEF ToSet
<1> QED BY <1>1, <1>2 DEF MInv, FedInv, HeaderInv, PendingInv, FragmentsInv, EmittedInv

\* NALs whose payloads are apart after the step.
ApartNALs == {e \in [header : DOMAIN Units, parts : Seq(Payloads)] :
                \A q \in ToSet(e.parts) : ApartNext(e.header, q)}

LEMMA EmittedApart ==
    ASSUME InOrder, MInv, NEW p \in Payloads, Process(p)
    PROVE  /\ emitted \in Seq(ApartNALs)
           /\ emitted' \in Seq(ApartNALs) => EmittedInv'
<1> DEFINE Typed == [header : DOMAIN Units, parts : Seq(Payloads)]
<1>1. emitted \in Seq(Typed)
  BY DEF MInv, IInv, TypeOK
<1>2. ASSUME NEW i \in DOMAIN emitted PROVE emitted[i] \in ApartNALs
  <2> HIDE DEF Typed
  <2>1. emitted[i] \in Typed
    BY <1>1, ElementOfSeq, LenProperties
  <2> USE DEF Typed
  <2>2. ASSUME NEW q \in ToSet(emitted[i].parts) PROVE ApartNext(emitted[i].header, q)
    <3>1. Apart(emitted[i].header, q) /\ emitted[i].header \in DOMAIN Units
      BY <2>1 DEF MInv, EmittedInv
    <3>2. q \in Payloads
      BY <2>1, ElementOfSeq, LenProperties DEF ToSet
    <3> QED BY <3>1, <3>2, ApartStays DEF MInv
  <2> QED BY <2>1, <2>2 DEF ApartNALs
<1>3. emitted \in Seq(ApartNALs)
  <2> HIDE DEF Typed
  <2>1. DOMAIN emitted = 1 .. Len(emitted) /\ Len(emitted) \in Nat
        /\ emitted \in [1 .. Len(emitted) -> Typed]
    BY <1>1, LenProperties
  <2>2. emitted \in [1 .. Len(emitted) -> ApartNALs]
    BY <1>2, <2>1
  <2> QED BY <2>1, <2>2
<1>4. ASSUME emitted' \in Seq(ApartNALs), NEW i \in DOMAIN emitted',
             NEW q \in ToSet(emitted'[i].parts)
      PROVE  ApartNext(emitted'[i].header, q)
  <2>1. emitted'[i] \in ApartNALs
    BY <1>4, ElementOfSeq, LenProperties
  <2> QED BY <2>1 DEF ApartNALs
<1> QED BY <1>3, <1>4 DEF EmittedInv, Apart, Gone, ApartNext, GoneNext

\* A payload that is not a fragment.
LEMMA WholeKeepsApart ==
    ASSUME InOrder, MInv, NEW p \in Payloads, Process(p), Kind(p) # "fu"
    PROVE  HeaderInv' /\ PendingInv' /\ FragmentsInv' /\ EmittedInv'
<1> USE DEF MInv
<1>1. PendingInv'
  BY Feeding DEF PendingInv
<1>2. header' = NoUnit \/ (header' = header /\ fragments' = fragments)
  BY DEF Process, Skip, Drop, Stub, SingleNal, Prefixed, Fragment, Interrupt, Discard
<1>3. HeaderInv' /\ FragmentsInv'
  <2>1. CASE header' = NoUnit
    BY <2>1 DEF HeaderInv, FragmentsInv
  <2>2. CASE header' = header /\ fragments' = fragments
    <3>1. HeaderInv'
      BY <2>2, Feeding DEF HeaderInv, Kind
    <3>2. FragmentsInv'
      <4> SUFFICES ASSUME header # NoUnit, NEW q \in ToSet(fragments) PROVE ApartNext(header, q)
        BY <2>2 DEF FragmentsInv, Apart, Gone, ApartNext, GoneNext
      <4>1. header \in DOMAIN Units /\ q \in Payloads /\ Apart(header, q)
        BY ElementOfSeq, LenProperties DEF FragmentsInv, IInv, TypeOK, ToSet
      <4> QED BY <4>1, ApartStays
    <3> QED BY <3>1, <3>2
  <2> QED BY <1>2, <2>1, <2>2
<1>4. NAL(p[1], <<p>>) \in ApartNALs
  <2>1. p[1] \in DOMAIN Units /\ <<p>> \in Seq(Payloads)
    BY PayloadNumbers
  <2>2. ToSet(<<p>>) = {p}
    BY DEF ToSet
  <2> QED BY <2>1, <2>2 DEF NAL, ApartNALs, ApartNext
<1>5. EmittedInv'
  <2>1. CASE Skip(p) \/ Drop(p)
    BY <2>1, EmittedApart DEF Skip, Drop
  <2>2. CASE Stub(p) \/ SingleNal(p)
    BY <1>4, <2>2, EmittedApart, AppendProperties DEF Stub, SingleNal
  <2>3. CASE Prefixed(p)
    <3> DEFINE es == [i \in 1 .. Units[p[1]].size |-> NAL(p[1], <<p>>)]
    <3>1. es \in Seq(ApartNALs)
      BY <1>4, PayloadNumbers
    <3>2. emitted' = emitted \o es
      BY <2>3 DEF Prefixed
    <3> HIDE DEF es
    <3> QED BY <3>1, <3>2, EmittedApart, ConcatProperties
  <2> QED BY <2>1, <2>2, <2>3 DEF Process, Fragment
<1> QED BY <1>1, <1>3, <1>5

LEMMA FragmentKeepsApart ==
    ASSUME InOrder, MInv, NEW p \in Payloads, Process(p), Kind(p) = "fu"
    PROVE  HeaderInv' /\ PendingInv' /\ FragmentsInv' /\ EmittedInv'
<1> USE DEF MInv
<1> DEFINE h == Collect(p)[1]
           parts == Collect(p)[2]
<1>1. Complete(p, h, parts)
  BY DEF Process, Skip, Drop, Stub, SingleNal, Prefixed, Fragment
<1>2. h \in DOMAIN Units \cup {NoUnit} /\ parts \in Seq(Payloads)
  BY CollectsFromStart DEF IInv
<1>3. h # NoUnit => \A q \in ToSet(parts) : ApartNext(h, q)
  BY CollectsApart
<1>4. IF IsStart(p) THEN h = p[1] ELSE h = header
  BY DEF Collect
<1>5. /\ p[1] \in DOMAIN Units /\ p[1] \in Nat /\ p[2] \in Nat /\ 1 <= p[2]
      /\ p[2] <= Units[p[1]].size /\ Units[p[1]].size \in Nat /\ p = <<p[1], p[2]>>
  BY PayloadNumbers
<1>6. /\ Last(fed') = p /\ ToSet(fed') = ToSet(fed) \cup {p}
      /\ \A q \in ToSet(fed) : Before(q, p)
  BY Feeding
<1> HIDE DEF h, parts
<1>7. CASE IsEnd(p)
  <2>1. header' = NoUnit
    BY <1>1, <1>7 DEF Complete, Discard
  <2>2. h # NoUnit => NAL(h, parts) \in ApartNALs
    BY <1>2, <1>3 DEF NAL, ApartNALs
  <2>3. emitted' = emitted \/ (h # NoUnit /\ emitted' = Append(emitted, NAL(h, parts)))
    BY <1>1, <1>7 DEF Complete
  <2>4. emitted' \in Seq(ApartNALs)
    BY <2>2, <2>3, EmittedApart, AppendProperties
  <2> QED BY <1>6, <1>7, <2>1, <2>4, EmittedApart DEF HeaderInv, PendingInv, FragmentsInv
<1>8. CASE ~IsEnd(p)
  <2>1. header' = h /\ fragments' = parts /\ emitted' = emitted
    BY <1>1, <1>8 DEF Complete
  <2>2. HeaderInv'
    <3>1. CASE IsStart(p)
      <4>1. p = <<h, 1>> /\ h = p[1] /\ 1 < Units[h].size
        BY <1>4, <1>5, <1>8, <3>1 DEF IsStart, IsEnd
      <4>2. ~Before(<<h, Units[h].size>>, p) /\ <<h, Units[h].size>> # p
        BY <1>5, <4>1 DEF Before
      <4> QED BY <1>6, <2>1, <4>1, <4>2 DEF HeaderInv, Kind
    <3>2. CASE ~IsStart(p)
      <4>1. h = header
        BY <1>4, <3>2
      <4>2. p # <<header, Units[header].size>>
        BY <1>8 DEF IsEnd
      <4> QED BY <1>6, <2>1, <4>1, <4>2 DEF HeaderInv
    <3> QED BY <3>1, <3>2
  <2>3. PendingInv'
    <3> SUFFICES ASSUME <<p[1], 1>> \in ToSet(fed') PROVE h = p[1]
      BY <1>6, <2>1 DEF PendingInv
    <3>1. CASE IsStart(p)
      BY <1>4, <3>1
    <3>2. CASE ~IsStart(p)
      <4>1. <<p[1], 1>> # p
        BY <3>2 DEF IsStart
      <4> QED BY <1>4, <1>6, <3>2, <4>1, StartIsPending
    <3> QED BY <3>1, <3>2
  <2> QED BY <1>3, <2>1, <2>2, <2>3, EmittedApart DEF FragmentsInv, Apart, Gone, ApartNext, GoneNext
<1> QED BY <1>7, <1>8

LEMMA MixingInductive == InOrder /\ MInv /\ [Next]_vars => MInv'
<1> SUFFICES ASSUME InOrder, MInv, [Next]_vars PROVE MInv'
  OBVIOUS
<1>1. IInv'
  BY Inductive DEF MInv
<1>2. CASE UNCHANGED vars
  BY <1>1, <1>2 DEF vars, MInv, FedInv, HeaderInv, PendingInv, FragmentsInv, EmittedInv,
                    Apart, Gone
<1>3. ASSUME NEW p \in Payloads, Process(p) PROVE MInv'
  <2>1. FedInv'
    BY <1>3, Feeding DEF MInv
  <2> QED BY <1>1, <1>3, <2>1, WholeKeepsApart, FragmentKeepsApart DEF MInv
<1> QED BY <1>2, <1>3 DEF Next

\* A NAL holds payloads of two units only if the End of the one and the Start of the
\* other were lost, for any units and losses (hikrtp.py:155-173).
THEOREM MixingNeedsTwoLosses == Spec => []MixedOnlyAcrossTwoLosses
<1>1. CASE InOrder
  <2>1. MInv => MixedOnlyAcrossTwoLosses
    <3> SUFFICES ASSUME MInv, NEW i \in DOMAIN emitted,
                        NEW p \in ToSet(emitted[i].parts), p[1] # emitted[i].header
                 PROVE  /\ <<emitted[i].header, Units[emitted[i].header].size>> \notin ToSet(fed)
                        /\ <<p[1], 1>> \notin ToSet(fed)
      BY DEF MixedOnlyAcrossTwoLosses
    <3>1. Apart(emitted[i].header, p)
      BY DEF MInv, EmittedInv
    <3> QED BY <3>1 DEF Apart, Gone
  <2>2. MInv /\ [Next]_vars => MInv'
    BY <1>1, MixingInductive
  <2> QED BY <2>1, <2>2, MixingInitial, PTL DEF Spec
<1>2. CASE ~InOrder
  <2>1. MixedOnlyAcrossTwoLosses
    BY <1>2 DEF MixedOnlyAcrossTwoLosses
  <2> QED BY <2>1, PTL
<1> QED BY <1>1, <1>2
-----------------------------------------------------------------------------
(***************************************************************************)
(* No payload is used twice: what is emitted or pending was fed, what is   *)
(* pending is in no NAL, and a payload is fed once.                        *)
(***************************************************************************)
PendingFed  == ToSet(fragments) \subseteq ToSet(fed)
EmittedFed  == \A i \in DOMAIN emitted : ToSet(emitted[i].parts) \subseteq ToSet(fed)
PendingFree == \A i \in DOMAIN emitted : ToSet(emitted[i].parts) \cap ToSet(fragments) = {}

UInv == IInv /\ PendingFed /\ EmittedFed /\ PendingFree /\ UsedOnce

SamePrefixed(e, f) == e.header = f.header /\ Units[e.header].kind = "prefixed"

\* NALs appended by a step: each made of payloads pending or just fed.
LEMMA Extending ==
    ASSUME UInv, NEW T, emitted \in Seq(T), NEW es \in Seq(T), emitted' = emitted \o es,
           NEW new, new \cap ToSet(fed) \subseteq ToSet(fragments), new \subseteq ToSet(fed'),
           ToSet(fed) \subseteq ToSet(fed'),
           \A k \in DOMAIN es : ToSet(es[k].parts) \subseteq new,
           \A k, l \in DOMAIN es : k # l => SamePrefixed(es[k], es[l]),
           ToSet(fragments') \subseteq ToSet(fragments) \cup new,
           \A k \in DOMAIN es : ToSet(es[k].parts) \cap ToSet(fragments') = {}
    PROVE  UsedOnce' /\ EmittedFed' /\ PendingFree'
<1>1. /\ Len(emitted) \in Nat /\ Len(es) \in Nat /\ DOMAIN emitted = 1 .. Len(emitted)
      /\ DOMAIN es = 1 .. Len(es) /\ emitted' \in Seq(T)
      /\ Len(emitted') = Len(emitted) + Len(es) /\ DOMAIN emitted' = 1 .. Len(emitted')
      /\ \A i \in 1 .. Len(emitted) : emitted'[i] = emitted[i]
      /\ \A k \in 1 .. Len(es) : emitted'[Len(emitted) + k] = es[k]
  BY ConcatProperties, LenProperties
<1> DEFINE Old(i) == i \in DOMAIN emitted /\ emitted'[i] = emitted[i]
           New(i, k) == k \in DOMAIN es /\ i = Len(emitted) + k /\ emitted'[i] = es[k]
<1>2. ASSUME NEW i \in DOMAIN emitted' PROVE Old(i) \/ \E k \in DOMAIN es : New(i, k)
  <2>1. CASE i <= Len(emitted)
    BY <1>1, <2>1
  <2>2. CASE i > Len(emitted)
    <3>1. i - Len(emitted) \in DOMAIN es /\ i = Len(emitted) + (i - Len(emitted))
      BY <1>1, <2>2
    <3> QED BY <1>1, <3>1
  <2> QED BY <1>1, <2>1, <2>2
<1>3. \A i : Old(i) => ToSet(emitted'[i].parts) \cap new = {}
  BY DEF UInv, EmittedFed, PendingFree
<1>4. \A i, k : New(i, k) => ToSet(emitted'[i].parts) \subseteq new
  OBVIOUS
<1> HIDE DEF New
<1>5. UsedOnce'
  <2> SUFFICES ASSUME NEW i \in DOMAIN emitted', NEW j \in DOMAIN emitted', i # j
               PROVE  \/ SamePrefixed(emitted'[i], emitted'[j])
                      \/ ToSet(emitted'[i].parts) \cap ToSet(emitted'[j].parts) = {}
    BY DEF UsedOnce, SamePrefixed
  <2>1. CASE Old(i) /\ Old(j)
    BY <2>1 DEF UInv, UsedOnce, SamePrefixed
  <2>2. CASE \E k, l \in DOMAIN es : New(i, k) /\ New(j, l)
    BY <2>2 DEF New
  <2>3. CASE \E k \in DOMAIN es : (Old(i) /\ New(j, k)) \/ (Old(j) /\ New(i, k))
    BY <1>3, <1>4, <2>3
  <2>4. Old(i) \/ \E k \in DOMAIN es : New(i, k)
    BY <1>2
  <2>5. Old(j) \/ \E k \in DOMAIN es : New(j, k)
    BY <1>2
  <2> HIDE DEF Old
  <2>6. CASE Old(i) /\ ~Old(j)
    <3>1. PICK k \in DOMAIN es : New(j, k)
      BY <2>5, <2>6
    <3> QED BY <2>3, <2>6, <3>1
  <2>7. CASE ~Old(i) /\ Old(j)
    <3>1. PICK k \in DOMAIN es : New(i, k)
      BY <2>4, <2>7
    <3> QED BY <2>3, <2>7, <3>1
  <2>8. CASE ~Old(i) /\ ~Old(j)
    <3>1. PICK k \in DOMAIN es : New(i, k)
      BY <2>4, <2>8
    <3>2. PICK l \in DOMAIN es : New(j, l)
      BY <2>5, <2>8
    <3> QED BY <2>2, <3>1, <3>2
  <2> QED BY <2>1, <2>6, <2>7, <2>8
<1>6. EmittedFed'
  <2> SUFFICES ASSUME NEW i \in DOMAIN emitted' PROVE ToSet(emitted'[i].parts) \subseteq ToSet(fed')
    BY DEF EmittedFed
  <2> QED BY <1>2, <1>4 DEF UInv, EmittedFed
<1>7. PendingFree'
  <2> SUFFICES ASSUME NEW i \in DOMAIN emitted'
               PROVE  ToSet(emitted'[i].parts) \cap ToSet(fragments') = {}
    BY DEF PendingFree
  <2>1. CASE Old(i)
    <3>1. i \in DOMAIN emitted /\ ToSet(emitted'[i].parts) \cap ToSet(fragments) = {}
      BY <2>1 DEF UInv, PendingFree
    <3> QED BY <1>3, <2>1, <3>1
  <2>2. CASE \E k \in DOMAIN es : New(i, k)
    BY <2>2 DEF New
  <2> QED BY <1>2, <2>1, <2>2
<1> QED BY <1>5, <1>6, <1>7

LEMMA UsingInductive == UInv /\ [Next]_vars => UInv'
<1> SUFFICES ASSUME UInv, [Next]_vars PROVE UInv'
  OBVIOUS
<1>1. IInv'
  BY Inductive DEF UInv
<1>2. CASE UNCHANGED vars
  BY <1>1, <1>2 DEF vars, UInv, PendingFed, EmittedFed, PendingFree, UsedOnce
<1>3. ASSUME NEW p \in Payloads, Process(p)
      PROVE  PendingFed' /\ EmittedFed' /\ PendingFree' /\ UsedOnce'
  <2> DEFINE Typed == [header : DOMAIN Units, parts : Seq(Payloads)]
  <2>1. /\ fed \in Seq(Payloads) /\ fragments \in Seq(Payloads) /\ emitted \in Seq(Typed)
        /\ fed' = Append(fed, p) /\ p \notin ToSet(fed)
    BY <1>3 DEF UInv, IInv, TypeOK, Process
  <2>2. ToSet(fed') = ToSet(fed) \cup {p} /\ ToSet(<<p>>) = {p} /\ ToSet(<<>>) = {}
    <3>1. ToSet(Append(fed, p)) = ToSet(fed) \cup {p}
      BY <2>1, AppendToSet
    <3>2. ToSet(<<p>>) = {p} /\ ToSet(<<>>) = {}
      BY DEF ToSet
    <3> QED BY <2>1, <3>1, <3>2
  <2>3. p[1] \in DOMAIN Units /\ Units[p[1]].size \in Nat
    BY PayloadNumbers
  <2>4. NAL(p[1], <<p>>) \in Typed /\ NAL(p[1], <<p>>).parts = <<p>> /\ NAL(p[1], <<p>>).header = p[1]
    BY <2>3 DEF NAL
  <2>5. ASSUME NEW h \in DOMAIN Units, NEW parts \in Seq(Payloads)
        PROVE  NAL(h, parts) \in Typed /\ NAL(h, parts).parts = parts
    BY DEF NAL
  <2> HIDE DEF Typed
  <2>6. CASE Skip(p) \/ Drop(p)
    <3>1. emitted' = emitted /\ ToSet(fragments') \subseteq ToSet(fragments)
      BY <2>2, <2>6 DEF Skip, Drop, Interrupt, Discard
    <3> QED BY <2>2, <3>1 DEF UInv, PendingFed, EmittedFed, PendingFree, UsedOnce
  <2>7. CASE Stub(p) \/ SingleNal(p) \/ Prefixed(p)
    <3> DEFINE one == Stub(p) \/ SingleNal(p)
               n == IF one THEN 1 ELSE Units[p[1]].size
               es == [i \in 1 .. n |-> NAL(p[1], <<p>>)]
    <3>1. fragments' = fragments \/ fragments' = <<>>
      BY <2>7 DEF Stub, SingleNal, Prefixed, Interrupt, Discard
    <3>2. PendingFed'
      BY <2>2, <3>1 DEF UInv, PendingFed
    <3>3. es \in Seq(Typed) /\ DOMAIN es = 1 .. n /\ \A k \in 1 .. n : es[k] = NAL(p[1], <<p>>)
      BY <2>3, <2>4
    <3>4. emitted' = emitted \o es
      <4>1. CASE one
        <5>1. emitted' = Append(emitted, NAL(p[1], <<p>>)) /\ es = <<NAL(p[1], <<p>>)>>
          BY <4>1 DEF Stub, SingleNal
        <5> HIDE DEF es, n
        <5>2. Append(emitted, NAL(p[1], <<p>>)) = emitted \o <<NAL(p[1], <<p>>)>>
          BY <2>1, <2>4, AppendIsConcat
        <5> QED BY <5>1, <5>2
      <4>2. CASE ~one
        BY <2>7, <4>2 DEF Prefixed
      <4> QED BY <4>1, <4>2
    <3>5. \A k, l \in DOMAIN es : k # l => SamePrefixed(es[k], es[l])
      <4>1. CASE one
        BY <3>3, <4>1
      <4>2. CASE Prefixed(p)
        BY <2>4, <3>3, <4>2 DEF Prefixed, Kind, SamePrefixed
      <4> QED BY <2>7, <4>1, <4>2
    <3>6. \A k \in DOMAIN es : ToSet(es[k].parts) = {p}
      BY <2>2, <2>4, <3>3
    <3>7. DOMAIN es \subseteq Nat
      BY <2>3, <3>3
    <3> HIDE DEF es, n, one
    <3>8. {p} \cap ToSet(fed) \subseteq ToSet(fragments) /\ {p} \subseteq ToSet(fed')
          /\ ToSet(fed) \subseteq ToSet(fed')
      BY <2>1, <2>2
    <3>9. ToSet(fragments') \subseteq ToSet(fragments)
      BY <2>2, <3>1
    <3>10. \A k \in DOMAIN es : ToSet(es[k].parts) \cap ToSet(fragments') = {}
      BY <2>1, <3>6, <3>9 DEF UInv, PendingFed
    <3>11. \A k \in DOMAIN es : ToSet(es[k].parts) \subseteq {p}
      BY <3>6
    <3>12. UsedOnce' /\ EmittedFed' /\ PendingFree'
      BY <2>1, <3>3, <3>4, <3>5, <3>8, <3>9, <3>10, <3>11, Extending
    <3> QED BY <3>2, <3>12
  <2>8. CASE Fragment(p)
    <3> DEFINE h == Collect(p)[1]
               parts == Collect(p)[2]
    <3>1. Complete(p, h, parts)
      BY <2>8 DEF Fragment
    <3>2. h \in DOMAIN Units \cup {NoUnit} /\ parts \in Seq(Payloads)
      BY CollectsFromStart DEF UInv, IInv
    <3>3. ToSet(parts) \subseteq ToSet(fragments) \cup {p}
      <4>1. parts = <<p>> \/ parts = Append(fragments, p)
        BY DEF Collect
      <4>2. ToSet(Append(fragments, p)) = ToSet(fragments) \cup {p}
        BY <2>1, AppendToSet
      <4> HIDE DEF parts
      <4> QED BY <2>2, <4>1, <4>2
    <3> HIDE DEF h, parts
    <3> DEFINE done == IsEnd(p) /\ h # NoUnit
               es == IF done THEN <<NAL(h, parts)>> ELSE <<>>
               new == ToSet(fragments) \cup {p}
    <3>4. es \in Seq(Typed)
      BY <2>5, <3>2
    <3>5. emitted' = emitted \o es
      <4>1. CASE done
        <5>1. emitted' = Append(emitted, NAL(h, parts)) /\ NAL(h, parts) \in Typed
          BY <2>5, <3>1, <3>2, <4>1 DEF Complete
        <5> QED BY <2>1, <4>1, <5>1, AppendIsConcat
      <4>2. CASE ~done
        BY <2>1, <3>1, <4>2, ConcatEmptySeq DEF Complete
      <4> QED BY <4>1, <4>2
    <3>6. ToSet(fragments') = {} \/ (~done /\ fragments' = parts)
      BY <2>2, <3>1 DEF Complete, Discard
    <3>7. /\ \A k \in DOMAIN es : done /\ ToSet(es[k].parts) \subseteq new
          /\ \A k, l \in DOMAIN es : k = l
      <4>1. CASE done
        <5>1. DOMAIN es = {1} /\ es[1].parts = parts
          BY <2>5, <3>2, <4>1
        <5> QED BY <3>3, <4>1, <5>1
      <4>2. CASE ~done
        BY <4>2
      <4> QED BY <4>1, <4>2
    <3>8. new \cap ToSet(fed) \subseteq ToSet(fragments) /\ new \subseteq ToSet(fed')
          /\ ToSet(fed) \subseteq ToSet(fed')
      BY <2>1, <2>2 DEF UInv, PendingFed
    <3>9. ToSet(fragments') \subseteq ToSet(fragments) \cup new
      BY <3>3, <3>6
    <3>10. \A k \in DOMAIN es : ToSet(es[k].parts) \cap ToSet(fragments') = {}
      BY <3>6, <3>7
    <3>11. \A k, l \in DOMAIN es : k # l => SamePrefixed(es[k], es[l])
      BY <3>7
    <3>12. PendingFed'
      BY <3>8, <3>9 DEF PendingFed
    <3>13. \A k \in DOMAIN es : ToSet(es[k].parts) \subseteq new
      BY <3>7
    <3> HIDE DEF es, new
    <3>14. UsedOnce' /\ EmittedFed' /\ PendingFree'
      BY <2>1, <3>4, <3>5, <3>8, <3>9, <3>10, <3>11, <3>13, Extending
    <3> QED BY <3>12, <3>14
  <2> QED BY <1>3, <2>6, <2>7, <2>8 DEF Process
<1> QED BY <1>1, <1>2, <1>3 DEF Next, UInv

\* No payload is in two NALs but those of one length-prefixed payload, for any units,
\* losses and order (hikrtp.py:71-91, 155-173).
THEOREM NothingUsedTwice == Spec => []UsedOnce
<1>1. Init => UInv
  <2>1. Init => ToSet(fragments) = {} /\ emitted = <<>>
    BY DEF Init, ToSet
  <2> QED BY <2>1, Initial DEF UInv, PendingFed, EmittedFed, PendingFree, UsedOnce
<1>2. UInv => UsedOnce
  BY DEF UInv
<1> QED BY <1>1, <1>2, UsingInductive, PTL DEF Spec

-----------------------------------------------------------------------------
(***************************************************************************)
(* A unit that lost no payload survives.  In order, while no fragment of   *)
(* an FU is missing, the fragments collected are those fed; what is        *)
(* emitted by a payload holds it, so a unit gets its NALs when its last    *)
(* payload comes and no others.                                            *)
(***************************************************************************)
\* The unit of q, up to q.
Upto(q) == [f \in 1 .. q[2] |-> <<q[1], f>>]

CollectedInv ==
    fed # <<>> /\ Kind(Last(fed)) = "fu" /\ ~IsEnd(Last(fed))
        /\ ToSet(Upto(Last(fed))) \subseteq ToSet(fed) => fragments = Upto(Last(fed))

VideoInv == \A i \in DOMAIN emitted : Units[emitted[i].header].kind # "other"

Intact ==
    \A u \in DOMAIN Units :
        ToSet(PayloadsOf(u)) \subseteq ToSet(fed) => Cardinality(WholeNALs(u)) = NalsIn(u)

SInv == MInv /\ UInv /\ CollectedInv /\ VideoInv /\ Intact

TypedNAL == [header : DOMAIN Units, parts : Seq(Payloads)]

\* What a step appends are NALs of video that hold the payload.
HoldingNAL(p) == {e \in TypedNAL : p \in ToSet(e.parts) /\ Units[e.header].kind # "other"}

LEMMA PlacesSeq ==
    ASSUME NEW S, NEW n \in Nat, NEW u, \A f \in 1 .. n : <<u, f>> \in S
    PROVE  [f \in 1 .. n |-> <<u, f>>] \in Seq(S) /\ Len([f \in 1 .. n |-> <<u, f>>]) = n
<1> DEFINE s == [f \in 1 .. n |-> <<u, f>>]
<1>1. DOMAIN s = 1 .. n /\ \A f \in 1 .. n : s[f] \in S
  OBVIOUS
<1>2. s \in [1 .. n -> S]
  OBVIOUS
<1> HIDE DEF s
<1>3. s \in Seq(S) /\ Len(s) = n
  BY <1>1, <1>2
<1> QED BY <1>3 DEF s

LEMMA UptoSet ==
    ASSUME NEW q, NEW f \in 1 .. q[2]
    PROVE  <<q[1], f>> \in ToSet(Upto(q))
BY DEF ToSet, Upto

\* While nothing of its unit was lost, a fragment comes right behind the one before it, and
\* all of them are collected.
LEMMA CollectsAll ==
    ASSUME InOrder, MInv, CollectedInv, NEW p \in Payloads, Process(p), Kind(p) = "fu",
           ToSet(Upto(p)) \subseteq ToSet(fed')
    PROVE  Collect(p) = <<p[1], Upto(p)>>
<1> USE DEF MInv
<1>1. /\ p[1] \in DOMAIN Units /\ p[1] \in Nat /\ p[2] \in Nat /\ 1 <= p[2]
      /\ p[2] <= Units[p[1]].size /\ Units[p[1]].size \in Nat /\ p = <<p[1], p[2]>>
  BY PayloadNumbers
<1>2. /\ ToSet(fed') = ToSet(fed) \cup {p}
      /\ \A q \in ToSet(fed) : q \in Payloads /\ Before(q, p)
  BY Feeding
<1>3. CASE IsStart(p)
  <2>1. p[2] = 1 /\ p = <<p[1], 1>>
    BY <1>1, <1>3 DEF IsStart
  <2>2. Upto(p) = <<p>>
    BY <2>1 DEF Upto
  <2> QED BY <1>3, <2>2 DEF Collect
<1>4. CASE ~IsStart(p)
  <2> DEFINE prev == <<p[1], p[2] - 1>>
  <2>1. p[2] - 1 \in 1 .. p[2] /\ p[2] - 1 \in Nat \ {0} /\ prev # p /\ p[2] - 1 + 1 = p[2]
    BY <1>1, <1>4 DEF IsStart
  <2>2. prev \in ToSet(fed)
    <3>1. prev \in ToSet(Upto(p))
      BY <2>1, UptoSet
    <3> QED BY <1>2, <2>1, <3>1
  <2>3. fed # <<>>
    BY <2>2 DEF ToSet
  <2>4. Last(fed) \in ToSet(fed)
    <3>1. fed \in Seq(Payloads)
      BY DEF IInv, TypeOK
    <3>2. Len(fed) \in DOMAIN fed
      BY <2>3, <3>1, LenProperties, EmptySeq
    <3> QED BY <3>2 DEF ToSet, Last
  <2>5. Last(fed) = prev
    <3> DEFINE l == Last(fed)
    <3>1. l \in Payloads /\ Before(l, p)
      BY <1>2, <2>4
    <3>2. prev = l \/ Before(prev, l)
      BY <2>2 DEF FedInv
    <3>3. l = <<l[1], l[2]>> /\ l[1] \in Nat /\ l[2] \in Nat
      BY <3>1, PayloadNumbers
    <3> HIDE DEF l
    <3>4. prev[1] = p[1] /\ prev[2] = p[2] - 1
      OBVIOUS
    <3>5. ~Before(prev, l)
      BY <1>1, <2>1, <3>1, <3>3, <3>4 DEF Before
    <3> QED BY <3>2, <3>5 DEF l
  <2>6. prev[1] = p[1] /\ prev[2] = p[2] - 1 /\ Kind(prev) = "fu" /\ ~IsEnd(prev)
    BY <1>1, <2>1 DEF Kind, IsEnd
  <2> HIDE DEF prev
  <2>7. ToSet(Upto(prev)) \subseteq ToSet(fed)
    <3> SUFFICES ASSUME NEW y \in ToSet(Upto(prev)) PROVE y \in ToSet(fed)
      OBVIOUS
    <3>1. PICK f \in 1 .. p[2] - 1 : y = <<p[1], f>>
      BY <2>6 DEF ToSet, Upto
    <3>2. f \in 1 .. p[2] /\ f # p[2]
      BY <1>1, <2>1
    <3>3. y \in ToSet(Upto(p)) /\ y # p
      BY <1>1, <3>1, <3>2, UptoSet
    <3> QED BY <1>2, <3>3
  <2>8. fragments = Upto(prev)
    BY <2>3, <2>5, <2>6, <2>7 DEF CollectedInv
  <2>9. header = p[1]
    <3>1. <<prev[1], 1>> \in ToSet(fed)
      <4>1. 1 \in 1 .. prev[2]
        BY <2>1, <2>6
      <4> QED BY <2>7, <4>1, UptoSet
    <3> QED BY <2>3, <2>5, <2>6, <3>1 DEF PendingInv
  <2>10. Append(Upto(prev), p) = Upto(p)
    <3>1. Upto(prev) = [f \in 1 .. p[2] - 1 |-> <<p[1], f>>]
      BY <2>6 DEF Upto
    <3>2. Upto(p) = [f \in 1 .. p[2] |-> <<p[1], f>>]
      BY DEF Upto
    <3> DEFINE m == p[2] - 1
               up == [f \in 1 .. m |-> <<p[1], f>>]
    <3>3. Len(up) = m /\ m \in Nat /\ m + 1 = p[2]
      BY <2>1
    <3> DEFINE all == [f \in 1 .. m + 1 |-> <<p[1], f>>]
               S == Nat \X Nat
    <3>4. up \in Seq(S) /\ all \in Seq(S) /\ p \in S /\ Len(all) = m + 1
      <4>1. p \in S /\ m \in Nat /\ m + 1 \in Nat
        BY <1>1, <3>3
      <4>2. \A f \in Nat : <<p[1], f>> \in S
        BY <1>1
      <4>3. (\A f \in 1 .. m : <<p[1], f>> \in S) /\ \A f \in 1 .. m + 1 : <<p[1], f>> \in S
        BY <4>2
      <4> HIDE DEF S, m
      <4>4. up \in Seq(S) /\ all \in Seq(S) /\ Len(all) = m + 1
        BY <4>1, <4>3, PlacesSeq
      <4> QED BY <4>1, <4>4
    <3>5. /\ \A f \in 1 .. m : up[f] = <<p[1], f>>
          /\ \A f \in 1 .. m + 1 : all[f] = <<p[1], f>>
      OBVIOUS
    <3> HIDE DEF up, all, S
    <3>6. Append(up, p) = all
      <4> DEFINE ap == Append(up, p)
      <4>1. /\ ap \in Seq(S) /\ Len(ap) = m + 1 /\ ap[m + 1] = p
            /\ \A f \in 1 .. m : ap[f] = up[f]
        BY <3>3, <3>4, AppendProperties
      <4> HIDE DEF ap
      <4>2. ASSUME NEW f \in 1 .. m + 1 PROVE ap[f] = all[f]
        <5>1. CASE f = m + 1
          <6>1. all[f] = <<p[1], p[2]>>
            BY <3>3, <3>5, <5>1
          <6> QED BY <1>1, <4>1, <5>1, <6>1
        <5>2. CASE f # m + 1
          <6>1. f \in 1 .. m
            BY <3>3, <5>2
          <6> QED BY <3>5, <4>1, <6>1
        <5> QED BY <5>1, <5>2
      <4>3. ap = all
        BY <3>4, <4>1, <4>2, SeqEqual
      <4> QED BY <4>3 DEF ap
    <3> QED BY <3>1, <3>2, <3>3, <3>6 DEF up, all
  <2> QED BY <1>4, <2>8, <2>9, <2>10 DEF Collect
<1> QED BY <1>3, <1>4

\* The NALs of a step.
LEMMA StepEmits ==
    ASSUME InOrder, MInv, NEW p \in Payloads, Process(p)
    PROVE  \E es \in Seq(HoldingNAL(p)) : emitted' = emitted \o es
<1> USE DEF MInv
<1>1. emitted \in Seq(TypedNAL) /\ p[1] \in DOMAIN Units /\ Units[p[1]].size \in Nat
  BY PayloadNumbers DEF IInv, TypeOK, TypedNAL
<1>2. ToSet(<<p>>) = {p}
  BY DEF ToSet
<1>3. Kind(p) # "other" => NAL(p[1], <<p>>) \in HoldingNAL(p)
  <2>1. NAL(p[1], <<p>>) \in TypedNAL /\ NAL(p[1], <<p>>).parts = <<p>>
        /\ NAL(p[1], <<p>>).header = p[1]
    BY <1>1 DEF NAL, TypedNAL
  <2> QED BY <1>2, <2>1 DEF HoldingNAL, Kind
<1>4. CASE emitted' = emitted
  <2>1. <<>> \in Seq(HoldingNAL(p)) /\ emitted \o <<>> = emitted
    BY <1>1, ConcatEmptySeq
  <2> QED BY <1>4, <2>1
<1>5. ASSUME NEW e \in HoldingNAL(p), emitted' = Append(emitted, e)
      PROVE  \E es \in Seq(HoldingNAL(p)) : emitted' = emitted \o es
  <2>1. e \in TypedNAL /\ <<e>> \in Seq(HoldingNAL(p))
    BY DEF HoldingNAL
  <2>2. Append(emitted, e) = emitted \o <<e>>
    BY <1>1, <2>1, AppendIsConcat
  <2> QED BY <1>5, <2>1, <2>2
<1>6. CASE Stub(p) \/ SingleNal(p)
  BY <1>3, <1>5, <1>6 DEF Stub, SingleNal
<1>7. CASE Prefixed(p)
  <2> DEFINE es == [i \in 1 .. Units[p[1]].size |-> NAL(p[1], <<p>>)]
  <2>1. es \in Seq(HoldingNAL(p))
    <3> DEFINE H == HoldingNAL(p)
               e == NAL(p[1], <<p>>)
               n == Units[p[1]].size
    <3>1. e \in H /\ n \in Nat
      BY <1>1, <1>3, <1>7 DEF Prefixed
    <3> HIDE DEF H, e, n
    <3>2. [i \in 1 .. n |-> e] \in Seq(H)
      BY <3>1
    <3> QED BY <3>2 DEF H, e, n
  <2> QED BY <1>7, <2>1 DEF Prefixed
<1>8. CASE Fragment(p)
  <2> DEFINE h == Collect(p)[1]
             parts == Collect(p)[2]
  <2>1. emitted' = emitted \/ (h # NoUnit /\ emitted' = Append(emitted, NAL(h, parts)))
    BY <1>8 DEF Fragment, Complete
  <2>2. h # NoUnit => h \in DOMAIN Units /\ Units[h].kind = "fu"
    BY <1>1, <1>8 DEF Collect, HeaderInv, Fragment, Kind, IInv, TypeOK
  <2>3. parts \in Seq(Payloads) /\ p \in ToSet(parts)
    <3>1. fragments \in Seq(Payloads)
      BY DEF IInv, TypeOK
    <3>2. p \in ToSet(Append(fragments, p)) /\ Append(fragments, p) \in Seq(Payloads)
      BY <3>1, AppendToSet, AppendProperties
    <3> QED BY <1>2, <3>2 DEF Collect
  <2> HIDE DEF h, parts
  <2>4. h # NoUnit => NAL(h, parts) \in HoldingNAL(p)
    <3> SUFFICES ASSUME h # NoUnit PROVE NAL(h, parts) \in HoldingNAL(p)
      OBVIOUS
    <3>1. NAL(h, parts) \in TypedNAL /\ NAL(h, parts).parts = parts /\ NAL(h, parts).header = h
      BY <2>2, <2>3 DEF NAL, TypedNAL
    <3> QED BY <2>2, <2>3, <3>1 DEF HoldingNAL
  <2> QED BY <1>4, <1>5, <2>1, <2>4
<1> QED BY <1>4, <1>6, <1>7, <1>8 DEF Process, Skip, Drop

\* A payload of another unit makes no whole NAL of this one.
LEMMA OthersKeepCount ==
    ASSUME InOrder, MInv, NEW p \in Payloads, Process(p), NEW u \in DOMAIN Units,
           p \notin ToSet(PayloadsOf(u))
    PROVE  WholeNALs(u)' = WholeNALs(u)
<1>1. PICK es \in Seq(HoldingNAL(p)) : emitted' = emitted \o es
  BY StepEmits
<1>2. emitted \in Seq(TypedNAL) /\ es \in Seq(TypedNAL)
  <2>1. HoldingNAL(p) \subseteq TypedNAL
    BY DEF HoldingNAL
  <2>2. es \in Seq(TypedNAL)
    BY <2>1, SeqOfSubset
  <2> QED BY <2>2 DEF MInv, IInv, TypeOK, TypedNAL
<1>3. /\ Len(emitted) \in Nat /\ Len(es) \in Nat /\ DOMAIN emitted = 1 .. Len(emitted)
      /\ DOMAIN emitted' = 1 .. Len(emitted) + Len(es)
      /\ \A i \in 1 .. Len(emitted) + Len(es) :
           emitted'[i] = IF i <= Len(emitted) THEN emitted[i] ELSE es[i - Len(emitted)]
  BY <1>1, <1>2, ConcatProperties, LenProperties
<1>4. ASSUME NEW i \in 1 .. Len(emitted) + Len(es), ~(i <= Len(emitted))
      PROVE  emitted'[i] # NAL(u, PayloadsOf(u))
  <2>1. i - Len(emitted) \in 1 .. Len(es)
    BY <1>3, <1>4
  <2>2. emitted'[i] \in HoldingNAL(p)
    BY <1>3, <1>4, <2>1, ElementOfSeq
  <2>3. p \in ToSet(emitted'[i].parts)
    BY <2>2 DEF HoldingNAL
  <2>4. NAL(u, PayloadsOf(u)).parts = PayloadsOf(u)
    BY DEF NAL
  <2> QED BY <2>3, <2>4
<1>5. WholeNALs(u)' = {i \in 1 .. Len(emitted) + Len(es) : emitted'[i] = NAL(u, PayloadsOf(u))}
  BY <1>3 DEF WholeNALs
<1>6. WholeNALs(u) = {i \in 1 .. Len(emitted) : emitted[i] = NAL(u, PayloadsOf(u))}
  BY <1>3 DEF WholeNALs
<1>7. 1 .. Len(emitted) \subseteq 1 .. Len(emitted) + Len(es)
  BY <1>3
<1>8. \A i \in 1 .. Len(emitted) : emitted'[i] = emitted[i]
  BY <1>3, <1>7
<1>9. \A i \in 1 .. Len(emitted) + Len(es) : i <= Len(emitted) => i \in 1 .. Len(emitted)
  BY <1>3
<1> QED BY <1>4, <1>5, <1>6, <1>7, <1>8, <1>9

\* Until all its payloads were fed, no NAL holds a unit whole.
LEMMA NotYetWhole ==
    ASSUME UInv, NEW u \in DOMAIN Units, ~(ToSet(PayloadsOf(u)) \subseteq ToSet(fed))
    PROVE  WholeNALs(u) = {}
<1> SUFFICES ASSUME NEW i \in DOMAIN emitted, emitted[i] = NAL(u, PayloadsOf(u)) PROVE FALSE
  BY DEF WholeNALs
<1>1. emitted[i].parts = PayloadsOf(u)
  BY DEF NAL
<1> QED BY <1>1 DEF UInv, EmittedFed

\* n whole NALs in the last step are all there are.
LEMMA FirstWhole ==
    ASSUME UInv, NEW u \in DOMAIN Units, WholeNALs(u) = {}, NEW n \in Nat \ {0},
           PayloadsOf(u) \in Seq(Payloads),
           emitted' = emitted \o [i \in 1 .. n |-> NAL(u, PayloadsOf(u))]
    PROVE  Cardinality(WholeNALs(u)') = n
<1> DEFINE e == NAL(u, PayloadsOf(u))
           es == [i \in 1 .. n |-> e]
<1>1. emitted \in Seq(TypedNAL) /\ e \in TypedNAL
  BY DEF UInv, IInv, TypeOK, TypedNAL, NAL
<1> HIDE DEF e
<1>2. es \in Seq(TypedNAL) /\ Len(es) = n /\ \A k \in 1 .. n : es[k] = e
  BY <1>1
<1>3. emitted' = emitted \o es
  BY DEF e
<1> HIDE DEF es
<1>4. /\ Len(emitted) \in Nat /\ DOMAIN emitted = 1 .. Len(emitted)
      /\ DOMAIN emitted' = 1 .. Len(emitted) + n
      /\ \A i \in 1 .. Len(emitted) + n :
           emitted'[i] = IF i <= Len(emitted) THEN emitted[i] ELSE es[i - Len(emitted)]
  BY <1>1, <1>2, <1>3, ConcatProperties, LenProperties
<1> DEFINE a == Len(emitted) + 1
           b == Len(emitted) + n
<1>5. a \in Int /\ b \in Int /\ ~(a > b) /\ b - a + 1 = n
  BY <1>4
<1>6. WholeNALs(u)' = a .. b
  <2>1. WholeNALs(u)' = {i \in 1 .. Len(emitted) + n : emitted'[i] = e}
    BY <1>4 DEF WholeNALs, e
  <2>2. ASSUME NEW i \in 1 .. Len(emitted) + n PROVE emitted'[i] = e <=> i \in a .. b
    <3>1. CASE i <= Len(emitted)
      <4>1. emitted'[i] = emitted[i] /\ i \in DOMAIN emitted /\ i \notin a .. b
        BY <1>4, <3>1
      <4> QED BY <4>1 DEF WholeNALs, e
    <3>2. CASE ~(i <= Len(emitted))
      <4>1. i - Len(emitted) \in 1 .. n /\ i \in a .. b
        BY <1>4, <3>2
      <4> QED BY <1>2, <1>4, <3>2, <4>1
    <3> QED BY <3>1, <3>2
  <2>3. a .. b \subseteq 1 .. Len(emitted) + n
    BY <1>4
  <2> QED BY <2>1, <2>2, <2>3
<1> HIDE DEF a, b
<1>7. Cardinality(a .. b) = n
  BY <1>5, FS_Interval
<1> QED BY <1>6, <1>7

LEMMA CollectedKeeps ==
    ASSUME InOrder, SInv, NEW p \in Payloads, Process(p) PROVE CollectedInv'
<1>1. fed' # <<>> /\ Last(fed') = p
  BY Feeding DEF SInv, MInv
<1> SUFFICES ASSUME Kind(p) = "fu", ~IsEnd(p), ToSet(Upto(p)) \subseteq ToSet(fed')
             PROVE  fragments' = Upto(p)
  BY <1>1 DEF CollectedInv
<1>2. Collect(p) = <<p[1], Upto(p)>>
  BY CollectsAll DEF SInv
<1>3. Complete(p, Collect(p)[1], Collect(p)[2])
  BY DEF Process, Skip, Drop, Stub, SingleNal, Prefixed, Fragment
<1> QED BY <1>2, <1>3 DEF Complete

LEMMA VideoKeeps ==
    ASSUME InOrder, SInv, NEW p \in Payloads, Process(p) PROVE VideoInv'
<1> DEFINE Video == {e \in TypedNAL : Units[e.header].kind # "other"}
<1>1. PICK es \in Seq(HoldingNAL(p)) : emitted' = emitted \o es
  BY StepEmits DEF SInv
<1>2. es \in Seq(Video)
  <2>1. HoldingNAL(p) \subseteq Video
    BY DEF HoldingNAL
  <2> QED BY <2>1, SeqOfSubset
<1>3. emitted \in Seq(Video)
  <2>1. emitted \in Seq(TypedNAL)
    BY DEF SInv, UInv, IInv, TypeOK, TypedNAL
  <2>2. \A i \in 1 .. Len(emitted) : emitted[i] \in Video
    BY <2>1, ElementOfSeq, LenProperties DEF SInv, VideoInv
  <2> HIDE DEF Video
  <2> QED BY <2>1, <2>2, LenProperties
<1> HIDE DEF Video
<1>4. emitted' \in Seq(Video)
  BY <1>1, <1>2, <1>3, ConcatProperties
<1>5. \A i \in DOMAIN emitted' : emitted'[i] \in Video
  BY <1>4, ElementOfSeq, LenProperties
<1> QED BY <1>5 DEF VideoInv, Video

\* A payload that completes its unit brings the NALs of it.
LEMMA LastOfUnit ==
    ASSUME InOrder, SInv, NEW p \in Payloads, Process(p), Kind(p) \notin {"other", "dropped"},
           ToSet(PayloadsOf(p[1])) \subseteq ToSet(fed')
    PROVE  emitted' = emitted \o [i \in 1 .. NalsIn(p[1]) |-> NAL(p[1], PayloadsOf(p[1]))]
<1> DEFINE u == p[1]
<1>1. /\ u \in DOMAIN Units /\ u \in Nat /\ p[2] \in Nat /\ 1 <= p[2] /\ p = <<u, p[2]>>
      /\ Units[u].size \in Nat \ {0} /\ (Kind(p) = "fu" => p[2] <= Units[u].size)
  BY PayloadNumbers
<1>2. emitted \in Seq(TypedNAL)
  BY DEF SInv, UInv, IInv, TypeOK, TypedNAL
<1>3. CASE Kind(p) # "fu"
  <2>1. PayloadsOf(u) = <<p>>
    <3>1. p = <<u, 1>>
      BY <1>3, PayloadShape
    <3>2. PayloadsOf(u) = [f \in 1 .. 1 |-> <<u, f>>]
      BY <1>3 DEF PayloadsOf, Kind
    <3> QED BY <3>1, <3>2
  <2>2. CASE Stub(p) \/ SingleNal(p)
    <3>1. NalsIn(u) = 1
      BY <2>2 DEF Stub, SingleNal, NalsIn, Kind
    <3>2. NAL(u, <<p>>) \in TypedNAL
      BY <1>1 DEF NAL, TypedNAL
    <3>3. emitted' = emitted \o <<NAL(u, <<p>>)>>
      BY <1>2, <2>2, <3>2, AppendIsConcat DEF Stub, SingleNal
    <3>4. <<NAL(u, <<p>>)>> = [i \in 1 .. 1 |-> NAL(u, <<p>>)]
      OBVIOUS
    <3> QED BY <2>1, <3>1, <3>3, <3>4
  <2>3. CASE Prefixed(p)
    <3>1. NalsIn(u) = Units[u].size
      BY <2>3 DEF Prefixed, NalsIn, Kind
    <3> QED BY <2>1, <2>3, <3>1 DEF Prefixed
  <2> QED BY <1>3, <2>2, <2>3 DEF Process, Skip, Drop, Fragment
<1>4. CASE Kind(p) = "fu"
  <2>1. PayloadsOf(u) = [f \in 1 .. Units[u].size |-> <<u, f>>] /\ NalsIn(u) = 1
    BY <1>4 DEF PayloadsOf, Kind, NalsIn
  <2>2. p[2] = Units[u].size
    <3>1. <<u, Units[u].size>> \in ToSet(fed')
      <4>1. <<u, Units[u].size>> \in ToSet(PayloadsOf(u))
        <5>1. Units[u].size \in 1 .. Units[u].size
          BY <1>1
        <5> QED BY <2>1, <5>1 DEF ToSet
      <4> QED BY <4>1
    <3>2. <<u, Units[u].size>> = p \/ Before(<<u, Units[u].size>>, p)
      BY <3>1, Feeding DEF SInv, MInv
    <3>3. CASE <<u, Units[u].size>> = p
      BY <1>1, <3>3
    <3>4. CASE Before(<<u, Units[u].size>>, p)
      BY <1>1, <1>4, <3>4 DEF Before
    <3> QED BY <3>2, <3>3, <3>4
  <2>3. Upto(p) = PayloadsOf(u)
    BY <2>1, <2>2 DEF Upto
  <2>4. Collect(p) = <<u, PayloadsOf(u)>>
    BY <1>4, <2>3, CollectsAll DEF SInv
  <2>5. Complete(p, u, PayloadsOf(u)) /\ IsEnd(p) /\ u # NoUnit
    <3>1. Complete(p, Collect(p)[1], Collect(p)[2])
      BY <1>4 DEF Process, Skip, Drop, Stub, SingleNal, Prefixed, Fragment
    <3> QED BY <1>1, <2>2, <2>4, <3>1, HikRtpAssumption DEF IsEnd
  <2>6. emitted' = Append(emitted, NAL(u, PayloadsOf(u)))
    BY <2>5 DEF Complete
  <2>7. NAL(u, PayloadsOf(u)) \in TypedNAL
    <3>1. PayloadsOf(u) \in Seq(Payloads)
      BY <2>4, CollectsFromStart DEF SInv, UInv, IInv
    <3> QED BY <1>1, <3>1 DEF NAL, TypedNAL
  <2> DEFINE e == NAL(u, PayloadsOf(u))
  <2> HIDE DEF e
  <2>8. Append(emitted, e) = emitted \o <<e>> /\ <<e>> = [i \in 1 .. 1 |-> e]
    BY <1>2, <2>7, AppendIsConcat DEF e
  <2> QED BY <2>1, <2>6, <2>8 DEF e
<1> QED BY <1>3, <1>4

LEMMA IntactKeeps ==
    ASSUME InOrder, SInv, NEW p \in Payloads, Process(p) PROVE Intact'
<1> USE DEF SInv
<1>1. ToSet(fed') = ToSet(fed) \cup {p} /\ p \notin ToSet(fed)
  BY Feeding DEF MInv
<1>2. p[1] \in DOMAIN Units /\ Units[p[1]].size \in Nat \ {0}
  BY PayloadNumbers
<1> SUFFICES ASSUME NEW u \in DOMAIN Units, ToSet(PayloadsOf(u)) \subseteq ToSet(fed')
             PROVE  Cardinality(WholeNALs(u)') = NalsIn(u)
  BY DEF Intact
<1>3. CASE p \notin ToSet(PayloadsOf(u))
  <2>1. WholeNALs(u)' = WholeNALs(u)
    BY <1>3, OthersKeepCount
  <2>2. ToSet(PayloadsOf(u)) \subseteq ToSet(fed)
    BY <1>1, <1>3
  <2> QED BY <2>1, <2>2 DEF Intact
<1>4. CASE p \in ToSet(PayloadsOf(u))
  <2>1. u = p[1]
    <3>1. PICK f \in DOMAIN PayloadsOf(u) : p = PayloadsOf(u)[f]
      BY <1>4 DEF ToSet
    <3>2. p = <<u, f>>
      BY <3>1 DEF PayloadsOf
    <3> QED BY <3>2
  <2>2. WholeNALs(u) = {}
    BY <1>1, <1>4, NotYetWhole
  <2>3. CASE Kind(p) \in {"other", "dropped"}
    <3>1. emitted' = emitted
      BY <2>3 DEF Process, Skip, Drop, Stub, SingleNal, Prefixed, Fragment
    <3>2. WholeNALs(u)' = WholeNALs(u)
      BY <3>1 DEF WholeNALs
    <3> QED BY <2>1, <2>2, <2>3, <3>2, FS_EmptySet DEF NalsIn, Kind
  <2>4. CASE Kind(p) \notin {"other", "dropped"}
    <3>1. emitted' = emitted \o [i \in 1 .. NalsIn(u) |-> NAL(u, PayloadsOf(u))]
      BY <2>1, <2>4, LastOfUnit
    <3>2. NalsIn(u) \in Nat \ {0}
      BY <1>2, <2>1, <2>4 DEF NalsIn, Kind
    <3>3. PayloadsOf(u) \in Seq(Payloads)
      <4> DEFINE n == IF Units[u].kind = "fu" THEN Units[u].size ELSE 1
      <4>1. n \in Nat /\ PayloadsOf(u) = [f \in 1 .. n |-> <<u, f>>]
        BY <1>2, <2>1 DEF PayloadsOf
      <4>2. \A f \in 1 .. n : <<u, f>> \in Payloads
        <5>1. \A f \in 1 .. n : <<u, f>> \in ToSet(PayloadsOf(u))
          BY <4>1 DEF ToSet
        <5> QED BY <5>1 DEF Payloads
      <4> HIDE DEF n
      <4> QED BY <4>1, <4>2
    <3> QED BY <2>2, <3>1, <3>2, <3>3, FirstWhole
  <2> QED BY <2>3, <2>4
<1> QED BY <1>3, <1>4

LEMMA SurvivalInitial == Init => SInv
<1> SUFFICES ASSUME Init PROVE SInv
  OBVIOUS
<1>1. fed = <<>> /\ fragments = <<>> /\ emitted = <<>>
  BY DEF Init
<1>2. MInv
  BY MixingInitial
<1>3. UInv
  <2>1. ToSet(fragments) = {}
    BY <1>1 DEF ToSet
  <2> QED BY <1>1, <1>2, <2>1 DEF MInv, UInv, PendingFed, EmittedFed, PendingFree, UsedOnce
<1>4. CollectedInv /\ VideoInv
  BY <1>1 DEF CollectedInv, VideoInv
<1>5. Intact
  <2> SUFFICES ASSUME NEW u \in DOMAIN Units, ToSet(PayloadsOf(u)) \subseteq ToSet(fed) PROVE FALSE
    BY DEF Intact
  <2>1. ToSet(fed) = {}
    BY <1>1 DEF ToSet
  <2>2. 1 \in 1 .. (IF Units[u].kind = "fu" THEN Units[u].size ELSE 1)
    BY UnitSize
  <2>3. <<u, 1>> \in ToSet(PayloadsOf(u))
    BY <2>2 DEF PayloadsOf, ToSet
  <2> QED BY <2>1, <2>3
<1> QED BY <1>2, <1>3, <1>4, <1>5 DEF SInv

LEMMA SurvivalInductive == InOrder /\ SInv /\ [Next]_vars => SInv'
<1> SUFFICES ASSUME InOrder, SInv, [Next]_vars PROVE SInv'
  OBVIOUS
<1>1. MInv' /\ UInv'
  BY MixingInductive, UsingInductive DEF SInv
<1>2. CASE UNCHANGED vars
  <2>1. fed' = fed /\ fragments' = fragments /\ emitted' = emitted
    BY <1>2 DEF vars
  <2>2. CollectedInv' /\ VideoInv'
    BY <2>1 DEF SInv, CollectedInv, VideoInv
  <2>3. Intact'
    BY <2>1 DEF SInv, Intact, WholeNALs
  <2> QED BY <1>1, <2>2, <2>3 DEF SInv
<1>3. ASSUME NEW p \in Payloads, Process(p) PROVE SInv'
  BY <1>1, <1>3, CollectedKeeps, VideoKeeps, IntactKeeps DEF SInv
<1> QED BY <1>2, <1>3 DEF Next

\* A unit of which nothing was lost is emitted whole and no more often than it should be,
\* whatever happened to its neighbours (hikrtp.py:60-91, 155-173).
THEOREM IntactUnitsAreEmitted == Spec => []IntactUnitsSurvive
<1>1. CASE InOrder
  <2>1. SInv => IntactUnitsSurvive
    BY DEF SInv, Intact, IntactUnitsSurvive
  <2>2. SInv /\ [Next]_vars => SInv'
    BY <1>1, SurvivalInductive
  <2> QED BY <2>1, <2>2, SurvivalInitial, PTL DEF Spec
<1>2. CASE ~InOrder
  <2>1. IntactUnitsSurvive
    BY <1>2 DEF IntactUnitsSurvive
  <2> QED BY <2>1, PTL
<1> QED BY <1>1, <1>2
=============================================================================
