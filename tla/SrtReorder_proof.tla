-------------------------- MODULE SrtReorder_proof --------------------------
(***************************************************************************)
(* Proofs about SrtReorder, for every sequence space, number of packets,   *)
(* start, distance and set of timers.                                      *)
(*                                                                         *)
(* The argument is about indices: Index(s) is the place of packet s in     *)
(* what the device sends.  On numbers of the window the wrap-aware         *)
(* distance Ahead is a difference of indices (lemma AheadIsIndex), and a   *)
(* run of buffered packets does not leave the window (lemma RunInside).    *)
(***************************************************************************)
EXTENDS SrtReorder, FiniteSetTheorems, SequenceTheorems, TLAPS

Index(s) == Minus(s, Start)

USE DEF netVars

\* Numbers of the window, and the one after its last packet.
InWindow(s) == s \in Seqs /\ Index(s) \in 0 .. N

PCs == {"idle", "deliver", "armed", "fired", "feed"}

(***************************************************************************)
(* The inductive invariant: besides what is checked, the cursor stays in   *)
(* the window, everything released is behind it, the packet in hand was    *)
(* sent, and a remembered timer is armed or has fired.                     *)
(***************************************************************************)
CursorInv ==
    /\ pc[Receiver] = "deliver" => got \in Sent
    /\ cursor # -1 => InWindow(cursor)
    /\ \A s \in buf : cursor # -1 /\ Index(s) > Index(cursor)
    /\ \A i \in 1 .. Len(released) :
         cursor # -1 /\ Index(released[i]) < Index(cursor)

TimerInv == flushTimer # NoTimer => pc[flushTimer] \in {"armed", "fired"}

AckInv == lastAck > 0 => /\ lastAck \in Sent
                         /\ [inner |-> "video", seq |-> lastAck] \in arrived

IInv == TypeOK /\ CursorInv /\ ReleasedInOrder /\ TimerInv /\ GapHasTimer /\ AckInv

-----------------------------------------------------------------------------
(***************************************************************************)
(* Arithmetic.                                                             *)
(***************************************************************************)

\* A packet is a number of the window, short of its end.
LEMMA SentInWindow ==
    ASSUME NEW s \in Sent
    PROVE  s \in Seqs /\ InWindow(s) /\ Index(s) \in 0 .. N - 1
BY ReorderAssumption DEF Sent, InWindow, Index, Minus, Seqs, Mod

\* In the window, distances are differences of places.
LEMMA AheadIsIndex ==
    ASSUME NEW s, InWindow(s), NEW c, InWindow(c)
    PROVE  Ahead(s, c) = Index(s) - Index(c)
BY ReorderAssumption DEF InWindow, Index, Ahead, Minus, Seqs, Mod

\* Advancing inside the window advances the place.
LEMMA PlusIndex ==
    ASSUME NEW s, InWindow(s), NEW k \in Nat, Index(s) + k <= N
    PROVE  InWindow(Plus(s, k)) /\ Index(Plus(s, k)) = Index(s) + k
BY ReorderAssumption DEF InWindow, Index, Plus, Minus, Seqs, Mod

\* A place names one number.
LEMMA IndexInjective ==
    ASSUME NEW s, InWindow(s), NEW c, InWindow(c), Index(s) = Index(c)
    PROVE  s = c
BY ReorderAssumption DEF InWindow, Index, Minus, Seqs, Mod

\* A run of packets does not leave the window.
LEMMA RunInside ==
    ASSUME NEW b \in SUBSET Sent, NEW s \in Sent, NEW n \in Nat \ {0}, IsRun(b, s, n)
    PROVE  /\ Index(s) + n <= N
           /\ \A k \in 0 .. n : /\ InWindow(Plus(s, k))
                                /\ Index(Plus(s, k)) = Index(s) + k
<1>1. Index(s) \in 0 .. N - 1 /\ InWindow(s) /\ N \in Nat
  BY SentInWindow, ReorderAssumption
<1>2. Index(s) + n <= N
  <2>1. SUFFICES ASSUME Index(s) + n > N PROVE FALSE
    BY <1>1
  <2>2. N - Index(s) \in 0 .. n - 1 /\ N - Index(s) \in Nat
    BY <1>1, <2>1
  <2>3. Plus(s, N - Index(s)) \in Sent
    BY <2>2 DEF IsRun
  <2>4. Index(Plus(s, N - Index(s))) = N
    BY <1>1, <2>2, PlusIndex
  <2> QED BY <2>3, <2>4, SentInWindow, ReorderAssumption
<1>3. ASSUME NEW k \in 0 .. n
      PROVE  InWindow(Plus(s, k)) /\ Index(Plus(s, k)) = Index(s) + k
  BY <1>1, <1>2, PlusIndex
<1> QED BY <1>2, <1>3

\* Sets of packets are finite, so a size bounds a run by a number.
LEMMA SentFinite ==
    ASSUME NEW b \in SUBSET Sent
    PROVE  Cardinality(b) \in Nat
<1>1. IsFiniteSet(Seqs)
  <2>1. 0 \in Int /\ Mod - 1 \in Int
    BY ReorderAssumption DEF Mod
  <2> QED BY <2>1, FS_Interval DEF Seqs
<1>2. b \subseteq Seqs
  BY DEF Sent
<1> QED BY <1>1, <1>2, FS_Subset, FS_CardinalityType

-----------------------------------------------------------------------------
(***************************************************************************)
(* The two operators every action is built from.                           *)
(***************************************************************************)

\* Settle moves no thread but the timers it arms or cancels, leaves no gap
\* without a timer when one is remembered or asked for, and remembers only
\* a timer that is the old one or just armed.
LEMMA SettleFacts ==
    ASSUME NEW p \in [Threads -> PCs], NEW ft \in Timers \cup {NoTimer},
           NEW b, NEW schedule \in BOOLEAN, Settle(p, ft, b, schedule)
    PROVE  /\ pc' \in [Threads -> PCs]
           /\ flushTimer' \in Timers \cup {NoTimer}
           /\ \A u \in Threads : /\ pc'[u] = "feed" <=> p[u] = "feed"
                                 /\ pc'[u] = "deliver" <=> p[u] = "deliver"
           /\ flushTimer' # NoTimer =>
                \/ pc'[flushTimer'] = "armed"
                \/ flushTimer' = ft /\ pc'[ft] = p[ft]
           /\ (b # {} /\ (schedule \/ ft # NoTimer)) => flushTimer' # NoTimer
<1>1. Timers \subseteq Threads /\ NoTimer \notin Timers
  BY ReorderAssumption DEF Threads
<1>2. CASE b = {}
  BY <1>1, <1>2 DEF Settle, Cancelled, PCs
<1>3. CASE b # {} /\ schedule /\ ft = NoTimer
  BY <1>1, <1>3 DEF Settle, PCs
<1>4. CASE b # {} /\ ~ (schedule /\ ft = NoTimer)
  BY <1>1, <1>4 DEF Settle
<1> QED BY <1>2, <1>3, <1>4

\* What holds after thread t drained buffer b.
DrainPost(t, b, ft, schedule) ==
    /\ cursor' \in Seqs /\ InWindow(cursor')
    /\ buf' \subseteq b
    /\ \A k \in buf' : Index(k) > Index(cursor')
    /\ released' \in Seq(Sent)
    /\ \A i \in 1 .. Len(released') : Index(released'[i]) < Index(cursor')
    /\ ReleasedInOrder'
    /\ out' \in [Threads -> Seq(Sent)]
    /\ \A u \in Threads : out'[u] # <<>> <=> u = t \/ out[u] # <<>>
    /\ Settle([pc EXCEPT ![t] = "feed"], ft, buf', schedule)

\* Draining from the first buffered number keeps the window ordered: what is
\* released goes on where the released sequence ended, what stays is ahead
\* of the new cursor.
LEMMA DrainFacts ==
    ASSUME TypeOK, ReleasedInOrder,
           NEW t \in Threads, NEW b \in SUBSET Sent, NEW s \in b,
           NEW ft, NEW schedule,
           \A k \in b : Index(k) >= Index(s),
           \A i \in 1 .. Len(released) : Index(released[i]) < Index(s),
           Drain(t, s, b, ft, schedule)
    PROVE  DrainPost(t, b, ft, schedule) /\ s \notin buf'
<1>1. PICK n \in 1 .. Cardinality(b) :
        /\ IsRun(b, s, n)
        /\ cursor' = Plus(s, n)
        /\ buf' = b \ {Plus(s, k) : k \in 0 .. n - 1}
        /\ out' = [out EXCEPT ![t] = RunFrom(s, n)]
        /\ released' = released \o RunFrom(s, n)
        /\ Settle([pc EXCEPT ![t] = "feed"], ft, buf', schedule)
  BY DEF Drain
<1>2. n \in Nat \ {0} /\ s \in Sent
  BY SentFinite
<1>3. /\ Index(s) + n <= N
      /\ \A k \in 0 .. n : InWindow(Plus(s, k)) /\ Index(Plus(s, k)) = Index(s) + k
  BY <1>1, <1>2, RunInside
<1>4. Index(s) \in Nat /\ InWindow(s) /\ Plus(s, 0) = s
  <2>1. InWindow(s) /\ Index(s) \in 0 .. N - 1
    BY <1>2, SentInWindow
  <2>2. Plus(s, 0) = s
    BY <2>1, ReorderAssumption DEF Plus, InWindow, Seqs, Mod
  <2> QED BY <2>1, <2>2
<1>5. InWindow(cursor') /\ cursor' \in Seqs /\ Index(cursor') = Index(s) + n
  BY <1>1, <1>2, <1>3 DEF InWindow
<1>6. buf' \subseteq b \ {s}
  BY <1>1, <1>2, <1>4
<1>7. ASSUME NEW k \in buf' PROVE Index(k) > Index(cursor')
  <2>1. k \in b /\ k \in Sent /\ InWindow(k) /\ Index(k) \in Nat
    BY <1>1, SentInWindow
  <2>2. Index(k) >= Index(s)
    BY <2>1
  <2>3. SUFFICES ASSUME Index(k) <= Index(s) + n PROVE FALSE
    BY <1>2, <1>4, <1>5, <2>1
  <2>4. DEFINE j == Index(k) - Index(s)
  <2>5. j \in 0 .. n
    BY <1>2, <1>4, <2>1, <2>2, <2>3
  <2>6. InWindow(Plus(s, j)) /\ Index(Plus(s, j)) = Index(k)
    BY <1>3, <1>4, <2>1, <2>5
  <2>7. Plus(s, j) = k
    BY <2>1, <2>6, IndexInjective
  <2>8. CASE j = n
    BY <1>1, <2>1, <2>7, <2>8 DEF IsRun
  <2>9. CASE j \in 0 .. n - 1
    BY <1>1, <2>7, <2>9
  <2> QED BY <1>2, <2>5, <2>8, <2>9
<1>8. /\ RunFrom(s, n) \in Seq(Sent) /\ Len(RunFrom(s, n)) = n
      /\ \A i \in 1 .. n : RunFrom(s, n)[i] = Plus(s, i - 1)
  <2>1. \A i \in 1 .. n : Plus(s, i - 1) \in Sent
    BY <1>1, <1>2 DEF IsRun
  <2> QED BY <1>2, <2>1 DEF RunFrom
<1>9. released \in Seq(Sent) /\ Len(released) \in Nat
  BY DEF TypeOK
<1>10. /\ released' \in Seq(Sent) /\ Len(released') = Len(released) + n
       /\ \A i \in 1 .. Len(released) : released'[i] = released[i]
       /\ \A i \in 1 .. n : released'[Len(released) + i] = Plus(s, i - 1)
  <2>1. DEFINE r == RunFrom(s, n)
  <2>2. r \in Seq(Sent) /\ Len(r) = n /\ \A i \in 1 .. n : r[i] = Plus(s, i - 1)
    BY <1>8
  <2>3. released' = released \o r /\ released \in Seq(Sent)
    BY <1>1, <1>9
  <2> HIDE DEF r
  <2>4. DEFINE z == released \o r
  <2>5. /\ z \in Seq(Sent) /\ Len(z) = Len(released) + Len(r)
        /\ \A i \in 1 .. Len(released) + Len(r) :
             z[i] = IF i <= Len(released) THEN released[i] ELSE r[i - Len(released)]
    BY <2>2, <2>3, ConcatProperties
  <2> HIDE DEF z
  <2>6. ASSUME NEW i \in 1 .. n
        PROVE  z[Len(released) + i] = Plus(s, i - 1)
    <3>1. /\ Len(released) + i \in 1 .. Len(released) + Len(r)
          /\ ~ (Len(released) + i <= Len(released))
          /\ (Len(released) + i) - Len(released) = i
      BY <1>2, <1>9, <2>2
    <3> QED BY <2>2, <2>5, <3>1
  <2>7. \A i \in 1 .. Len(released) : z[i] = released[i]
    BY <1>2, <1>9, <2>2, <2>5
  <2>8. released' = z
    BY <2>3 DEF z
  <2> QED BY <2>2, <2>5, <2>6, <2>7, <2>8
<1>11. ASSUME NEW i \in 1 .. Len(released'), i > Len(released)
       PROVE  Index(released'[i]) = Index(s) + (i - Len(released) - 1)
  <2>1. i - Len(released) \in 1 .. n
    BY <1>2, <1>9, <1>10, <1>11
  <2>2. released'[i] = Plus(s, i - Len(released) - 1)
    <3>1. DEFINE d == i - Len(released)
    <3>2. d \in 1 .. n /\ Len(released) + d = i
      BY <1>9, <1>10, <2>1
    <3>3. released'[Len(released) + d] = Plus(s, d - 1)
      BY <1>10, <3>2
    <3> QED BY <3>2, <3>3
  <2>3. i - Len(released) - 1 \in 0 .. n
    BY <1>2, <2>1
  <2>4. DEFINE e == i - Len(released) - 1
  <2>5. Index(Plus(s, e)) = Index(s) + e
    BY <1>3, <2>3
  <2> QED BY <1>4, <1>9, <1>10, <2>2, <2>5
<1>12. ASSUME NEW i \in 1 .. Len(released')
       PROVE  Index(released'[i]) < Index(cursor')
  <2>1. CASE i <= Len(released)
    <3>1. released'[i] = released[i] /\ i \in 1 .. Len(released)
      BY <1>9, <1>10, <2>1
    <3>2. released[i] \in Sent
      BY <1>9, <3>1
    <3>3. Index(released[i]) < Index(s) /\ Index(released[i]) \in Nat
      BY <3>1, <3>2, SentInWindow
    <3> QED BY <1>2, <1>4, <1>5, <3>1, <3>3
  <2>2. CASE i > Len(released)
    BY <1>2, <1>4, <1>5, <1>9, <1>10, <1>11, <2>2
  <2> QED BY <1>9, <2>1, <2>2
<1>13. ReleasedInOrder'
  <2>1. SUFFICES ASSUME NEW i \in 1 .. Len(released'), NEW j \in 1 .. Len(released'), i < j
                 PROVE  Index(released'[i]) < Index(released'[j])
    BY DEF ReleasedInOrder, Index
  <2>2. CASE j <= Len(released)
    <3>1. i \in 1 .. Len(released) /\ j \in 1 .. Len(released)
      BY <1>9, <1>10, <2>1, <2>2
    <3> QED BY <1>10, <2>1, <3>1 DEF ReleasedInOrder, Index
  <2>3. CASE i <= Len(released) /\ j > Len(released)
    <3>1. i \in 1 .. Len(released) /\ released'[i] = released[i] /\ released[i] \in Sent
      BY <1>9, <1>10, <2>3
    <3>2. Index(released[i]) < Index(s) /\ Index(released[i]) \in Nat
      BY <3>1, SentInWindow
    <3>3. Index(released'[j]) = Index(s) + (j - Len(released) - 1)
      BY <1>11, <2>3
    <3> QED BY <1>4, <1>9, <2>3, <3>1, <3>2, <3>3
  <2>4. CASE i > Len(released)
    BY <1>4, <1>9, <1>10, <1>11, <2>1, <2>4
  <2> QED BY <1>9, <2>2, <2>3, <2>4
<1>14. /\ out' \in [Threads -> Seq(Sent)]
       /\ \A u \in Threads : out'[u] # <<>> <=> u = t \/ out[u] # <<>>
  <2>1. RunFrom(s, n) # <<>>
    BY <1>2, <1>8
  <2> QED BY <1>1, <1>8, <2>1 DEF TypeOK
<1> QED BY <1>1, <1>5, <1>6, <1>7, <1>10, <1>12, <1>13, <1>14 DEF DrainPost

\* Giving up on a gap drains from the first number of what is ahead.
LEMMA AdvanceFacts ==
    ASSUME TypeOK, CursorInv, ReleasedInOrder,
           NEW t \in Threads, NEW b \in SUBSET Sent, NEW ft,
           cursor # -1, \A k \in b : Index(k) > Index(cursor),
           AdvancePastGap(t, b, ft)
    PROVE  DrainPost(t, b, ft, TRUE)
<1>1. PICK l \in b : IsLowest(b, l, cursor) /\ Drain(t, l, b, ft, TRUE)
  BY DEF AdvancePastGap
<1>2. InWindow(cursor) /\ Index(cursor) \in Nat
  BY ReorderAssumption DEF CursorInv, InWindow
<1>3. ASSUME NEW k \in b
      PROVE  Ahead(k, cursor) = Index(k) - Index(cursor) /\ Index(k) \in Nat
  <2>1. InWindow(k) /\ Index(k) \in Nat
    BY SentInWindow
  <2> QED BY <1>2, <2>1, AheadIsIndex
<1>4. ASSUME NEW k \in b PROVE Index(k) >= Index(l)
  <2>1. Ahead(k, cursor) >= 0
    BY <1>2, <1>3
  <2>2. Ahead(l, cursor) <= Ahead(k, cursor)
    BY <1>1, <2>1 DEF IsLowest
  <2> QED BY <1>2, <1>3, <2>2
<1>5. ASSUME NEW i \in 1 .. Len(released)
      PROVE  Index(released[i]) < Index(l)
  <2>1. released[i] \in Sent /\ Index(released[i]) < Index(cursor)
    BY DEF TypeOK, CursorInv
  <2>2. Index(released[i]) \in Nat
    BY <2>1, SentInWindow
  <2> QED BY <1>2, <1>3, <2>1, <2>2
<1> QED BY <1>1, <1>4, <1>5, DrainFacts

\* A drain keeps the invariant, when the timer it starts from is armed or
\* has fired, and a gap it leaves is covered.
LEMMA DrainKeeps ==
    ASSUME IInv, NEW t \in Threads, NEW b \in SUBSET Sent,
           NEW ft \in {flushTimer, NoTimer}, NEW schedule \in BOOLEAN,
           DrainPost(t, b, ft, schedule),
           UNCHANGED <<arrived, repeats, lastAck, got, fed, closing>>,
           ft # NoTimer => ft # t,
           buf' # {} /\ ~ closing => schedule \/ ft # NoTimer
    PROVE  IInv'
<1> DEFINE p == [pc EXCEPT ![t] = "feed"]
<1>1. /\ p \in [Threads -> PCs] /\ ft \in Timers \cup {NoTimer}
      /\ Timers \subseteq Threads /\ Receiver \in Threads
      /\ \A u \in Threads : p[u] = IF u = t THEN "feed" ELSE pc[u]
  BY DEF IInv, TypeOK, PCs, Threads
<1>2. Settle(p, ft, buf', schedule)
  BY DEF DrainPost
<1> HIDE DEF p
<1>3. /\ pc' \in [Threads -> PCs]
      /\ flushTimer' \in Timers \cup {NoTimer}
      /\ \A u \in Threads : /\ pc'[u] = "feed" <=> p[u] = "feed"
                            /\ pc'[u] = "deliver" <=> p[u] = "deliver"
      /\ flushTimer' # NoTimer =>
           \/ pc'[flushTimer'] = "armed"
           \/ flushTimer' = ft /\ pc'[ft] = p[ft]
      /\ (buf' # {} /\ (schedule \/ ft # NoTimer)) => flushTimer' # NoTimer
  BY <1>1, <1>2, SettleFacts
<1>4. TypeOK'
  <2>1. \A u \in Threads : pc'[u] = "feed" <=> out'[u] # <<>>
    BY <1>1, <1>3 DEF IInv, TypeOK, DrainPost
  <2> QED BY <1>3, <2>1 DEF IInv, TypeOK, DrainPost, PCs
<1>5. CursorInv'
  <2>1. pc'[Receiver] = "deliver" => got' \in Sent
    BY <1>1, <1>3 DEF IInv, CursorInv
  <2>2. cursor' # -1
    BY ReorderAssumption DEF DrainPost, Seqs, Mod
  <2> QED BY <2>1, <2>2 DEF DrainPost, CursorInv, InWindow, Index
<1>6. TimerInv'
  <2>1. CASE flushTimer' # NoTimer /\ flushTimer' = ft /\ pc'[ft] = p[ft]
    BY <1>1, <2>1 DEF IInv, TimerInv
  <2> QED BY <1>3, <2>1 DEF TimerInv
<1>7. GapHasTimer'
  BY <1>3, <1>6 DEF GapHasTimer, TimerInv
<1>8. AckInv'
  BY DEF IInv, AckInv
<1> QED BY <1>4, <1>5, <1>6, <1>7, <1>8 DEF IInv, DrainPost

-----------------------------------------------------------------------------
(***************************************************************************)
(* The actions.                                                            *)
(***************************************************************************)

LEMMA InitInv == Init => IInv
<1> SUFFICES ASSUME Init PROVE IInv
  OBVIOUS
<1>1. 0 \in Seqs
  BY ReorderAssumption DEF Seqs, Mod
<1>2. TypeOK
  <2>1. arrived \subseteq Packets /\ repeats \in 0 .. Duplicates
    BY ReorderAssumption DEF Init
  <2>2. /\ pc \in [Threads -> PCs] /\ out \in [Threads -> Seq(Sent)]
        /\ \A t \in Threads : pc[t] = "idle" /\ out[t] = <<>>
    BY DEF Init, PCs
  <2>3. /\ lastAck \in Seqs /\ got \in Seqs /\ cursor \in Seqs \cup {-1}
        /\ buf \subseteq Sent /\ flushTimer \in Timers \cup {NoTimer}
        /\ released \in Seq(Sent) /\ fed \in Seq(Sent) /\ closing \in BOOLEAN
    BY <1>1, EmptySeq DEF Init
  <2>4. \A t \in Threads : pc[t] = "feed" <=> out[t] # <<>>
    BY <2>2
  <2> QED BY <2>1, <2>2, <2>3, <2>4 DEF TypeOK, PCs
<1>3. CursorInv /\ ReleasedInOrder /\ TimerInv /\ GapHasTimer /\ AckInv
  BY DEF Init, CursorInv, ReleasedInOrder, TimerInv, GapHasTimer, AckInv, Threads
<1> QED BY <1>2, <1>3 DEF IInv

LEMMA ReceiveKeeps == ASSUME IInv, NEW p \in Packets, Receive(p) PROVE IInv'
<1> USE DEF IInv
<1>1. /\ Receiver \in Threads /\ Timers \subseteq Threads /\ Receiver \notin Timers
      /\ pc[Receiver] = "idle"
  BY ReorderAssumption DEF Threads, Receive
<1>2. repeats' \in 0 .. Duplicates
  BY ReorderAssumption DEF TypeOK, Receive
<1>3. arrived' = arrived \cup {p} /\ arrived' \subseteq Packets
  BY DEF TypeOK, Receive
<1>4. \/ UNCHANGED <<lastAck, got, pc>>
      \/ /\ p.inner = "video" /\ p.seq \in Sent
         /\ lastAck' = p.seq /\ got' = p.seq
         /\ pc' = [pc EXCEPT ![Receiver] = "deliver"]
  BY DEF Receive, Accepts, Packets
<1>5. \A s \in Sent : s \in Seqs
  BY DEF Sent
<1>6. TypeOK'
  BY <1>1, <1>2, <1>3, <1>4, <1>5 DEF TypeOK, Receive, windowVars, feedVars
<1>7. CursorInv' /\ ReleasedInOrder'
  BY <1>1, <1>4 DEF CursorInv, ReleasedInOrder, TypeOK, Receive, windowVars, feedVars, InWindow, Index
<1>8. TimerInv' /\ GapHasTimer'
  BY <1>1, <1>4 DEF TimerInv, GapHasTimer, TypeOK, Receive, windowVars
<1>9. AckInv'
  <2>1. CASE UNCHANGED lastAck
    BY <1>3, <2>1 DEF AckInv
  <2>2. CASE p.inner = "video" /\ p.seq \in Sent /\ lastAck' = p.seq
    <3>1. p = [inner |-> "video", seq |-> p.seq]
      BY <2>2 DEF Packets
    <3> QED BY <1>3, <2>2, <3>1 DEF AckInv
  <2> QED BY <1>4, <2>1, <2>2
<1> QED BY <1>6, <1>7, <1>8, <1>9

LEMMA DropLateKeeps == ASSUME IInv, DropLate PROVE IInv'
<1>1. TypeOK'
  <2>1. pc' \in [Threads -> PCs] /\ Receiver \in Threads
    BY DEF IInv, TypeOK, DropLate, PCs, Threads
  <2>2. \A t \in Threads : pc'[t] = "feed" <=> out[t] # <<>>
    BY <2>1 DEF IInv, TypeOK, DropLate
  <2> QED BY <2>1, <2>2 DEF IInv, TypeOK, DropLate, windowVars, feedVars, PCs
<1>2. CursorInv' /\ ReleasedInOrder' /\ AckInv'
  BY DEF IInv, TypeOK, CursorInv, ReleasedInOrder, AckInv, DropLate, windowVars, feedVars, InWindow, Index, Threads
<1>3. TimerInv' /\ GapHasTimer'
  BY ReorderAssumption DEF IInv, TypeOK, TimerInv, GapHasTimer, DropLate, windowVars, Threads
<1> QED BY <1>1, <1>2, <1>3 DEF IInv

LEMMA DeliverNextKeeps == ASSUME IInv, DeliverNext PROVE IInv'
<1> DEFINE b == buf \cup {got}
<1>1. /\ got \in Sent /\ b \in SUBSET Sent /\ got \in b
      /\ Receiver \in Threads /\ Receiver \notin Timers
      /\ InWindow(got) /\ Index(got) \in Nat
  BY SentInWindow, ReorderAssumption DEF DeliverNext, IInv, TypeOK, CursorInv, Threads
<1>2. cursor # -1 => InWindow(cursor) /\ Index(cursor) = Index(got)
  <2>1. SUFFICES ASSUME cursor # -1 PROVE InWindow(cursor) /\ Index(cursor) = Index(got)
    OBVIOUS
  <2>2. InWindow(cursor) /\ Ahead(got, cursor) = 0
    BY <2>1 DEF IInv, CursorInv, DeliverNext, Cursor
  <2>3. Index(cursor) \in Nat /\ Index(got) - Index(cursor) = 0
    BY <1>1, <2>2, AheadIsIndex, ReorderAssumption DEF InWindow
  <2> QED BY <1>1, <2>2, <2>3
<1>3. \A k \in b : Index(k) >= Index(got)
  <2>1. ASSUME NEW k \in buf PROVE Index(k) >= Index(got)
    <3>1. cursor # -1 /\ Index(k) > Index(cursor) /\ k \in Sent
      BY DEF IInv, CursorInv, TypeOK
    <3>2. Index(k) \in Nat
      BY <3>1, SentInWindow
    <3> QED BY <1>1, <1>2, <3>1, <3>2
  <2> QED BY <1>1, <2>1
<1>4. \A i \in 1 .. Len(released) : Index(released[i]) < Index(got)
  BY <1>2 DEF IInv, CursorInv
<1>5. Drain(Receiver, got, b, flushTimer, FALSE)
  BY DEF DeliverNext
<1> HIDE DEF b
<1>6. DrainPost(Receiver, b, flushTimer, FALSE) /\ got \notin buf'
  BY <1>1, <1>3, <1>4, <1>5, DrainFacts DEF IInv
<1>7. flushTimer # NoTimer => flushTimer # Receiver
  BY <1>1 DEF IInv, TypeOK
<1>8. buf' # {} /\ ~ closing => flushTimer # NoTimer
  <2>1. buf' \subseteq buf
    BY <1>6 DEF DrainPost, b
  <2> QED BY <2>1, ReorderAssumption DEF IInv, GapHasTimer
<1> QED BY <1>1, <1>6, <1>7, <1>8, DrainKeeps DEF DeliverNext

LEMMA BufferAheadKeeps == ASSUME IInv, BufferAhead PROVE IInv'
<1> DEFINE p == [pc EXCEPT ![Receiver] = "idle"]
<1>1. /\ got \in Sent /\ Receiver \in Threads /\ Receiver \notin Timers
      /\ Timers \subseteq Threads /\ NoTimer \notin Timers
      /\ InWindow(got) /\ Index(got) \in Nat
  BY SentInWindow, ReorderAssumption DEF BufferAhead, IInv, CursorInv, Threads
<1>2. cursor # -1 /\ Index(got) > Index(cursor)
  <2>1. Ahead(got, got) = 0
    BY <1>1, AheadIsIndex
  <2>2. Ahead(got, Cursor) > 0
    BY ReorderAssumption DEF BufferAhead
  <2>3. cursor # -1 /\ Cursor = cursor
    BY <2>1, <2>2 DEF Cursor
  <2>4. InWindow(cursor)
    BY <2>3 DEF IInv, CursorInv
  <2>5. Index(cursor) \in Nat
    BY <2>4, ReorderAssumption DEF InWindow
  <2>6. Index(got) - Index(cursor) > 0
    BY <1>1, <2>2, <2>3, <2>4, AheadIsIndex
  <2> QED BY <1>1, <2>3, <2>5, <2>6
<1>3. /\ p \in [Threads -> PCs] /\ flushTimer \in Timers \cup {NoTimer}
      /\ \A u \in Threads : p[u] = IF u = Receiver THEN "idle" ELSE pc[u]
  BY <1>1 DEF IInv, TypeOK, PCs
<1>4. Settle(p, flushTimer, buf', TRUE) /\ buf' = buf \cup {got}
  BY DEF BufferAhead
<1> HIDE DEF p
<1>5. /\ pc' \in [Threads -> PCs]
      /\ flushTimer' \in Timers \cup {NoTimer}
      /\ \A u \in Threads : /\ pc'[u] = "feed" <=> p[u] = "feed"
                            /\ pc'[u] = "deliver" <=> p[u] = "deliver"
      /\ flushTimer' # NoTimer =>
           \/ pc'[flushTimer'] = "armed"
           \/ flushTimer' = flushTimer /\ pc'[flushTimer] = p[flushTimer]
      /\ buf' # {} => flushTimer' # NoTimer
  BY <1>3, <1>4, SettleFacts
<1>6. TypeOK'
  <2>1. pc[Receiver] = "deliver" /\ UNCHANGED <<arrived, repeats, lastAck, got, cursor, out, released, fed, closing>>
    BY DEF BufferAhead, feedVars
  <2>2. \A u \in Threads : pc'[u] = "feed" <=> out'[u] # <<>>
    BY <1>1, <1>3, <1>5, <2>1 DEF IInv, TypeOK
  <2> QED BY <1>1, <1>4, <1>5, <2>1, <2>2 DEF IInv, TypeOK, PCs
<1>7. CursorInv' /\ ReleasedInOrder' /\ AckInv'
  BY <1>1, <1>2, <1>3, <1>4, <1>5 DEF IInv, CursorInv, ReleasedInOrder, AckInv, BufferAhead, feedVars, InWindow, Index
<1>8. TimerInv'
  <2>1. CASE flushTimer' # NoTimer /\ flushTimer' = flushTimer /\ pc'[flushTimer] = p[flushTimer]
    BY <1>1, <1>3, <2>1 DEF IInv, TimerInv
  <2> QED BY <1>5, <2>1 DEF TimerInv
<1>9. GapHasTimer'
  BY <1>5, <1>8 DEF GapHasTimer, TimerInv
<1> QED BY <1>6, <1>7, <1>8, <1>9 DEF IInv
LEMMA TooFarAheadKeeps == ASSUME IInv, TooFarAhead PROVE IInv'
<1> DEFINE b == buf \cup {got}
<1>1. /\ got \in Sent /\ b \in SUBSET Sent
      /\ Receiver \in Threads /\ Receiver \notin Timers
      /\ InWindow(got) /\ Index(got) \in Nat
  BY SentInWindow, ReorderAssumption DEF TooFarAhead, IInv, TypeOK, CursorInv, Threads
<1>2. cursor # -1 /\ Index(got) > Index(cursor)
  <2>1. Ahead(got, got) = 0
    BY <1>1, AheadIsIndex
  <2>2. Ahead(got, Cursor) > MaxAhead /\ MaxAhead \in Nat
    BY ReorderAssumption DEF TooFarAhead
  <2>3. cursor # -1 /\ Cursor = cursor
    BY <2>1, <2>2 DEF Cursor
  <2>4. InWindow(cursor)
    BY <2>3 DEF IInv, CursorInv
  <2>5. Index(cursor) \in Nat
    BY <2>4, ReorderAssumption DEF InWindow
  <2>6. Index(got) - Index(cursor) > MaxAhead
    BY <1>1, <2>2, <2>3, <2>4, AheadIsIndex
  <2> QED BY <1>1, <2>2, <2>3, <2>5, <2>6
<1>3. \A k \in b : Index(k) > Index(cursor)
  BY <1>2 DEF IInv, CursorInv
<1>4. AdvancePastGap(Receiver, b, flushTimer)
  BY DEF TooFarAhead
<1> HIDE DEF b
<1>5. DrainPost(Receiver, b, flushTimer, TRUE)
  BY <1>1, <1>2, <1>3, <1>4, AdvanceFacts DEF IInv
<1>6. flushTimer # NoTimer => flushTimer # Receiver
  BY <1>1 DEF IInv, TypeOK
<1> QED BY <1>1, <1>5, <1>6, DrainKeeps DEF TooFarAhead

LEMMA ElapseKeeps == ASSUME IInv, NEW t \in Timers, Elapse(t) PROVE IInv'
<1>1. /\ t \in Threads /\ t # Receiver /\ pc[t] = "armed"
      /\ pc' = [pc EXCEPT ![t] = "fired"]
      /\ UNCHANGED <<arrived, repeats, lastAck, got, cursor, buf, flushTimer, out, released, fed, closing>>
  BY ReorderAssumption DEF Elapse, Threads, windowVars, feedVars
<1>2. TypeOK'
  <2>1. pc' \in [Threads -> PCs]
    BY <1>1 DEF IInv, TypeOK, PCs
  <2>2. \A u \in Threads : pc'[u] = "feed" <=> out[u] # <<>>
    BY <1>1 DEF IInv, TypeOK
  <2> QED BY <1>1, <2>1, <2>2 DEF IInv, TypeOK, PCs
<1>3. CursorInv' /\ ReleasedInOrder' /\ AckInv'
  BY <1>1 DEF IInv, TypeOK, CursorInv, ReleasedInOrder, AckInv, InWindow, Index, Threads
<1>4. TimerInv' /\ GapHasTimer'
  BY <1>1 DEF IInv, TypeOK, TimerInv, GapHasTimer, Threads
<1> QED BY <1>2, <1>3, <1>4 DEF IInv

LEMMA OnFlushKeeps == ASSUME IInv, NEW t \in Timers, OnFlush(t) PROVE IInv'
<1>1. /\ t \in Threads /\ t # Receiver /\ pc[t] = "fired"
      /\ UNCHANGED <<arrived, repeats, lastAck, got, fed, closing>>
  BY ReorderAssumption DEF OnFlush, Threads
<1>2. CASE buf = {}
  <2>1. /\ flushTimer' = NoTimer /\ pc' = [pc EXCEPT ![t] = "idle"]
        /\ UNCHANGED <<cursor, buf, out, released>>
    BY <1>2 DEF OnFlush
  <2>2. TypeOK'
    <3>1. pc' \in [Threads -> PCs]
      BY <1>1, <2>1 DEF IInv, TypeOK, PCs
    <3>2. \A u \in Threads : pc'[u] = "feed" <=> out[u] # <<>>
      BY <1>1, <2>1 DEF IInv, TypeOK
    <3> QED BY <1>1, <2>1, <3>1, <3>2 DEF IInv, TypeOK, PCs
  <2>3. CursorInv' /\ ReleasedInOrder' /\ AckInv'
    BY <1>1, <2>1 DEF IInv, TypeOK, CursorInv, ReleasedInOrder, AckInv, InWindow, Index, Threads
  <2>4. TimerInv' /\ GapHasTimer'
    BY <1>2, <2>1 DEF TimerInv, GapHasTimer
  <2> QED BY <2>2, <2>3, <2>4 DEF IInv
<1>3. CASE buf # {}
  <2>1. cursor # -1 /\ \A k \in buf : Index(k) > Index(cursor)
    BY <1>3 DEF IInv, CursorInv
  <2>2. AdvancePastGap(t, buf, NoTimer) /\ buf \in SUBSET Sent
    BY <1>3 DEF OnFlush, IInv, TypeOK
  <2>3. DrainPost(t, buf, NoTimer, TRUE)
    BY <1>1, <2>1, <2>2, AdvanceFacts DEF IInv
  <2> QED BY <1>1, <2>2, <2>3, DrainKeeps
<1> QED BY <1>2, <1>3

LEMMA FeedKeeps == ASSUME IInv, NEW t \in Threads, Feed(t) PROVE IInv'
<1>1. /\ pc[t] = "feed" /\ out[t] \in Seq(Sent) /\ out[t] # <<>>
      /\ UNCHANGED <<arrived, repeats, lastAck, got, cursor, buf, flushTimer, released, closing>>
      /\ fed' = Append(fed, Head(out[t])) /\ out' = [out EXCEPT ![t] = Tail(out[t])]
      /\ pc' = IF Len(out[t]) = 1 THEN [pc EXCEPT ![t] = "idle"] ELSE pc
  BY DEF IInv, TypeOK, Feed, windowVars
<1>2. /\ Head(out[t]) \in Sent /\ Tail(out[t]) \in Seq(Sent)
      /\ Tail(out[t]) = <<>> <=> Len(out[t]) = 1
  <2>1. /\ Head(out[t]) \in Sent /\ Tail(out[t]) \in Seq(Sent)
        /\ Len(Tail(out[t])) = Len(out[t]) - 1
    BY <1>1, HeadTailProperties
  <2>2. Tail(out[t]) # <<>> => Len(Tail(out[t])) \in Nat \ {0}
    BY <2>1, EmptySeq
  <2>3. Tail(out[t]) = <<>> => Len(Tail(out[t])) = 0
    BY EmptySeq
  <2>4. Len(out[t]) \in Nat
    BY <1>1, LenProperties
  <2> QED BY <2>1, <2>2, <2>3, <2>4
<1>3. TypeOK'
  <2>1. out' \in [Threads -> Seq(Sent)] /\ fed' \in Seq(Sent) /\ pc' \in [Threads -> PCs]
    BY <1>1, <1>2 DEF IInv, TypeOK, PCs
  <2>2. \A u \in Threads : pc'[u] = "feed" <=> out'[u] # <<>>
    BY <1>1, <1>2 DEF IInv, TypeOK
  <2> QED BY <1>1, <2>1, <2>2 DEF IInv, TypeOK, PCs
<1>4. CursorInv' /\ ReleasedInOrder' /\ AckInv'
  BY <1>1 DEF IInv, TypeOK, CursorInv, ReleasedInOrder, AckInv, InWindow, Index, Threads
<1>5. TimerInv' /\ GapHasTimer'
  BY <1>1, ReorderAssumption DEF IInv, TypeOK, TimerInv, GapHasTimer, Threads
<1> QED BY <1>3, <1>4, <1>5 DEF IInv

LEMMA CloseKeeps == ASSUME IInv, Close PROVE IInv'
<1>1. /\ UNCHANGED <<arrived, repeats, lastAck, got, cursor, buf, out, released, fed>>
      /\ closing' = TRUE /\ flushTimer' = NoTimer
      /\ pc' = IF flushTimer = NoTimer THEN pc ELSE Cancelled(pc, flushTimer)
  BY DEF Close, feedVars
<1>2. /\ pc' \in [Threads -> PCs]
      /\ \A u \in Threads : /\ pc'[u] = "feed" <=> pc[u] = "feed"
                            /\ pc'[u] = "deliver" <=> pc[u] = "deliver"
  BY <1>1 DEF IInv, TypeOK, Cancelled, PCs, Threads
<1>3. TypeOK'
  BY <1>1, <1>2 DEF IInv, TypeOK, PCs
<1>4. CursorInv' /\ ReleasedInOrder' /\ AckInv'
  BY <1>1, <1>2 DEF IInv, CursorInv, ReleasedInOrder, AckInv, InWindow, Index, Threads
<1>5. TimerInv' /\ GapHasTimer'
  BY <1>1 DEF TimerInv, GapHasTimer
<1> QED BY <1>3, <1>4, <1>5 DEF IInv

LEMMA StutterKeeps == ASSUME IInv, UNCHANGED vars PROVE IInv'
<1>1. UNCHANGED <<arrived, repeats, lastAck, got, cursor, buf, flushTimer, pc, out, released, fed, closing>>
  BY DEF vars, windowVars, feedVars
<1>2. TypeOK' /\ TimerInv' /\ GapHasTimer' /\ AckInv'
  BY <1>1 DEF IInv, TypeOK, TimerInv, GapHasTimer, AckInv
<1>3. CursorInv' /\ ReleasedInOrder'
  BY <1>1 DEF IInv, CursorInv, ReleasedInOrder, InWindow, Index
<1> QED BY <1>2, <1>3 DEF IInv

-----------------------------------------------------------------------------
(***************************************************************************)
(* The theorems.                                                           *)
(***************************************************************************)

\* The inductive invariant holds in every state: the window, the released
\* packets and the timers agree after every step of every thread.
THEOREM Invariance == Spec => []IInv
<1>1. Init => IInv
  BY InitInv
<1>2. IInv /\ [Next]_vars => IInv'
  BY ReceiveKeeps, DropLateKeeps, DeliverNextKeeps, BufferAheadKeeps,
     TooFarAheadKeeps, ElapseKeeps, OnFlushKeeps, FeedKeeps, CloseKeeps,
     StutterKeeps DEF Next, DeliverInOrder
<1> QED BY <1>1, <1>2, PTL DEF Spec

\* Every variable keeps its type (the state of Session, session.py:184-205).
THEOREM TypeCorrect == Spec => []TypeOK
<1>1. IInv => TypeOK
  BY DEF IInv
<1> QED BY <1>1, Invariance, PTL

\* What is buffered is ahead of the cursor, by the signed distance the code
\* computes: no payload is stranded behind it (session.py:841-873).
THEOREM NothingStranded == Spec => []BufferIsAhead
<1>1. IInv => BufferIsAhead
  <2>1. SUFFICES ASSUME IInv, NEW s \in buf PROVE cursor # -1 /\ Ahead(s, cursor) > 0
    BY DEF BufferIsAhead
  <2>2. /\ cursor # -1 /\ InWindow(cursor) /\ Index(s) > Index(cursor)
        /\ InWindow(s) /\ Index(s) \in Nat /\ Index(cursor) \in Nat
    <3>1. cursor # -1 /\ InWindow(cursor) /\ Index(s) > Index(cursor) /\ s \in Sent
      BY <2>1 DEF IInv, CursorInv, TypeOK
    <3>2. InWindow(s) /\ Index(s) \in Nat
      BY <3>1, SentInWindow
    <3> QED BY <3>1, <3>2, ReorderAssumption DEF InWindow
  <2>3. Ahead(s, cursor) = Index(s) - Index(cursor)
    BY <2>2, AheadIsIndex
  <2> QED BY <2>2, <2>3
<1> QED BY <1>1, Invariance, PTL

\* A gap always has a timer that is going to give up on it
\* (session.py:875-890).
THEOREM GapsAreTimed == Spec => []GapHasTimer
<1>1. IInv => GapHasTimer
  BY DEF IInv
<1> QED BY <1>1, Invariance, PTL

\* Payloads are released in the order they were sent, none twice
\* (session.py:810-873).
THEOREM ReleaseOrder == Spec => []ReleasedInOrder
<1>1. IInv => ReleasedInOrder
  BY DEF IInv
<1> QED BY <1>1, Invariance, PTL

\* ACKs name video packets that arrived (session.py:785-798).
THEOREM AckCorrect == Spec => []AckIsReceived
<1>1. IInv => AckIsReceived
  BY DEF IInv, AckInv, AckIsReceived, Acknowledged
<1> QED BY <1>1, Invariance, PTL

-----------------------------------------------------------------------------
(***************************************************************************)
(* From the release under _lock to the extractor.  A release puts a run in *)
(* the hands of a thread that had nothing in them; each _feed moves one    *)
(* payload on.                                                             *)
(***************************************************************************)
HandsOK  == \A t \in Threads : Len(out[t]) <= N
HandInv  == HandsOK /\ HandedOverOnce

Released == {released[i] : i \in 1 .. Len(released)}
Fed      == {fed[i] : i \in 1 .. Len(fed)}
Held     == {out[x[1]][x[2]] : x \in InHand}

LEMMA InHandFinite == IsFiniteSet(InHand) /\ Cardinality(InHand) \in Nat
<1>1. IsFiniteSet(Threads)
  <2>1. IsFiniteSet(Timers)
    BY ReorderAssumption DEF ReorderAssumption
  <2>2. IsFiniteSet({Receiver})
    BY FS_Singleton
  <2> QED BY <2>1, <2>2, FS_Union DEF Threads
<1>2. IsFiniteSet(1 .. N)
  <2>1. 1 \in Int /\ N \in Int
    BY ReorderAssumption DEF ReorderAssumption
  <2> QED BY <2>1, FS_Interval
<1>3. IsFiniteSet(Threads \X (1 .. N))
  BY <1>1, <1>2, FS_Product
<1>4. InHand \subseteq Threads \X (1 .. N)
  BY DEF InHand
<1> QED BY <1>3, <1>4, FS_Subset, FS_CardinalityType

\* In hand is what some thread has at some place.
LEMMA HeldIs ==
    ASSUME TypeOK, HandsOK, NEW v
    PROVE  v \in Held <=> \E t \in Threads : \E i \in 1 .. Len(out[t]) : v = out[t][i]
<1>1. ASSUME NEW t \in Threads, NEW i \in 1 .. Len(out[t])
      PROVE  out[t][i] \in Held
  <2>1. Len(out[t]) \in Nat /\ Len(out[t]) <= N /\ N \in Nat
    BY ReorderAssumption DEF ReorderAssumption, TypeOK, HandsOK
  <2>2. i \in 1 .. N /\ i <= Len(out[t])
    BY <2>1
  <2>3. <<t, i>> \in InHand
    BY <2>2 DEF InHand
  <2> QED BY <2>3 DEF Held
<1>2. ASSUME v \in Held
      PROVE  \E t \in Threads : \E i \in 1 .. Len(out[t]) : v = out[t][i]
  <2>1. PICK x \in InHand : v = out[x[1]][x[2]]
    BY <1>2 DEF Held
  <2>2. x[1] \in Threads /\ x[2] \in 1 .. N /\ x[2] <= Len(out[x[1]])
    BY DEF InHand
  <2>3. Len(out[x[1]]) \in Nat
    BY <2>2 DEF TypeOK
  <2>4. x[2] \in 1 .. Len(out[x[1]])
    BY <2>2, <2>3, ReorderAssumption
  <2> QED BY <2>1, <2>2, <2>4
<1> QED BY <1>1, <1>2

LEMMA HandedParts ==
    ASSUME HandInv
    PROVE  Len(fed) + Cardinality(InHand) = Len(released) /\ Released = Fed \cup Held
<1>1. Len(fed) + Cardinality(InHand) = Len(released)
  BY DEF HandInv, HandedOverOnce
<1>2. Released = Fed \cup Held
  BY DEF HandInv, HandedOverOnce, Released, Fed, Held
<1> QED BY <1>1, <1>2

\* Steps outside the hand-over.
LEMMA HandFrame == ASSUME HandInv, UNCHANGED feedVars PROVE HandInv'
<1>1. out' = out /\ released' = released /\ fed' = fed
  BY DEF feedVars
<1>2. InHand' = InHand
  BY <1>1 DEF InHand
<1>3. HandsOK'
  BY <1>1 DEF HandInv, HandsOK
<1>4. HandedOverOnce'
  BY <1>1, <1>2 DEF HandInv, HandedOverOnce
<1> QED BY <1>3, <1>4 DEF HandInv

\* A thread with empty hands takes the run it released.
LEMMA DrainHands ==
    ASSUME TypeOK, HandInv, NEW t \in Threads, out[t] = <<>>,
           NEW b \in SUBSET Sent, NEW s \in b, NEW ft, NEW schedule,
           Drain(t, s, b, ft, schedule), UNCHANGED fed
    PROVE  HandInv'
<1>1. PICK n \in 1 .. Cardinality(b) :
        /\ IsRun(b, s, n)
        /\ out' = [out EXCEPT ![t] = RunFrom(s, n)]
        /\ released' = released \o RunFrom(s, n)
  BY DEF Drain
<1>2. n \in Nat \ {0} /\ s \in Sent
  BY SentFinite
<1>3. n <= N /\ N \in Nat
  <2>1. Index(s) + n <= N
    BY <1>1, <1>2, RunInside
  <2>2. Index(s) \in Nat
    BY <1>2, SentInWindow
  <2> QED BY <1>2, <2>1, <2>2, ReorderAssumption DEF ReorderAssumption
<1> DEFINE r == RunFrom(s, n)
<1>4. r \in Seq(Sent) /\ Len(r) = n
  <2>1. \A i \in 1 .. n : Plus(s, i - 1) \in Sent
    BY <1>1, <1>2 DEF IsRun
  <2> QED BY <1>2, <2>1 DEF RunFrom
<1>5. out' = [out EXCEPT ![t] = r] /\ released' = released \o r
  BY <1>1
<1> HIDE DEF r
<1>6. /\ out'[t] = r /\ \A u \in Threads \ {t} : out'[u] = out[u]
      /\ out' \in [Threads -> Seq(Sent)]
  BY <1>4, <1>5 DEF TypeOK
<1>7. HandsOK'
  BY <1>3, <1>4, <1>6 DEF HandsOK, HandInv
<1>8. InHand' = InHand \cup ({t} \X (1 .. n)) /\ InHand \cap ({t} \X (1 .. n)) = {}
  <2>1. ASSUME NEW u \in Threads, NEW i \in 1 .. N
        PROVE  <<u, i>> \in InHand' <=> <<u, i>> \in InHand \/ (u = t /\ i \in 1 .. n)
    <3>1. CASE u = t
      BY <1>2, <1>4, <1>6, <3>1 DEF InHand
    <3>2. CASE u # t
      BY <1>6, <3>2 DEF InHand
    <3> QED BY <3>1, <3>2
  <2>2. ASSUME NEW i \in 1 .. n PROVE <<t, i>> \notin InHand /\ i \in 1 .. N
    BY <1>2, <1>3 DEF InHand
  <2>3. ASSUME NEW x \in InHand' \cup InHand PROVE x = <<x[1], x[2]>> /\ x[1] \in Threads /\ x[2] \in 1 .. N
    BY DEF InHand
  <2>4. ASSUME NEW x \in {t} \X (1 .. n) PROVE x = <<t, x[2]>> /\ x[2] \in 1 .. n
    OBVIOUS
  <2>5. InHand' \subseteq InHand \cup ({t} \X (1 .. n))
    BY <2>1, <2>3
  <2>6. InHand \subseteq InHand'
    BY <2>1, <2>3
  <2>7. {t} \X (1 .. n) \subseteq InHand'
    BY <2>1, <2>2, <2>4
  <2>8. InHand \cap ({t} \X (1 .. n)) = {}
    BY <2>2, <2>4
  <2> QED BY <2>5, <2>6, <2>7, <2>8
<1>9. Cardinality(InHand') = Cardinality(InHand) + n
  <2>1. IsFiniteSet({t}) /\ Cardinality({t}) = 1
    BY FS_Singleton
  <2>2. IsFiniteSet(1 .. n) /\ Cardinality(1 .. n) = n
    <3>1. 1 \in Int /\ n \in Int /\ ~ (1 > n)
      BY <1>2
    <3> QED BY <1>2, <3>1, FS_Interval
  <2>3. IsFiniteSet({t} \X (1 .. n)) /\ Cardinality({t} \X (1 .. n)) = n
    <3>1. Cardinality({t} \X (1 .. n)) = 1 * n /\ IsFiniteSet({t} \X (1 .. n))
      BY <2>1, <2>2, FS_Product
    <3> QED BY <1>2, <3>1
  <2>4. Cardinality(InHand \cap ({t} \X (1 .. n))) = 0
    BY <1>8, FS_EmptySet
  <2> DEFINE P == {t} \X (1 .. n)
  <2>5. IsFiniteSet(P) /\ Cardinality(P) = n /\ Cardinality(InHand \cap P) = 0
        /\ InHand' = InHand \cup P
    BY <1>8, <2>3, <2>4
  <2> HIDE DEF P
  <2>6. Cardinality(InHand \cup P) = Cardinality(InHand) + Cardinality(P) - Cardinality(InHand \cap P)
    BY <2>5, InHandFinite, FS_Union
  <2> QED BY <1>2, <2>5, <2>6, InHandFinite
<1>10. /\ released \in Seq(Sent) /\ Len(released) \in Nat /\ Len(released') = Len(released) + n
       /\ \A i \in 1 .. Len(released) + n :
            released'[i] = IF i <= Len(released) THEN released[i] ELSE r[i - Len(released)]
  <2>1. released \in Seq(Sent)
    BY DEF TypeOK
  <2> QED BY <1>4, <1>5, <2>1, ConcatProperties, LenProperties
<1>11. Released' = Released \cup {r[i] : i \in 1 .. n}
  <2>1. ASSUME NEW i \in 1 .. Len(released')
        PROVE  released'[i] \in Released \cup {r[k] : k \in 1 .. n}
    <3>1. CASE i <= Len(released)
      BY <1>2, <1>10, <3>1 DEF Released
    <3>2. CASE i > Len(released)
      <4>1. i - Len(released) \in 1 .. n /\ released'[i] = r[i - Len(released)]
        BY <1>2, <1>10, <3>2
      <4> QED BY <4>1
    <3> QED BY <1>10, <3>1, <3>2
  <2>2. ASSUME NEW i \in 1 .. Len(released) PROVE released[i] \in Released'
    BY <1>2, <1>10 DEF Released
  <2>3. ASSUME NEW i \in 1 .. n PROVE r[i] \in Released'
    <3>1. /\ Len(released) + i \in 1 .. Len(released) + n
          /\ ~ (Len(released) + i <= Len(released)) /\ Len(released) + i - Len(released) = i
      BY <1>2, <1>10
    <3>2. released'[Len(released) + i] = r[i]
      BY <1>10, <3>1
    <3> QED BY <1>10, <3>1, <3>2 DEF Released
  <2> QED BY <2>1, <2>2, <2>3 DEF Released
<1>12. Held' = Held \cup {r[i] : i \in 1 .. n}
  <2>1. TypeOK' \/ out' \in [Threads -> Seq(Sent)]
    BY <1>6
  <2>2. ASSUME NEW x \in InHand'
        PROVE  out'[x[1]][x[2]] \in Held \cup {r[i] : i \in 1 .. n}
    <3>1. CASE x \in InHand
      <4>1. x[1] # t /\ x[1] \in Threads
        BY <1>2, <3>1 DEF InHand
      <4>2. out'[x[1]] = out[x[1]]
        BY <1>6, <4>1
      <4> QED BY <3>1, <4>2 DEF Held
    <3>2. CASE x \in {t} \X (1 .. n)
      BY <1>6, <3>2
    <3> QED BY <1>8, <3>1, <3>2
  <2>3. ASSUME NEW x \in InHand PROVE out[x[1]][x[2]] \in Held'
    <3>1. x[1] # t /\ x[1] \in Threads
      BY <1>2, <2>3 DEF InHand
    <3>2. out'[x[1]] = out[x[1]] /\ x \in InHand'
      BY <1>6, <1>8, <3>1
    <3> QED BY <3>2 DEF Held
  <2>4. ASSUME NEW i \in 1 .. n PROVE r[i] \in Held'
    <3>1. <<t, i>> \in InHand'
      BY <1>8
    <3>2. out'[<<t, i>>[1]][<<t, i>>[2]] = r[i]
      BY <1>6
    <3> QED BY <3>1, <3>2 DEF Held
  <2> QED BY <2>2, <2>3, <2>4 DEF Held
<1>13. Fed' = Fed /\ Len(fed') = Len(fed) /\ Len(fed) \in Nat
  BY DEF Fed, TypeOK
<1>14. Len(fed) + Cardinality(InHand) = Len(released) /\ Released = Fed \cup Held
  BY HandedParts
<1>15. Len(fed') + Cardinality(InHand') = Len(released')
  <2>1. /\ Len(fed) \in Nat /\ Cardinality(InHand) \in Nat /\ Len(released) \in Nat
        /\ Len(fed) + Cardinality(InHand) = Len(released)
    BY <1>10, <1>13, <1>14, InHandFinite
  <2>2. Len(fed') = Len(fed) /\ Len(released') = Len(released) + n
    BY <1>10, <1>13
  <2> QED BY <1>2, <1>9, <2>1, <2>2
<1>16. Released' = Fed' \cup Held'
  BY <1>11, <1>12, <1>13, <1>14
<1> QED BY <1>7, <1>15, <1>16 DEF HandInv, HandedOverOnce, Released, Fed, Held

\* _feed moves the first payload in hand to the extractor.
LEMMA FeedHands == ASSUME TypeOK, HandInv, NEW t \in Threads, Feed(t) PROVE HandInv'
<1> DEFINE o == out[t]
           m == Len(o)
<1>1. /\ o # <<>> /\ fed' = Append(fed, Head(o)) /\ out' = [out EXCEPT ![t] = Tail(o)]
      /\ released' = released
  BY DEF Feed, TypeOK
<1>2. /\ o \in Seq(Sent) /\ m \in Nat \ {0} /\ Head(o) = o[1] /\ Head(o) \in Sent
      /\ Tail(o) \in Seq(Sent) /\ Len(Tail(o)) = m - 1
      /\ \A i \in 1 .. m - 1 : Tail(o)[i] = o[i + 1]
  <2>1. o \in Seq(Sent)
    BY DEF TypeOK
  <2> QED BY <1>1, <2>1, HeadTailProperties, LenProperties
<1>3. m <= N /\ N \in Nat
  BY ReorderAssumption DEF ReorderAssumption, HandInv, HandsOK
<1>4. /\ out'[t] = Tail(o) /\ \A u \in Threads \ {t} : out'[u] = out[u]
      /\ out' \in [Threads -> Seq(Sent)]
  BY <1>1, <1>2 DEF TypeOK
<1>5. HandsOK'
  BY <1>2, <1>3, <1>4 DEF HandsOK, HandInv
<1>6. InHand' = InHand \ {<<t, m>>} /\ <<t, m>> \in InHand
  <2>1. ASSUME NEW u \in Threads, NEW i \in 1 .. N
        PROVE  <<u, i>> \in InHand' <=> <<u, i>> \in InHand /\ <<u, i>> # <<t, m>>
    <3>1. CASE u = t
      BY <1>2, <1>4, <3>1 DEF InHand
    <3>2. CASE u # t
      BY <1>4, <3>2 DEF InHand
    <3> QED BY <3>1, <3>2
  <2>2. <<t, m>> \in InHand
    BY <1>2, <1>3 DEF InHand
  <2>3. ASSUME NEW x \in InHand' \cup InHand PROVE x = <<x[1], x[2]>> /\ x[1] \in Threads /\ x[2] \in 1 .. N
    BY DEF InHand
  <2>4. InHand' \subseteq InHand \ {<<t, m>>}
    BY <2>1, <2>3
  <2>5. InHand \ {<<t, m>>} \subseteq InHand'
    BY <2>1, <2>3
  <2> QED BY <2>2, <2>4, <2>5
<1>7. Cardinality(InHand') = Cardinality(InHand) - 1
  BY <1>6, InHandFinite, FS_RemoveElement
<1>8. /\ fed \in Seq(Sent) /\ Len(fed) \in Nat /\ Len(fed') = Len(fed) + 1
      /\ fed'[Len(fed) + 1] = o[1]
      /\ \A i \in 1 .. Len(fed) : fed'[i] = fed[i]
  <2>1. fed \in Seq(Sent)
    BY DEF TypeOK
  <2> QED BY <1>1, <1>2, <2>1, AppendProperties, LenProperties
<1>9. Fed' = Fed \cup {o[1]}
  <2>1. ASSUME NEW i \in 1 .. Len(fed') PROVE fed'[i] \in Fed \cup {o[1]}
    BY <1>8 DEF Fed
  <2>2. ASSUME NEW i \in 1 .. Len(fed) PROVE fed[i] \in Fed'
    BY <1>8 DEF Fed
  <2>3. o[1] \in Fed'
    BY <1>8 DEF Fed
  <2> QED BY <2>1, <2>2, <2>3 DEF Fed
<1>10. Held = Held' \cup {o[1]}
  <2>1. ASSUME NEW x \in InHand' PROVE out'[x[1]][x[2]] \in Held
    <3>1. x[1] \in Threads /\ x \in InHand
      BY <1>6 DEF InHand
    <3>2. CASE x[1] # t
      <4>1. out'[x[1]] = out[x[1]]
        BY <1>4, <3>1, <3>2
      <4> QED BY <3>1, <4>1 DEF Held
    <3>3. CASE x[1] = t
      <4>1. x[2] \in 1 .. m - 1
        <5>1. x[2] \in 1 .. N /\ x[2] <= Len(out'[x[1]])
          BY <2>1 DEF InHand
        <5>2. Len(out'[x[1]]) = m - 1
          BY <1>2, <1>4, <3>3
        <5> QED BY <1>2, <1>3, <5>1, <5>2
      <4>2. out'[x[1]][x[2]] = o[x[2] + 1] /\ x[2] + 1 \in 1 .. N /\ x[2] + 1 <= m
        <5> DEFINE k == x[2]
        <5>1. k \in 1 .. m - 1
          BY <4>1
        <5> HIDE DEF k
        <5>2. Tail(o)[k] = o[k + 1] /\ k + 1 \in 1 .. N /\ k + 1 <= m
          BY <1>2, <1>3, <5>1
        <5>3. out'[x[1]] = Tail(o)
          BY <1>4, <3>3
        <5> QED BY <5>2, <5>3 DEF k
      <4>3. <<t, x[2] + 1>> \in InHand
        BY <4>2 DEF InHand
      <4> QED BY <4>2, <4>3 DEF Held
    <3> QED BY <3>2, <3>3
  <2>2. o[1] \in Held
    <3>1. <<t, 1>> \in InHand
      BY <1>2, <1>3 DEF InHand
    <3> QED BY <3>1 DEF Held
  <2>3. ASSUME NEW x \in InHand PROVE out[x[1]][x[2]] \in Held' \cup {o[1]}
    <3>1. x[1] \in Threads /\ x[2] \in 1 .. N
      BY DEF InHand
    <3>2. CASE x[1] # t
      <4>1. out'[x[1]] = out[x[1]] /\ x \in InHand'
        BY <1>4, <1>6, <3>1, <3>2
      <4> QED BY <4>1 DEF Held
    <3>3. CASE x[1] = t /\ x[2] = 1
      BY <3>3
    <3>4. CASE x[1] = t /\ x[2] # 1
      <4>1. x[2] - 1 \in 1 .. m - 1 /\ x[2] - 1 \in 1 .. N /\ x[2] - 1 + 1 = x[2]
        BY <1>2, <1>3, <2>3, <3>1, <3>4 DEF InHand
      <4>2. out'[t][x[2] - 1] = out[x[1]][x[2]]
        BY <1>2, <1>4, <3>4, <4>1
      <4>3. <<t, x[2] - 1>> \in InHand'
        BY <1>2, <1>4, <4>1 DEF InHand
      <4> QED BY <4>2, <4>3 DEF Held
    <3> QED BY <3>2, <3>3, <3>4
  <2> QED BY <2>1, <2>2, <2>3 DEF Held
<1>11. Len(fed) + Cardinality(InHand) = Len(released) /\ Released = Fed \cup Held
  BY HandedParts
<1>12. Len(fed') + Cardinality(InHand') = Len(released')
  BY <1>1, <1>7, <1>8, <1>11, InHandFinite
<1>13. Released' = Fed' \cup Held'
  BY <1>1, <1>9, <1>10, <1>11 DEF Released
<1> QED BY <1>5, <1>12, <1>13 DEF HandInv, HandedOverOnce, Released, Fed, Held

LEMMA HandsInitial == Init => HandInv
<1> SUFFICES ASSUME Init PROVE HandInv
  OBVIOUS
<1>1. /\ out = [t \in Threads |-> <<>>] /\ fed = <<>> /\ released = <<>>
      /\ N \in Nat
  BY ReorderAssumption DEF ReorderAssumption, Init
<1>2. InHand = {}
  BY <1>1 DEF InHand
<1>3. HandsOK
  BY <1>1 DEF HandsOK
<1>4. Cardinality(InHand) = 0
  BY <1>2, FS_EmptySet
<1>5. HandedOverOnce
  <2>1. Len(fed) = 0 /\ Len(released) = 0
    BY <1>1
  <2> QED BY <1>2, <1>4, <2>1 DEF HandedOverOnce
<1> QED BY <1>3, <1>5 DEF HandInv

LEMMA HandsInductive == IInv /\ HandInv /\ [Next]_vars => HandInv'
<1> SUFFICES ASSUME IInv, HandInv, [Next]_vars PROVE HandInv'
  OBVIOUS
<1>1. TypeOK /\ buf \in SUBSET Sent
  BY DEF IInv, TypeOK
<1>2. CASE UNCHANGED vars
  BY <1>2, HandFrame DEF vars
<1>3. CASE \E p \in Packets : Receive(p)
  BY <1>3, HandFrame DEF Receive
<1>4. CASE DeliverInOrder
  <2>1. CASE DropLate \/ BufferAhead
    BY <2>1, HandFrame DEF DropLate, BufferAhead
  <2>2. CASE DeliverNext \/ TooFarAhead
    <3>1. pc[Receiver] = "deliver" /\ UNCHANGED fed
      BY <2>2 DEF DeliverNext, TooFarAhead
    <3>2. Receiver \in Threads /\ out[Receiver] = <<>>
      BY <1>1, <3>1 DEF Threads, TypeOK
    <3>3. buf \cup {got} \in SUBSET Sent
      BY <1>1, <3>1 DEF IInv, CursorInv
    <3>4. \E s \in buf \cup {got} : \E schedule \in BOOLEAN :
             Drain(Receiver, s, buf \cup {got}, flushTimer, schedule)
      BY <2>2 DEF DeliverNext, TooFarAhead, AdvancePastGap
    <3> QED BY <1>1, <3>1, <3>2, <3>3, <3>4, DrainHands
  <2> QED BY <1>4, <2>1, <2>2 DEF DeliverInOrder
<1>5. ASSUME NEW t \in Timers, Elapse(t) \/ OnFlush(t) PROVE HandInv'
  <2>1. CASE Elapse(t)
    BY <2>1, HandFrame DEF Elapse
  <2>2. CASE OnFlush(t)
    <3>1. pc[t] = "fired" /\ UNCHANGED fed /\ t \in Threads
      BY <2>2 DEF OnFlush, Threads
    <3>2. out[t] = <<>>
      BY <1>1, <3>1 DEF TypeOK
    <3>3. CASE buf = {}
      BY <2>2, <3>1, <3>3, HandFrame DEF OnFlush, feedVars
    <3>4. CASE buf # {}
      <4>1. \E s \in buf : Drain(t, s, buf, NoTimer, TRUE)
        BY <2>2, <3>4 DEF OnFlush, AdvancePastGap
      <4> QED BY <1>1, <3>1, <3>2, <4>1, DrainHands
    <3> QED BY <3>3, <3>4
  <2> QED BY <1>5, <2>1, <2>2
<1>6. ASSUME NEW t \in Threads, Feed(t) PROVE HandInv'
  BY <1>1, <1>6, FeedHands
<1>7. CASE Close
  BY <1>7, HandFrame DEF Close
<1> QED BY <1>2, <1>3, <1>4, <1>5, <1>6, <1>7 DEF Next

\* What has been released under _lock has been fed once or is in the hands of one thread,
\* however the receive thread and the timers interleave (session.py:838-895).
THEOREM HandedOver == Spec => []HandedOverOnce
<1>1. HandInv => HandedOverOnce
  BY DEF HandInv
<1> QED BY <1>1, Invariance, HandsInitial, HandsInductive, PTL DEF Spec

\* The extractor gets no payload twice, and none that a thread still has in hand.
FedOnce ==
    /\ \A i, j \in 1 .. Len(fed) : i # j => fed[i] # fed[j]
    /\ Fed \cap Held = {}

\* Counting: as many different payloads were released as were fed and are in hand.
LEMMA CountedOnce == ASSUME TypeOK, ReleasedInOrder, HandInv PROVE FedOnce
<1>1. /\ Len(fed) \in Nat /\ Len(released) \in Nat
      /\ \A i \in 1 .. Len(released) : released[i] \in Sent
  BY DEF TypeOK
<1>2. /\ IsFiniteSet(1 .. Len(fed)) /\ Cardinality(1 .. Len(fed)) = Len(fed)
      /\ IsFiniteSet(1 .. Len(released)) /\ Cardinality(1 .. Len(released)) = Len(released)
  <2>1. ASSUME NEW n \in Nat PROVE IsFiniteSet(1 .. n) /\ Cardinality(1 .. n) = n
    <3>1. 1 \in Int /\ n \in Int /\ (IF 1 > n THEN 0 ELSE n - 1 + 1) = n
      OBVIOUS
    <3> QED BY <3>1, FS_Interval
  <2> QED BY <1>1, <2>1
<1>3. IsFiniteSet(Released) /\ Cardinality(Released) = Len(released)
  <2> DEFINE f == [i \in 1 .. Len(released) |-> released[i]]
  <2>1. f \in Surjection(1 .. Len(released), Released)
    BY DEF Surjection, Released
  <2>2. f \in Injection(1 .. Len(released), Released)
    <3>1. ASSUME NEW i \in 1 .. Len(released), NEW j \in 1 .. Len(released), i # j
          PROVE  released[i] # released[j]
      <4>1. Minus(released[i], Start) \in Nat /\ Minus(released[j], Start) \in Nat
        BY <1>1, SentInWindow DEF Index
      <4>2. i < j \/ j < i
        BY <1>1, <3>1
      <4> QED BY <4>1, <4>2 DEF ReleasedInOrder
    <3> QED BY <3>1 DEF Injection, IsInjective, Released
  <2> HIDE DEF f
  <2> QED BY <1>2, <2>1, <2>2, FS_Surjection
<1>4. /\ IsFiniteSet(Fed) /\ Cardinality(Fed) <= Len(fed)
      /\ Cardinality(Fed) = Len(fed) => \A i, j \in 1 .. Len(fed) : i # j => fed[i] # fed[j]
  <2> DEFINE f == [i \in 1 .. Len(fed) |-> fed[i]]
  <2>1. f \in Surjection(1 .. Len(fed), Fed)
    BY DEF Surjection, Fed
  <2>2. f \in Injection(1 .. Len(fed), Fed) =>
            \A i, j \in 1 .. Len(fed) : i # j => fed[i] # fed[j]
    BY DEF Injection, IsInjective
  <2> HIDE DEF f
  <2> QED BY <1>2, <2>1, <2>2, FS_Surjection
<1>5. IsFiniteSet(Held) /\ Cardinality(Held) <= Cardinality(InHand)
  <2> DEFINE f == [x \in InHand |-> out[x[1]][x[2]]]
  <2>1. f \in Surjection(InHand, Held)
    BY DEF Surjection, Held
  <2> HIDE DEF f
  <2> QED BY <2>1, InHandFinite, FS_Surjection
<1>6. Len(fed) + Cardinality(InHand) = Len(released) /\ Released = Fed \cup Held
  BY HandedParts
<1>7. Cardinality(Released) = Cardinality(Fed) + Cardinality(Held) - Cardinality(Fed \cap Held)
  BY <1>4, <1>5, <1>6, FS_Union
<1>8. IsFiniteSet(Fed \cap Held) /\ Cardinality(Fed \cap Held) \in Nat
  BY <1>4, FS_Intersection, FS_CardinalityType
<1>9. Cardinality(Fed) \in Nat /\ Cardinality(Held) \in Nat
  BY <1>4, <1>5, FS_CardinalityType
<1>10. Cardinality(Fed) = Len(fed) /\ Cardinality(Fed \cap Held) = 0
  BY <1>1, <1>3, <1>4, <1>5, <1>6, <1>7, <1>8, <1>9, InHandFinite
<1>11. Fed \cap Held = {}
  BY <1>8, <1>10, FS_EmptySet
<1> QED BY <1>4, <1>10, <1>11 DEF FedOnce

\* No payload reaches the extractor twice, and none that still waits in a thread's hands
\* (_feed and its callers, session.py:838-895).
THEOREM NothingFedTwice == Spec => []FedOnce
<1>1. IInv /\ HandInv => FedOnce
  BY CountedOnce DEF IInv
<1> QED BY <1>1, Invariance, HandsInitial, HandsInductive, PTL DEF Spec
=============================================================================
