----------------------------- MODULE SrtReorder -----------------------------
(***************************************************************************)
(* The receive window of the P2P client (p2p/session.py, Session): video   *)
(* datagrams come in lost, duplicated and out of order, and payloads go to *)
(* the HIK-RTP extractor.                                                  *)
(*                                                                         *)
(* The receive thread and the threading.Timer threads that give up on a    *)
(* gap share the cursor, the buffer and the timer under _lock.  They hand  *)
(* what they released to the extractor afterwards, outside _lock, one      *)
(* payload per _feed_lock section: a thread is between the two at          *)
(* "feed".  The ticker thread acknowledges what came last.                 *)
(*                                                                         *)
(* A payload is named by its sequence number: the device sends fewer than  *)
(* Half video packets, so within a behaviour no number is used twice.      *)
(***************************************************************************)
EXTENDS Integers, Sequences, FiniteSets

CONSTANTS
    Half,         \* 0x40000000: half the 31-bit sequence space
    Start,        \* sequence number of the first video packet
    N,            \* video packets the device sends
    MaxAhead,     \* SRT_REORDER_MAX_AHEAD
    ControlSeqs,  \* sequence numbers of the control channel's keepalives
    Duplicates,   \* bound on the datagrams the network delivers again
    Timers,       \* timer threads alive at a time, at most
    Receiver, NoTimer

Mod  == 2 * Half
Seqs == 0 .. Mod - 1

ASSUME ReorderAssumption ==
    /\ Half \in Nat \ {0}
    /\ Start \in Seqs
    /\ N \in Nat /\ N < Half
    /\ MaxAhead \in Nat
    /\ ControlSeqs \subseteq Seqs
    /\ Duplicates \in Nat
    /\ IsFiniteSet(Timers)
    /\ Receiver \notin Timers
    /\ NoTimer \notin Timers

Threads == Timers \cup {Receiver}

(***************************************************************************)
(* Arithmetic on 31-bit numbers (& 0x7FFFFFFF), without overflow.          *)
(***************************************************************************)
Plus(s, k)  == IF s + k >= Mod THEN s + k - Mod ELSE s + k
Minus(s, t) == IF s >= t THEN s - t ELSE s - t + Mod

\* Signed distance, and a mutant that forgets the sign.
AheadUnsigned(seq, cur) == Minus(seq, cur)

Ahead(seq, cur) ==
    LET d == Minus(seq, cur) IN IF d > Half THEN d - Mod ELSE d

Sent    == {s \in Seqs : Minus(s, Start) < N}
Packets == [inner : {"video"}, seq : Sent]
              \cup [inner : {"keepalive"}, seq : ControlSeqs]

VARIABLES
    arrived,     \* packets the network has delivered
    repeats,     \* deliveries of a packet that had arrived before
    lastAck,     \* last_ack_seq
    got,         \* the video packet the receive thread is handling
    cursor,      \* srt_deliver_seq, -1 before the first packet
    buf,         \* reorder_buf
    flushTimer,  \* _flush_timer
    pc,          \* thread -> where it is
    out,         \* thread -> released payloads it has still to feed
    released,    \* payloads in the order they were released under _lock
    fed,         \* payloads in the order the extractor got them
    closing      \* _close_event

netVars    == <<arrived, repeats>>
windowVars == <<cursor, buf, flushTimer>>
feedVars   == <<out, released, fed>>
vars == <<netVars, lastAck, got, windowVars, pc, feedVars, closing>>

Init ==
    /\ arrived = {}
    /\ repeats = 0
    /\ lastAck = 0
    /\ got = 0
    /\ cursor = -1
    /\ buf = {}
    /\ flushTimer = NoTimer
    /\ pc = [t \in Threads |-> "idle"]
    /\ out = [t \in Threads |-> <<>>]
    /\ released = <<>>
    /\ fed = <<>>
    /\ closing = FALSE

-----------------------------------------------------------------------------
(***************************************************************************)
(* The buffer and its timer.  These run under _lock.                       *)
(***************************************************************************)

\* Timer.cancel: no effect on a thread whose interval has already elapsed.
Cancelled(p, t) == IF p[t] = "armed" THEN [p EXCEPT ![t] = "idle"] ELSE p

\* What is left of the timer once the buffer is b: an empty buffer cancels
\* it, a schedule arms a new one unless one is remembered.  p is where the
\* threads would be otherwise, ft the remembered timer.
Settle(p, ft, b, schedule) ==
    \/ /\ b = {}
       /\ flushTimer' = NoTimer
       /\ pc' = IF ft = NoTimer THEN p ELSE Cancelled(p, ft)
    \/ /\ b # {} /\ schedule /\ ft = NoTimer
       /\ \E t \in Timers :
            /\ p[t] = "idle"
            /\ flushTimer' = t
            /\ pc' = [p EXCEPT ![t] = "armed"]
    \/ /\ b # {} /\ ~ (schedule /\ ft = NoTimer)
       /\ flushTimer' = ft
       /\ pc' = p

\* n consecutive payloads from number s on, and nothing buffered after them.
IsRun(b, s, n) == /\ \A k \in 0 .. n - 1 : Plus(s, k) \in b
                  /\ Plus(s, n) \notin b

RunFrom(s, n) == [k \in 1 .. n |-> Plus(s, k - 1)]

\* Thread t moves the cursor to s and releases what is contiguous there.
Drain(t, s, b, ft, schedule) ==
    \E n \in 1 .. Cardinality(b) :
        /\ IsRun(b, s, n)
        /\ cursor' = Plus(s, n)
        /\ buf' = b \ {Plus(s, k) : k \in 0 .. n - 1}
        /\ out' = [out EXCEPT ![t] = RunFrom(s, n)]
        /\ released' = released \o RunFrom(s, n)
        /\ Settle([pc EXCEPT ![t] = "feed"], ft, buf', schedule)

\* Mutant: the number to jump to is the highest one.
IsHighest(b, l, cur) ==
    /\ l \in b
    /\ \A k \in b : Ahead(k, cur) <= Ahead(l, cur)

\* The number to jump to when a gap is given up on.
IsLowest(b, l, cur) ==
    /\ l \in b /\ Ahead(l, cur) >= 0
    /\ \A k \in b : Ahead(k, cur) >= 0 => Ahead(l, cur) <= Ahead(k, cur)

\* Mutant: the gap after the next one gets no timer.
AdvanceOnce(t, b, ft) ==
    \E l \in b : IsLowest(b, l, cursor) /\ Drain(t, l, b, ft, FALSE)

AdvancePastGap(t, b, ft) ==
    \E l \in b : IsLowest(b, l, cursor) /\ Drain(t, l, b, ft, TRUE)

-----------------------------------------------------------------------------
(***************************************************************************)
(* The receive thread.                                                     *)
(***************************************************************************)

\* Mutant: control keepalives are not told from video packets.
AcceptsAll(p) == p \in Packets

Accepts(p) == p.inner = "video"

\* A datagram arrives.  A control keepalive is dropped: the control channel
\* has its own sequence space.  A video packet is noted for the next ACK.
Receive(p) ==
    /\ ~ closing /\ pc[Receiver] = "idle"
    /\ IF p \in arrived THEN /\ repeats < Duplicates
                            /\ repeats' = repeats + 1
                       ELSE UNCHANGED repeats
    /\ arrived' = arrived \cup {p}
    /\ IF Accepts(p)
       THEN /\ lastAck' = p.seq
            /\ got' = p.seq
            /\ pc' = [pc EXCEPT ![Receiver] = "deliver"]
       ELSE UNCHANGED <<lastAck, got, pc>>
    /\ UNCHANGED <<windowVars, feedVars, closing>>

Cursor == IF cursor = -1 THEN got ELSE cursor

\* A late duplicate.
DropLate ==
    /\ pc[Receiver] = "deliver" /\ Ahead(got, Cursor) < 0
    /\ pc' = [pc EXCEPT ![Receiver] = "idle"]
    /\ UNCHANGED <<netVars, lastAck, got, windowVars, feedVars, closing>>

DeliverNext ==
    /\ pc[Receiver] = "deliver" /\ Ahead(got, Cursor) = 0
    /\ Drain(Receiver, got, buf \cup {got}, flushTimer, FALSE)
    /\ UNCHANGED <<netVars, lastAck, got, fed, closing>>

BufferAhead ==
    /\ pc[Receiver] = "deliver" /\ Ahead(got, Cursor) \in 1 .. MaxAhead
    /\ buf' = buf \cup {got}
    /\ Settle([pc EXCEPT ![Receiver] = "idle"], flushTimer, buf', TRUE)
    /\ UNCHANGED <<netVars, lastAck, got, cursor, feedVars, closing>>

TooFarAhead ==
    /\ pc[Receiver] = "deliver" /\ Ahead(got, Cursor) > MaxAhead
    /\ AdvancePastGap(Receiver, buf \cup {got}, flushTimer)
    /\ UNCHANGED <<netVars, lastAck, got, fed, closing>>

DeliverInOrder == DropLate \/ DeliverNext \/ BufferAhead \/ TooFarAhead

-----------------------------------------------------------------------------
(***************************************************************************)
(* The timer threads, the extractor, the ticker, close.                    *)
(***************************************************************************)

\* The interval of an armed timer elapses; its callback waits for _lock.
Elapse(t) ==
    /\ pc[t] = "armed"
    /\ pc' = [pc EXCEPT ![t] = "fired"]
    /\ UNCHANGED <<netVars, lastAck, got, windowVars, feedVars, closing>>

\* The callback forgets whatever timer is remembered, its own or a later
\* one, and gives up on the gap in front of the buffer.
OnFlush(t) ==
    /\ pc[t] = "fired"
    /\ IF buf = {}
       THEN /\ flushTimer' = NoTimer
            /\ pc' = [pc EXCEPT ![t] = "idle"]
            /\ UNCHANGED <<cursor, buf, out, released>>
       ELSE AdvancePastGap(t, buf, NoTimer)
    /\ UNCHANGED <<netVars, lastAck, got, fed, closing>>

\* Mutant: a thread feeds the first of the payloads it released.
FeedFirst(t) ==
    /\ pc[t] = "feed"
    /\ fed' = Append(fed, Head(out[t]))
    /\ out' = [out EXCEPT ![t] = <<>>]
    /\ pc' = [pc EXCEPT ![t] = "idle"]
    /\ UNCHANGED <<netVars, lastAck, got, windowVars, released, closing>>

\* _feed of one released payload, one _feed_lock section.
Feed(t) ==
    /\ pc[t] = "feed"
    /\ fed' = Append(fed, Head(out[t]))
    /\ out' = [out EXCEPT ![t] = Tail(@)]
    /\ pc' = IF Len(out[t]) = 1 THEN [pc EXCEPT ![t] = "idle"] ELSE pc
    /\ UNCHANGED <<netVars, lastAck, got, windowVars, released, closing>>

\* The numbers the ticker acknowledges at this point, every 10 ms.
Acknowledged == IF lastAck > 0 THEN {Plus(lastAck, 1)} ELSE {}

Close ==
    /\ ~ closing
    /\ closing' = TRUE
    /\ flushTimer' = NoTimer
    /\ pc' = IF flushTimer = NoTimer THEN pc ELSE Cancelled(pc, flushTimer)
    /\ UNCHANGED <<netVars, lastAck, got, cursor, buf, feedVars>>

Next ==
    \/ \E p \in Packets : Receive(p)
    \/ DeliverInOrder
    \/ \E t \in Timers : Elapse(t) \/ OnFlush(t)
    \/ \E t \in Threads : Feed(t)
    \/ Close

Spec == Init /\ [][Next]_vars

(***************************************************************************)
(* The threads run.  Nothing is asked of the network, the ticker or of     *)
(* whoever closes the session.                                             *)
(***************************************************************************)
FairSpec ==
    /\ Spec
    /\ WF_vars(DeliverInOrder)
    /\ \A t \in Timers : WF_vars(Elapse(t)) /\ WF_vars(OnFlush(t))
    /\ \A t \in Threads : WF_vars(Feed(t))

-----------------------------------------------------------------------------
(***************************************************************************)
(* Properties.                                                             *)
(***************************************************************************)

\* Every variable has its type, and a thread has payloads in hand exactly
\* while it feeds them.
TypeOK ==
    /\ arrived \subseteq Packets
    /\ repeats \in 0 .. Duplicates
    /\ lastAck \in Seqs
    /\ got \in Seqs
    /\ cursor \in Seqs \cup {-1}
    /\ buf \subseteq Sent
    /\ flushTimer \in Timers \cup {NoTimer}
    /\ pc \in [Threads -> {"idle", "deliver", "armed", "fired", "feed"}]
    /\ out \in [Threads -> Seq(Sent)]
    /\ released \in Seq(Sent)
    /\ fed \in Seq(Sent)
    /\ closing \in BOOLEAN
    /\ \A t \in Threads : pc[t] = "feed" <=> out[t] # <<>>

\* What is buffered is strictly ahead of the cursor, whichever thread moved
\* it last: no payload is stranded behind it, and none is both released and
\* still buffered (_drain_reorder_locked, _advance_past_gap_locked).
BufferIsAhead == \A s \in buf : cursor # -1 /\ Ahead(s, cursor) > 0

\* While payloads wait behind a gap, the remembered timer is one that is
\* going to give up on it: neither a cancellation, a stale callback that
\* forgets a newer timer, nor a drain leaves a gap without a timer ("so the
\* stream never stalls", session.py:816).
GapHasTimer ==
    (buf # {} /\ ~ closing) =>
        flushTimer \in Timers /\ pc[flushTimer] \in {"armed", "fired"}

\* Payloads are released in the order the device sent them, none twice,
\* across the wrap of the sequence number and whatever was given up on.
ReleasedInOrder ==
    \A i, j \in 1 .. Len(released) :
        i < j => Minus(released[i], Start) < Minus(released[j], Start)

\* Places of the payloads that threads have in hand.
InHand == {x \in Threads \X (1 .. N) : x[2] <= Len(out[x[1]])}

\* The receive thread and the timers lose nothing and repeat nothing between
\* the buffer and the extractor: what has been released has been fed once or
\* is in the hands of one thread.
HandedOverOnce ==
    /\ Len(fed) + Cardinality(InHand) = Len(released)
    /\ {released[i] : i \in 1 .. Len(released)} =
         {fed[i] : i \in 1 .. Len(fed)} \cup {out[x[1]][x[2]] : x \in InHand}

\* An ACK names a video packet that arrived: the control channel's numbers
\* never get into it (session.py:785-793).
AckIsReceived ==
    \A a \in Acknowledged : \E s \in Sent :
        [inner |-> "video", seq |-> s] \in arrived /\ a = Plus(s, 1)

\* A payload that was buffered is handed to the extractor, unless the
\* session closes: a lost packet delays the stream, it does not stop it.
NeverStalls ==
    \A s \in Sent :
        s \in buf ~> (closing \/ \E i \in 1 .. Len(fed) : fed[i] = s)
=============================================================================
