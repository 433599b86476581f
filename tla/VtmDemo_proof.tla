---------------------------- MODULE VtmDemo_proof ----------------------------
(***************************************************************************)
(* For any queue, any number of chunks, attempts and stalls: at most one   *)
(* chunk of the placeholder gets into the stream, and none if its thread   *)
(* was joined in time (IInv); the viewer gets the chunks in order, without *)
(* a gap, and to the last one if the handler met the sentinel (FlowInv).   *)
(***************************************************************************)
EXTENDS VtmDemo, SequenceTheorems, TLAPS

\* The sets of TypeOK, member by member.
FlagsOK ==
    /\ firstByte \in BOOLEAN /\ closed \in BOOLEAN /\ stop \in BOOLEAN
    /\ keeperStop \in BOOLEAN /\ giveUp \in BOOLEAN /\ sentinel \in BOOLEAN
PlacesOK ==
    /\ handler \in {"waiting", "joining", "reading", "looking", "writing", "finally",
                    "ending", "stopping", "done"}
    /\ copy \in {"streaming", "putting", "closing", "ending", "over"}
    /\ placeholder \in {"starting", "looping", "fetching", "writing", "over"}
    /\ keeper \in {"sleeping", "calling", "pausing", "over"}
    /\ viewer \in {"reading", "stalled", "gone"}
CountsOK ==
    /\ got \in 0 .. Chunks /\ written \in 0 .. Chunks
    /\ attempt \in 0 .. MaxRetries /\ stalls \in 0 .. MaxStalls
    /\ keeper = "pausing" => attempt < MaxRetries
QueueOK == queue \in Seq(0 .. Chunks) /\ Len(queue) <= QueueCap
WireOK  == wire \in Seq(0 .. Chunks)

Early == handler \in {"waiting", "joining"}

\* Before the placeholder has been waited for there is nothing but placeholder, and
\* after it, unless the wait was given up, no more of it.
BeforeSwitch == Early => \A i \in 1 .. Len(wire) : wire[i] = 0
AfterSwitch  == ~Early => giveUp \/ placeholder = "over"
StopInv      == handler # "waiting" => stop

\* What the handler writes is a chunk.
WritesChunk == handler = "writing" => got # 0

\* A placeholder that has written its late chunk looks at the stop event next.
LateInv ==
    Late # {} => /\ giveUp /\ placeholder \in {"looping", "over"}
                 /\ \A i, j \in Late : i = j

SwitchInv == BeforeSwitch /\ AfterSwitch /\ StopInv /\ WritesChunk /\ LateInv
TypeInv   == FlagsOK /\ PlacesOK /\ CountsOK /\ QueueOK /\ WireOK
IInv      == TypeInv /\ SwitchInv

allVars == <<handler, got, giveUp, sentinel, queue, firstByte, closed, copy, written,
             placeholder, stop, keeper, attempt, keeperStop, viewer, stalls, wire>>

LEMMA Bounds ==
    /\ QueueCap \in Nat \ {0} /\ MaxRetries \in Nat \ {0}
    /\ Chunks \in Nat /\ MaxStalls \in Nat
BY VtmAssumption DEF VtmAssumption

LEMMA InvIsTyped == ASSUME TypeInv PROVE TypeOK
<1>1. {firstByte, closed, stop, keeperStop, giveUp, sentinel} \subseteq BOOLEAN
  BY DEF TypeInv, FlagsOK
<1>2. {got, written} \subseteq 0 .. Chunks
  BY DEF TypeInv, CountsOK
<1> QED BY <1>1, <1>2 DEF TypeInv, PlacesOK, CountsOK, QueueOK, WireOK, TypeOK

-----------------------------------------------------------------------------
\* Queue.put keeps the queue within its limit.
LEMMA PutFits ==
    ASSUME QueueOK, NEW x \in 0 .. Chunks, Put(x) PROVE QueueOK'
<1>1. queue \in Seq(0 .. Chunks) /\ Len(queue) < QueueCap /\ queue' = Append(queue, x)
  BY DEF Put, Room, QueueOK
<1>2. queue' \in Seq(0 .. Chunks) /\ Len(queue') = Len(queue) + 1 /\ Len(queue) \in Nat
  BY <1>1, AppendProperties, LenProperties
<1> QED BY <1>1, <1>2, Bounds DEF QueueOK

\* A write leaves the wire alone or adds to its end.
LEMMA WroteAppends ==
    ASSUME WireOK, NEW x \in 0 .. Chunks, Wrote(x)
    PROVE  /\ WireOK' /\ wire' \in {wire, Append(wire, x)}
           /\ x # 0 => wire' = Append(wire, x)
<1>1. wire' \in {wire, Append(wire, x)} /\ (x # 0 => wire' = Append(wire, x))
  BY DEF Wrote
<1>2. wire \in Seq(0 .. Chunks) /\ Append(wire, x) \in Seq(0 .. Chunks)
  BY AppendProperties DEF WireOK
<1> QED BY <1>1, <1>2 DEF WireOK

-----------------------------------------------------------------------------
\* While only placeholder is on the wire nothing is late; a chunk never is.
LEMMA NoneLate ==
    ASSUME \A i \in 1 .. Len(wire) : wire[i] = 0, WireOK PROVE Late = {}
<1>1. DOMAIN wire = 1 .. Len(wire) /\ Len(wire) \in Nat
  BY LenProperties DEF WireOK
<1> SUFFICES ASSUME NEW i \in 1 .. Len(wire), NEW j \in 1 .. i - 1 PROVE wire[j] = 0
  BY <1>1 DEF Late
<1>2. j \in 1 .. Len(wire)
  BY <1>1
<1> QED BY <1>2

LEMMA LateGrows ==
    ASSUME WireOK, NEW x \in 0 .. Chunks, wire' \in {wire, Append(wire, x)}
    PROVE  /\ Late' \subseteq Late \cup {Len(wire) + 1}
           /\ x # 0 => Late' = Late
<1>1. CASE wire' = wire
  BY <1>1 DEF Late
<1>2. CASE wire' = Append(wire, x)
  <2>1. wire \in Seq(0 .. Chunks)
    BY DEF WireOK
  <2>2. /\ Len(wire) \in Nat /\ DOMAIN wire = 1 .. Len(wire)
        /\ DOMAIN wire' = 1 .. Len(wire) + 1 /\ wire'[Len(wire) + 1] = x
        /\ \A i \in 1 .. Len(wire) : wire'[i] = wire[i]
    BY <1>2, <2>1, AppendProperties, LenProperties
  <2>3. ASSUME NEW i \in 1 .. Len(wire) PROVE i \in Late' <=> i \in Late
    <3>1. \A j \in 1 .. i - 1 : j \in 1 .. Len(wire)
      BY <2>2
    <3>2. \A j \in 1 .. i - 1 : wire'[j] = wire[j]
      BY <2>2, <3>1
    <3>3. wire'[i] = wire[i] /\ i \in DOMAIN wire /\ i \in DOMAIN wire'
      BY <2>2
    <3> QED BY <3>2, <3>3 DEF Late
  <2>4. Late \subseteq 1 .. Len(wire) /\ Late' \subseteq 1 .. Len(wire) + 1
    BY <2>2 DEF Late
  <2>5. x # 0 => Len(wire) + 1 \notin Late'
    BY <2>2 DEF Late
  <2>6. 1 .. Len(wire) + 1 = 1 .. Len(wire) \cup {Len(wire) + 1}
    BY <2>2
  <2> QED BY <2>3, <2>4, <2>5, <2>6
<1> QED BY <1>1, <1>2

\* A step that leaves the wire, the placeholder and the handler alone.
LEMMA SwitchFrame ==
    ASSUME SwitchInv, UNCHANGED <<handler, got, giveUp, wire, placeholder, stop>>
    PROVE  SwitchInv'
<1>1. Late' = Late /\ Early' = Early
  BY DEF Late, Early
<1> QED BY <1>1 DEF SwitchInv, BeforeSwitch, AfterSwitch, StopInv, WritesChunk, LateInv

LEMMA CopyKeeps == ASSUME IInv, Copy PROVE IInv'
<1> USE Bounds DEF IInv, TypeInv
<1>1. UNCHANGED <<handler, got, giveUp, sentinel, placeholder, stop, keeper, attempt,
                  keeperStop, viewer, stalls, wire>>
  BY DEF Copy, Write, PutChunk, CopyEnds, CopyCloses, handlerVars, placeVars, keeperVars,
         viewerVars, outputVars
<1>2. SwitchInv'
  BY <1>1, SwitchFrame
<1>3. FlagsOK' /\ PlacesOK' /\ CountsOK'
  <2>1. FlagsOK'
    BY <1>1 DEF Copy, Write, PutChunk, CopyEnds, CopyCloses, outputVars, FlagsOK
  <2>2. PlacesOK'
    BY <1>1 DEF Copy, Write, PutChunk, CopyEnds, CopyCloses, PlacesOK
  <2>3. written' \in 0 .. Chunks
    <3>1. written' = written \/ (written < Chunks /\ written' = written + 1)
      BY DEF Copy, Write, PutChunk, CopyEnds, CopyCloses
    <3> QED BY <3>1 DEF CountsOK
  <2> QED BY <1>1, <2>1, <2>2, <2>3 DEF CountsOK
<1>4. QueueOK'
  <2>1. CASE UNCHANGED queue
    BY <2>1 DEF QueueOK
  <2>2. CASE Put(written) \/ Put(0)
    <3>1. written \in 0 .. Chunks /\ 0 \in 0 .. Chunks
      BY DEF CountsOK
    <3> QED BY <2>2, <3>1, PutFits
  <2> QED BY <2>1, <2>2 DEF Copy, Write, PutChunk, CopyEnds, CopyCloses, outputVars
<1> QED BY <1>1, <1>2, <1>3, <1>4 DEF WireOK

LEMMA KeeperKeeps == ASSUME IInv, Keeper PROVE IInv'
<1> USE Bounds DEF IInv, TypeInv
<1>1. UNCHANGED <<handler, got, giveUp, sentinel, queue, firstByte, closed, copy, written,
                  placeholder, stop, keeperStop, viewer, stalls, wire>>
  BY DEF Keeper, KeeperWakes, KeeperCalls, handlerVars, outputVars, copyVars, placeVars,
         viewerVars
<1>2. SwitchInv'
  BY <1>1, SwitchFrame
<1>3. PlacesOK' /\ CountsOK'
  BY <1>1 DEF Keeper, KeeperWakes, KeeperCalls, PlacesOK, CountsOK
<1> QED BY <1>1, <1>2, <1>3 DEF FlagsOK, QueueOK, WireOK

LEMMA ViewerKeeps == ASSUME IInv, Viewer PROVE IInv'
<1> USE Bounds DEF IInv, TypeInv
<1>1. UNCHANGED <<handler, got, giveUp, sentinel, queue, firstByte, closed, copy, written,
                  placeholder, stop, keeper, attempt, keeperStop, wire>>
  BY DEF Viewer, handlerVars, outputVars, copyVars, placeVars, keeperVars
<1>2. SwitchInv'
  BY <1>1, SwitchFrame
<1>3. PlacesOK' /\ CountsOK'
  BY <1>1 DEF Viewer, PlacesOK, CountsOK
<1> QED BY <1>1, <1>2, <1>3 DEF FlagsOK, QueueOK, WireOK

\* Placeholder video goes on the wire before the switch, or after a wait given up.
LEMMA PlaceholderKeeps == ASSUME IInv, Placeholder PROVE IInv'
<1> USE Bounds DEF IInv, TypeInv
<1>1. /\ UNCHANGED <<handler, got, giveUp, sentinel, queue, firstByte, closed, copy, written,
                     stop, keeper, attempt, keeperStop>>
      /\ placeholder # "over"
  BY DEF Placeholder, StartPlaceholder, LoopPlaceholder, ReadPlaceholder,
         WritePlaceholder, WriteFails, handlerVars,
         outputVars, copyVars, keeperVars
<1>2. PlacesOK'
  BY <1>1 DEF Placeholder, StartPlaceholder, LoopPlaceholder, ReadPlaceholder,
              WritePlaceholder, WriteFails, viewerVars,
              Wrote, PlacesOK
<1>3. CountsOK'
  BY <1>1 DEF Placeholder, StartPlaceholder, LoopPlaceholder, ReadPlaceholder,
              WritePlaceholder, WriteFails, viewerVars,
              Wrote, CountsOK
<1>4. Early \/ (stop /\ giveUp)
  BY <1>1 DEF SwitchInv, AfterSwitch, StopInv, Early
<1>5. WireOK' /\ wire' \in {wire, Append(wire, 0)}
  <2>1. CASE UNCHANGED wire
    BY <2>1 DEF WireOK
  <2>2. CASE Wrote(0)
    BY <2>2, WroteAppends
  <2> QED BY <2>1, <2>2 DEF Placeholder, StartPlaceholder, LoopPlaceholder, ReadPlaceholder,
                            WritePlaceholder, WriteFails, viewerVars
<1>6. BeforeSwitch' /\ (Early => Late' = {})
  <2> SUFFICES ASSUME Early PROVE (\A i \in 1 .. Len(wire') : wire'[i] = 0) /\ Late' = {}
    BY <1>1 DEF BeforeSwitch, Early
  <2>1. \A i \in 1 .. Len(wire) : wire[i] = 0
    BY DEF SwitchInv, BeforeSwitch
  <2>2. \A i \in 1 .. Len(wire') : wire'[i] = 0
    <3>1. CASE wire' = Append(wire, 0)
      <4>1. wire \in Seq(0 .. Chunks) /\ 0 \in 0 .. Chunks
        BY DEF WireOK
      <4> QED BY <2>1, <3>1, <4>1, AppendProperties
    <3> QED BY <1>5, <2>1, <3>1
  <2>3. Late' = {}
    <3>1. DOMAIN wire' = 1 .. Len(wire') /\ Len(wire') \in Nat
      BY <1>5, LenProperties DEF WireOK
    <3> SUFFICES ASSUME NEW i \in 1 .. Len(wire'), NEW j \in 1 .. i - 1 PROVE wire'[j] = 0
      BY <3>1 DEF Late
    <3>2. j \in 1 .. Len(wire')
      BY <3>1
    <3> QED BY <2>2, <3>2
  <2> QED BY <2>2, <2>3
<1>7. ASSUME ~Early, stop, giveUp PROVE LateInv'
  <2>1. CASE WritePlaceholder /\ Wrote(0)
    <3>1. placeholder = "writing" /\ placeholder' = "looping"
      BY <2>1 DEF WritePlaceholder, WriteFails, viewerVars, Wrote
    <3>2. Late = {}
      BY <3>1 DEF SwitchInv, LateInv
    <3>3. 0 \in 0 .. Chunks
      OBVIOUS
    <3>4. Late' \subseteq {Len(wire) + 1}
      BY <1>5, <3>2, <3>3, LateGrows
    <3> QED BY <1>1, <1>7, <3>1, <3>4 DEF LateInv
  <2>2. CASE ~ (WritePlaceholder /\ Wrote(0))
    <3>1. wire' = wire
      BY <2>2 DEF Placeholder, StartPlaceholder, LoopPlaceholder, ReadPlaceholder,
                  WritePlaceholder, WriteFails, viewerVars
    <3>2. Late' = Late
      BY <3>1 DEF Late
    <3>3. placeholder = "looping" => placeholder' = "over"
      BY <1>7 DEF Placeholder, StartPlaceholder, LoopPlaceholder, ReadPlaceholder,
                  WritePlaceholder
    <3> QED BY <1>1, <3>2, <3>3 DEF LateInv, SwitchInv
  <2> QED BY <2>1, <2>2
<1>8. SwitchInv'
  <2>1. LateInv'
    BY <1>4, <1>6, <1>7 DEF LateInv
  <2>2. AfterSwitch' /\ StopInv' /\ WritesChunk'
    BY <1>1, <1>4 DEF SwitchInv, AfterSwitch, StopInv, WritesChunk, Early
  <2> QED BY <1>6, <2>1, <2>2 DEF SwitchInv
<1> QED BY <1>1, <1>2, <1>3, <1>5, <1>8 DEF FlagsOK, QueueOK

-----------------------------------------------------------------------------
\* The handler's steps that write nothing.
LEMMA QuietHandler ==
    ASSUME IInv, AwaitFirst \/ JoinPlaceholder \/ GetChunk \/ GetEmpty \/ CloseOutput \/ StopKeeper
    PROVE  IInv'
<1> USE Bounds DEF IInv, TypeInv
<1>1. UNCHANGED <<copy, written, placeholder, keeper, attempt, viewer, stalls, wire>>
  BY DEF AwaitFirst, JoinPlaceholder, GetChunk, GetEmpty, CloseOutput, StopKeeper, copyVars,
         placeVars, keeperVars, viewerVars
<1>2. QueueOK' /\ got' \in 0 .. Chunks /\ (GetChunk => got' = Head(queue))
  <2>1. CASE GetChunk
    <3>1. queue \in Seq(0 .. Chunks) /\ queue # <<>> /\ Len(queue) <= QueueCap
      BY <2>1 DEF GetChunk, QueueOK
    <3>2. /\ Head(queue) \in 0 .. Chunks /\ Tail(queue) \in Seq(0 .. Chunks)
          /\ Len(Tail(queue)) = Len(queue) - 1 /\ Len(queue) \in Nat
      BY <3>1, HeadTailProperties, LenProperties
    <3>3. queue' = Tail(queue) /\ got' = Head(queue)
      BY <2>1 DEF GetChunk
    <3> QED BY <3>1, <3>2, <3>3 DEF QueueOK
  <2>2. CASE ~GetChunk
    <3>1. got' = got
      BY <2>2 DEF AwaitFirst, JoinPlaceholder, GetEmpty, CloseOutput, StopKeeper
    <3>2. queue' = queue \/ Put(0)
      BY <2>2 DEF AwaitFirst, JoinPlaceholder, GetEmpty, CloseOutput, StopKeeper, outputVars
    <3>3. 0 \in 0 .. Chunks
      OBVIOUS
    <3> QED BY <2>2, <3>1, <3>2, <3>3, PutFits DEF QueueOK, CountsOK
  <2> QED BY <2>1, <2>2
<1>3. FlagsOK'
  BY DEF AwaitFirst, JoinPlaceholder, GetChunk, GetEmpty, CloseOutput, StopKeeper,
         outputVars,
         keeperVars, placeVars, FlagsOK
<1>4. PlacesOK' /\ CountsOK'
  BY <1>1, <1>2 DEF AwaitFirst, JoinPlaceholder, GetChunk, GetEmpty, CloseOutput,
                    StopKeeper,
     PlacesOK, CountsOK
<1>5. SwitchInv'
  <2>0. Late' = Late
    BY <1>1 DEF Late
  <2>1. CASE AwaitFirst
    <3>1. Late = {}
      BY <2>1, NoneLate DEF AwaitFirst, SwitchInv, BeforeSwitch, Early
    <3> QED BY <1>1, <2>0, <2>1, <3>1
            DEF AwaitFirst, SwitchInv, BeforeSwitch, AfterSwitch, StopInv, WritesChunk,
                LateInv, Early
  <2>2. CASE JoinPlaceholder
    <3>1. /\ handler = "joining" /\ handler' = "reading" /\ stop' = stop
          /\ giveUp' = (placeholder # "over")
      BY <2>2 DEF JoinPlaceholder, placeVars
    <3>2. Late = {} /\ stop
      BY <3>1, NoneLate DEF SwitchInv, BeforeSwitch, StopInv, Early
    <3> QED BY <1>1, <2>0, <3>1, <3>2
            DEF SwitchInv, BeforeSwitch, AfterSwitch, WritesChunk, LateInv, StopInv, Early
  <2>3. CASE GetChunk \/ GetEmpty \/ CloseOutput \/ StopKeeper
    <3>1. giveUp' = giveUp /\ stop' = stop /\ ~Early /\ ~Early'
      BY <2>3 DEF GetChunk, GetEmpty, CloseOutput, StopKeeper, Early, placeVars
    <3>2. WritesChunk'
      BY <1>2, <2>3 DEF GetChunk, GetEmpty, CloseOutput, StopKeeper, WritesChunk
    <3>3. LateInv' /\ AfterSwitch' /\ BeforeSwitch' /\ StopInv'
      BY <1>1, <2>0, <3>1 DEF SwitchInv, LateInv, AfterSwitch, BeforeSwitch, StopInv, Early
    <3> QED BY <3>2, <3>3 DEF SwitchInv
  <2> QED BY <2>1, <2>2, <2>3
<1> QED BY <1>1, <1>2, <1>3, <1>4, <1>5 DEF WireOK

\* A chunk goes on the wire behind whatever is there.
LEMMA WriteKeeps == ASSUME IInv, WriteChunk PROVE IInv'
<1> USE Bounds DEF IInv, TypeInv
<1>1. /\ UNCHANGED <<got, giveUp, sentinel, queue, firstByte, closed, copy, written,
                     placeholder, stop, keeper, attempt, keeperStop>>
      /\ handler = "writing" /\ handler' \in {"reading", "finally"}
  BY DEF WriteChunk, outputVars, copyVars, placeVars, keeperVars
<1>2. PlacesOK' /\ CountsOK'
  BY <1>1 DEF WriteChunk, WriteFails, viewerVars, Wrote, PlacesOK, CountsOK
<1>3. got \in 0 .. Chunks /\ got # 0
  BY <1>1 DEF CountsOK, SwitchInv, WritesChunk
<1>4. WireOK' /\ wire' \in {wire, Append(wire, got)}
  <2>1. CASE UNCHANGED wire
    BY <2>1 DEF WireOK
  <2>2. CASE Wrote(got)
    BY <1>3, <2>2, WroteAppends
  <2> QED BY <2>1, <2>2 DEF WriteChunk, WriteFails, viewerVars
<1>5. SwitchInv'
  <2>1. Late' = Late
    BY <1>3, <1>4, LateGrows
  <2>2. ~Early /\ ~Early' /\ handler' # "writing"
    BY <1>1 DEF Early
  <2>3. LateInv' /\ AfterSwitch' /\ StopInv'
    BY <1>1, <2>1, <2>2 DEF SwitchInv, LateInv, AfterSwitch, StopInv
  <2> QED BY <2>2, <2>3 DEF SwitchInv, BeforeSwitch, WritesChunk
<1> QED BY <1>1, <1>2, <1>4, <1>5 DEF FlagsOK, QueueOK

-----------------------------------------------------------------------------
LEMMA Initial == Init => IInv
<1> SUFFICES ASSUME Init PROVE IInv
  OBVIOUS
<1> USE Bounds DEF Init
<1>1. <<>> \in Seq(0 .. Chunks) /\ Len(<<>>) = 0
  BY EmptySeq
<1>2. TypeInv
  <2>1. FlagsOK /\ PlacesOK
    BY DEF FlagsOK, PlacesOK
  <2>2. CountsOK
    BY DEF CountsOK
  <2>3. QueueOK /\ WireOK
    <3>1. queue = <<>> /\ wire = <<>>
      OBVIOUS
    <3> QED BY ONLY <1>1, <3>1, Bounds DEF QueueOK, WireOK
  <2> QED BY <2>1, <2>2, <2>3 DEF TypeInv
<1>3. SwitchInv
  BY <1>1 DEF SwitchInv, BeforeSwitch, AfterSwitch, StopInv, WritesChunk, LateInv, Late,
              Early
<1> QED BY <1>2, <1>3 DEF IInv

LEMMA Inductive == IInv /\ [Next]_vars => IInv'
<1> SUFFICES ASSUME IInv, [Next]_vars PROVE IInv'
  OBVIOUS
<1>1. CASE UNCHANGED vars
  <2>1. UNCHANGED allVars
    BY <1>1 DEF vars, allVars, handlerVars, outputVars, copyVars, placeVars, keeperVars,
                viewerVars
  <2> QED BY <2>1 DEF allVars, IInv, TypeInv, FlagsOK, PlacesOK, CountsOK, QueueOK, WireOK,
                      SwitchInv, BeforeSwitch, AfterSwitch, StopInv, WritesChunk, LateInv, Late, Early
<1>2. CASE Next
  BY <1>2, CopyKeeps, PlaceholderKeeps, KeeperKeeps, ViewerKeeps, QuietHandler, WriteKeeps
     DEF Next, Handler
<1> QED BY <1>1, <1>2

\* Every variable keeps its type, the queue its limit and the keep-alive its number of
\* attempts (do_GET and its threads).
THEOREM TypeCorrect == Spec => []TypeOK
<1>1. IInv => TypeOK
  BY InvIsTyped DEF IInv
<1> QED BY <1>1, Initial, Inductive, PTL DEF Spec

\* A placeholder that was joined in time puts nothing behind a real chunk, and one whose
\* join ran out at most one chunk (vtm_demo.py:158-163, 242-251).
THEOREM LateChunkBounded == Spec => []OneLateChunk
<1>1. IInv => OneLateChunk
  BY DEF IInv, SwitchInv, LateInv, OneLateChunk
<1> QED BY <1>1, Initial, Inductive, PTL DEF Spec

-----------------------------------------------------------------------------
(***************************************************************************)
(* The chunks, from write() to the wire.  With n of them on the wire, the  *)
(* one in the handler's hands, those in the queue and the one being put    *)
(* are the next ones, in this order and up to the last written; while the  *)
(* handler reads, the only sentinel is the one the copy thread ended with, *)
(* at the end of the queue.                                                *)
(***************************************************************************)
Reading  == handler \in {"waiting", "joining", "reading", "looking", "writing"}
Taken(n) == IF handler = "writing" THEN got ELSE n

\* The queue without the sentinel.
Body == IF copy = "over" THEN Len(queue) - 1 ELSE Len(queue)

Delivered(n) ==
    /\ \A i, j \in ChunkAt : i < j => wire[i] < wire[j]
    /\ OnWire = 1 .. n

InQueue(n) ==
    /\ copy = "over" => Len(queue) > 0 /\ queue[Len(queue)] = 0
    /\ \A i \in 1 .. Body : queue[i] = Taken(n) + i
    /\ written = Taken(n) + Body + (IF copy = "putting" THEN 1 ELSE 0)

Met(n) == sentinel => ~Reading /\ copy = "over" /\ n = written

Flow(n) ==
    /\ Delivered(n)
    /\ n <= written
    /\ handler = "writing" => got = n + 1
    /\ Reading => InQueue(n)
    /\ Met(n)

FlowInv == \E n \in 0 .. Chunks : Flow(n)

\* Placeholder video puts no chunk on the wire.
LEMMA PlaceholderIsNoChunk ==
    ASSUME WireOK, NEW n \in Nat, Delivered(n), wire' \in {wire, Append(wire, 0)}
    PROVE  Delivered(n)'
<1>1. CASE wire' = wire
  BY <1>1 DEF Delivered, ChunkAt, OnWire
<1>2. CASE wire' = Append(wire, 0)
  <2>1. wire \in Seq(0 .. Chunks) /\ 0 \in 0 .. Chunks
    BY Bounds DEF WireOK
  <2>2. /\ Len(wire') = Len(wire) + 1 /\ wire'[Len(wire) + 1] = 0 /\ Len(wire) \in Nat
        /\ \A i \in 1 .. Len(wire) : wire'[i] = wire[i]
        /\ DOMAIN wire = 1 .. Len(wire) /\ DOMAIN wire' = 1 .. Len(wire')
    BY <1>2, <2>1, AppendProperties, LenProperties
  <2>3. ChunkAt' = ChunkAt /\ \A i \in ChunkAt : wire'[i] = wire[i]
    BY <2>2 DEF ChunkAt
  <2>4. OnWire' = OnWire
    BY <2>3 DEF OnWire
  <2> QED BY <2>3, <2>4 DEF Delivered
<1> QED BY <1>1, <1>2

\* The next chunk goes behind all that are on the wire.
LEMMA NextChunk ==
    ASSUME WireOK, NEW n \in Nat, Delivered(n), n + 1 \in 0 .. Chunks,
           wire' = Append(wire, n + 1)
    PROVE  Delivered(n + 1)'
<1>1. wire \in Seq(0 .. Chunks)
  BY DEF WireOK
<1>2. /\ Len(wire') = Len(wire) + 1 /\ wire'[Len(wire) + 1] = n + 1 /\ Len(wire) \in Nat
      /\ \A i \in 1 .. Len(wire) : wire'[i] = wire[i]
      /\ DOMAIN wire = 1 .. Len(wire) /\ DOMAIN wire' = 1 .. Len(wire')
  BY <1>1, AppendProperties, LenProperties
<1> DEFINE end == Len(wire) + 1
<1>3. ChunkAt' = ChunkAt \cup {end} /\ \A i \in ChunkAt : i < end /\ wire'[i] = wire[i]
  BY <1>2 DEF ChunkAt
<1>4. \A i \in ChunkAt : wire[i] \in 1 .. n
  BY DEF Delivered, OnWire
<1>5. OnWire' = 1 .. n + 1
  <2>1. OnWire' = OnWire \cup {n + 1}
    BY <1>2, <1>3 DEF OnWire
  <2> QED BY <2>1 DEF Delivered
<1>6. ASSUME NEW i \in ChunkAt', NEW j \in ChunkAt', i < j PROVE wire'[i] < wire'[j]
  <2>1. i \in ChunkAt /\ wire'[i] = wire[i]
    BY <1>2, <1>3, <1>6 DEF ChunkAt
  <2>2. CASE j \in ChunkAt
    BY <1>3, <1>6, <2>1, <2>2 DEF Delivered
  <2>3. CASE j = end
    <3>1. wire'[j] = n + 1
      BY <1>2, <2>3
    <3>2. PICK k \in 1 .. n : wire'[i] = k
      BY <1>4, <2>1
    <3>3. k < n + 1
      OBVIOUS
    <3> QED BY <3>1, <3>2, <3>3
  <2> QED BY <1>3, <2>2, <2>3
<1> QED BY <1>5, <1>6 DEF Delivered

\* A step that leaves the stream alone on its way from the queue to the wire.
LEMMA FlowFrame ==
    ASSUME NEW n \in Nat, Flow(n),
           UNCHANGED <<got, sentinel, queue, copy, written, wire>>,
           handler' = "writing" <=> handler = "writing", Reading' => Reading
    PROVE  Flow(n)'
<1>1. Delivered(n)' /\ Taken(n)' = Taken(n) /\ Body' = Body
  BY DEF Flow, Delivered, ChunkAt, OnWire, Taken, Body
<1>2. Reading' => InQueue(n)'
  BY <1>1 DEF Flow, InQueue
<1>3. Met(n)'
  BY DEF Flow, Met
<1> QED BY <1>1, <1>2, <1>3 DEF Flow

\* The same when the wire gets placeholder video.
LEMMA PlaceholderFlow ==
    ASSUME IInv, NEW n \in Nat, Flow(n), Placeholder
    PROVE  Flow(n)'
<1>1. UNCHANGED <<handler, got, sentinel, queue, copy, written>>
  BY DEF Placeholder, StartPlaceholder, LoopPlaceholder, ReadPlaceholder,
         WritePlaceholder, WriteFails, handlerVars,
         outputVars, copyVars
<1>2. wire' \in {wire, Append(wire, 0)}
  BY DEF Placeholder, StartPlaceholder, LoopPlaceholder, ReadPlaceholder,
         WritePlaceholder, WriteFails, viewerVars, Wrote
<1>3. Delivered(n)'
  BY <1>2, PlaceholderIsNoChunk DEF Flow, IInv, TypeInv
<1>4. Taken(n)' = Taken(n) /\ Body' = Body /\ Reading' = Reading
  BY <1>1 DEF Taken, Body, Reading
<1>5. Reading' => InQueue(n)'
  BY <1>1, <1>4 DEF Flow, InQueue
<1>6. Met(n)'
  BY <1>1, <1>4 DEF Flow, Met
<1> QED BY <1>1, <1>3, <1>5, <1>6 DEF Flow

\* What put() adds is the last of the queue.
LEMMA PutAtEnd ==
    ASSUME QueueOK, NEW x \in 0 .. Chunks, Put(x)
    PROVE  /\ Len(queue) \in Nat /\ Len(queue') = Len(queue) + 1
           /\ queue'[Len(queue) + 1] = x
           /\ \A i \in 1 .. Len(queue) : queue'[i] = queue[i]
<1>1. queue \in Seq(0 .. Chunks) /\ queue' = Append(queue, x)
  BY DEF Put, QueueOK
<1> QED BY <1>1, AppendProperties, LenProperties

\* The copy thread numbers the chunks, puts them in order, and its sentinel last.
LEMMA CopyFlow ==
    ASSUME IInv, NEW n \in Nat, Flow(n), Copy
    PROVE  Flow(n)'
<1> USE DEF IInv, TypeInv
<1>1. UNCHANGED <<handler, got, sentinel, wire>>
  BY DEF Copy, Write, PutChunk, CopyEnds, CopyCloses, handlerVars, viewerVars
<1>2. Delivered(n)' /\ Taken(n)' = Taken(n) /\ Reading' = Reading
  BY <1>1 DEF Flow, Delivered, ChunkAt, OnWire, Taken, Reading
<1>3. /\ Len(queue) \in Nat /\ written \in Nat /\ Taken(n) \in Nat
      /\ n <= written /\ copy # "over"
  <2>1. queue \in Seq(0 .. Chunks) /\ written \in 0 .. Chunks /\ got \in 0 .. Chunks
    BY DEF QueueOK, CountsOK
  <2>2. copy # "over"
    BY DEF Copy, Write, PutChunk, CopyEnds, CopyCloses
  <2> QED BY <2>1, <2>2, LenProperties DEF Taken, Flow
<1>4. n <= written'
  BY <1>3 DEF Copy, Write, PutChunk, CopyEnds, CopyCloses
<1>5. Met(n)'
  BY <1>1, <1>3 DEF Flow, Met
<1>6. ASSUME Reading PROVE InQueue(n)'
  <2>1. /\ \A i \in 1 .. Len(queue) : queue[i] = Taken(n) + i
        /\ written = Taken(n) + Len(queue) + (IF copy = "putting" THEN 1 ELSE 0)
    BY <1>3, <1>6 DEF Flow, InQueue, Body
  <2>2. CASE Write
    <3>1. /\ queue' = queue
          /\ \/ copy = "streaming" /\ copy' = "closing" /\ written' = written
             \/ copy = "streaming" /\ copy' = "putting" /\ written' = written + 1
      BY <2>2 DEF Write
    <3> QED BY <1>2, <1>3, <2>1, <3>1 DEF InQueue, Body
  <2>3. CASE PutChunk
    <3>1. copy = "putting" /\ copy' = "streaming" /\ written' = written /\ Put(written)
      BY <2>3 DEF PutChunk
    <3>2. /\ Len(queue') = Len(queue) + 1 /\ queue'[Len(queue) + 1] = written
          /\ \A i \in 1 .. Len(queue) : queue'[i] = queue[i]
      <4>1. QueueOK /\ written \in 0 .. Chunks
        BY DEF CountsOK
      <4> QED BY <3>1, <4>1, PutAtEnd
    <3>3. Body' = Len(queue) + 1 /\ written = Taken(n) + (Len(queue) + 1)
      BY <1>3, <2>1, <3>1, <3>2 DEF Body
    <3>4. \A i \in 1 .. Len(queue) + 1 : queue'[i] = Taken(n) + i
      BY <1>3, <2>1, <3>2, <3>3
    <3> QED BY <1>2, <1>3, <3>1, <3>3, <3>4 DEF InQueue
  <2>4. CASE CopyEnds \/ (CopyCloses /\ UNCHANGED queue)
    <3>1. /\ queue' = queue /\ written' = written
          /\ copy \in {"streaming", "closing"} /\ copy' \in {"closing", "ending"}
      <4>1. CASE CopyEnds
        BY <4>1 DEF CopyEnds, outputVars
      <4>2. CASE CopyCloses /\ UNCHANGED queue
        <5>1. ~ Put(0)
          <6>1. QueueOK /\ 0 \in 0 .. Chunks
            BY Bounds
          <6> QED BY <4>2, <6>1, PutAtEnd
        <5> QED BY <4>2, <5>1 DEF CopyCloses
      <4> QED BY <2>4, <4>1, <4>2
    <3> QED BY <1>2, <1>3, <2>1, <3>1 DEF InQueue, Body
  <2>5. CASE CopyCloses /\ Put(0)
    <3>1. copy = "ending" /\ copy' = "over" /\ written' = written
      <4>1. queue' # queue
        <5>1. QueueOK /\ 0 \in 0 .. Chunks
          BY Bounds
        <5> QED BY <2>5, <5>1, PutAtEnd
      <4> QED BY <2>5, <4>1 DEF CopyCloses
    <3>2. /\ Len(queue') = Len(queue) + 1 /\ queue'[Len(queue) + 1] = 0
          /\ \A i \in 1 .. Len(queue) : queue'[i] = queue[i]
      <4>1. QueueOK /\ 0 \in 0 .. Chunks
        BY Bounds
      <4> QED BY <2>5, <4>1, PutAtEnd
    <3>3. Body' = Len(queue)
      BY <1>3, <3>1, <3>2 DEF Body
    <3> QED BY <1>2, <1>3, <2>1, <3>1, <3>2, <3>3 DEF InQueue
  <2> QED BY <2>2, <2>3, <2>4, <2>5 DEF Copy, CopyCloses
<1> QED BY <1>1, <1>2, <1>4, <1>5, <1>6 DEF Flow

\* The handler takes the first of the queue: the next chunk, or the sentinel when
\* nothing else is left.
LEMMA GetFlow ==
    ASSUME IInv, NEW n \in Nat, Flow(n), GetChunk
    PROVE  Flow(n)'
<1> USE DEF IInv, TypeInv
<1>1. /\ handler = "reading" /\ queue # <<>> /\ queue' = Tail(queue) /\ got' = Head(queue)
      /\ sentinel' = (Head(queue) = 0)
      /\ handler' = IF Head(queue) = 0 THEN "finally" ELSE "writing"
      /\ UNCHANGED <<copy, written, wire>>
  BY DEF GetChunk, copyVars, viewerVars
<1>2. /\ Len(queue) \in Nat \ {0} /\ Head(queue) = queue[1] /\ Len(queue') = Len(queue) - 1
      /\ \A i \in 1 .. Len(queue) - 1 : queue'[i] = queue[i + 1]
  <2>1. queue \in Seq(0 .. Chunks)
    BY DEF QueueOK
  <2> QED BY <1>1, <2>1, HeadTailProperties, LenProperties
<1>3. /\ copy = "over" => queue[Len(queue)] = 0
      /\ \A i \in 1 .. Body : queue[i] = n + i
      /\ written = n + Body + (IF copy = "putting" THEN 1 ELSE 0)
  BY <1>1 DEF Flow, Reading, InQueue, Taken
<1>4. Delivered(n)' /\ n <= written'
  BY <1>1 DEF Flow, Delivered, ChunkAt, OnWire
<1>5. CASE Body = 0
  <2>1. copy = "over" /\ Len(queue) = 1
    BY <1>2, <1>5 DEF Body
  <2>2. Head(queue) = 0 /\ written = n
    BY <1>2, <1>3, <1>5, <2>1
  <2>3. handler' = "finally" /\ copy' = "over" /\ written' = n
    BY <1>1, <2>1, <2>2
  <2> QED BY <1>4, <2>3 DEF Flow, Reading, Met
<1>6. CASE Body # 0
  <2>1. Body \in Nat /\ 1 \in 1 .. Body
    BY <1>2, <1>6 DEF Body
  <2>2. Head(queue) = n + 1 /\ n + 1 # 0
    BY <1>2, <1>3, <2>1
  <2>3. handler' = "writing" /\ got' = n + 1 /\ sentinel' = FALSE /\ Taken(n)' = n + 1
    BY <1>1, <2>2 DEF Taken
  <2>4. Body' = Body - 1
    BY <1>1, <1>2, <1>6 DEF Body
  <2>5. copy' = "over" => Len(queue') > 0 /\ queue'[Len(queue')] = 0
    <3> SUFFICES ASSUME copy = "over" PROVE Len(queue') > 0 /\ queue'[Len(queue')] = 0
      BY <1>1
    <3>1. Len(queue) - 1 \in 1 .. Len(queue) - 1 /\ Len(queue) - 1 + 1 = Len(queue)
      BY <1>2, <1>6 DEF Body
    <3>2. queue'[Len(queue) - 1] = queue[Len(queue)]
      BY <1>2, <3>1
    <3> QED BY <1>2, <1>3, <3>1, <3>2
  <2>6. ASSUME NEW i \in 1 .. Body - 1 PROVE queue'[i] = n + 1 + i
    <3>1. i + 1 \in 1 .. Body /\ i \in 1 .. Len(queue) - 1
      BY <1>2, <2>1, <2>6 DEF Body
    <3> QED BY <1>2, <1>3, <3>1
  <2>7. InQueue(n)'
    <3>1. written' = n + 1 + (Body - 1) + (IF copy' = "putting" THEN 1 ELSE 0)
      BY <1>1, <1>3, <2>1
    <3> QED BY <2>3, <2>4, <2>5, <2>6, <3>1 DEF InQueue
  <2> QED BY <1>4, <2>3, <2>7 DEF Flow, Met
<1> QED BY <1>5, <1>6

\* The handler's other steps up to the end.
LEMMA QuietFlow ==
    ASSUME IInv, NEW n \in Nat, Flow(n),
           AwaitFirst \/ JoinPlaceholder \/ GetEmpty \/ CloseOutput \/ StopKeeper
    PROVE  Flow(n)'
<1>1. UNCHANGED <<got, sentinel, copy, written, wire>>
  BY DEF AwaitFirst, JoinPlaceholder, GetEmpty, CloseOutput, StopKeeper, copyVars,
         viewerVars
<1>2. handler # "writing" /\ handler' # "writing"
  BY DEF AwaitFirst, JoinPlaceholder, GetEmpty, CloseOutput, StopKeeper
<1>3. CASE AwaitFirst \/ JoinPlaceholder \/ GetEmpty
  <2>1. queue' = queue /\ Reading
    BY <1>3 DEF AwaitFirst, JoinPlaceholder, GetEmpty, outputVars, Reading
  <2> QED BY <1>1, <1>2, <2>1, FlowFrame
<1>4. CASE CloseOutput \/ StopKeeper
  <2>1. ~ Reading /\ ~ Reading'
    BY <1>4 DEF CloseOutput, StopKeeper, Reading
  <2>2. Delivered(n)'
    BY <1>1 DEF Flow, Delivered, ChunkAt, OnWire
  <2> QED BY <1>1, <1>2, <2>1, <2>2 DEF Flow, Met
<1> QED BY <1>3, <1>4

\* The chunk in hand is the next one the wire lacks.
LEMMA WriteFlow ==
    ASSUME IInv, NEW n \in 0 .. Chunks, Flow(n), WriteChunk
    PROVE  \E m \in 0 .. Chunks : Flow(m)'
<1> USE DEF IInv, TypeInv
<1>1. /\ UNCHANGED <<got, sentinel, queue, copy, written>> /\ handler = "writing"
      /\ \/ Wrote(got) /\ handler' = "reading"
         \/ handler' = "finally" /\ UNCHANGED wire
  BY DEF WriteChunk, WriteFails, outputVars, copyVars, viewerVars
<1>2. got = n + 1 /\ Reading /\ InQueue(n) /\ ~sentinel /\ Delivered(n) /\ n <= written
  BY <1>1 DEF Flow, Met, Reading
<1>3. CASE Wrote(got) /\ handler' = "reading"
  <2>1. got \in 0 .. Chunks /\ got # 0 /\ Chunks \in Nat
    BY <1>2, Bounds DEF CountsOK
  <2>2. wire' = Append(wire, n + 1)
    BY <1>2, <1>3, <2>1, WroteAppends
  <2>3. n + 1 \in 0 .. Chunks /\ n \in Nat
    BY <1>2, <2>1
  <2>4. Delivered(n + 1)'
    BY <1>2, <2>2, <2>3, NextChunk
  <2>5. Taken(n) = n + 1 /\ Taken(n + 1)' = n + 1 /\ Body' = Body
    BY <1>1, <1>2, <1>3 DEF Taken, Body
  <2>6. InQueue(n + 1)' /\ n + 1 <= written'
    <3>1. InQueue(n + 1)'
      BY <1>1, <1>2, <2>5 DEF InQueue
    <3>2. Body \in Nat /\ written \in Nat
      <4>1. queue \in Seq(0 .. Chunks) /\ written \in 0 .. Chunks
        BY DEF QueueOK, CountsOK
      <4>2. Len(queue) \in Nat /\ (copy = "over" => Len(queue) > 0)
        BY <1>2, <4>1, LenProperties DEF InQueue
      <4> QED BY <4>1, <4>2, Bounds DEF Body
    <3>3. written = n + 1 + Body + (IF copy = "putting" THEN 1 ELSE 0)
      BY <1>2, <2>5 DEF InQueue
    <3> QED BY <1>1, <2>3, <3>1, <3>2, <3>3
  <2>7. Flow(n + 1)'
    BY <1>1, <1>2, <1>3, <2>4, <2>6 DEF Flow, Met
  <2> QED BY <2>3, <2>7
<1>4. CASE handler' = "finally" /\ UNCHANGED wire
  <2>1. Delivered(n)'
    BY <1>2, <1>4 DEF Delivered, ChunkAt, OnWire
  <2>2. Flow(n)'
    BY <1>1, <1>2, <1>4, <2>1 DEF Flow, Met, Reading
  <2> QED BY <2>2
<1> QED BY <1>1, <1>3, <1>4

LEMMA FlowInitial == Init => FlowInv
<1> SUFFICES ASSUME Init PROVE Flow(0)
  BY Bounds DEF FlowInv
<1>1. queue = <<>> /\ wire = <<>> /\ written = 0 /\ handler = "waiting" /\ copy = "streaming"
      /\ sentinel = FALSE
  BY DEF Init
<1>2. ChunkAt = {}
  BY <1>1 DEF ChunkAt
<1>3. Delivered(0)
  BY <1>2 DEF Delivered, OnWire
<1>4. InQueue(0)
  BY <1>1 DEF InQueue, Taken, Body
<1> QED BY <1>1, <1>3, <1>4 DEF Flow, Met

LEMMA FlowInductive == IInv /\ FlowInv /\ [Next]_vars => FlowInv'
<1> SUFFICES ASSUME IInv, FlowInv, [Next]_vars PROVE FlowInv'
  OBVIOUS
<1>1. PICK n \in 0 .. Chunks : Flow(n)
  BY DEF FlowInv
<1>2. n \in Nat
  BY Bounds
<1>3. CASE UNCHANGED vars \/ Keeper \/ Viewer
  <2>1. UNCHANGED <<handler, got, sentinel, queue, copy, written, wire>>
    BY <1>3 DEF vars, Keeper, KeeperWakes, KeeperCalls, Viewer, handlerVars, outputVars,
                copyVars, viewerVars
  <2>2. Flow(n)'
    BY <1>1, <1>2, <2>1, FlowFrame DEF Reading
  <2> QED BY <2>2 DEF FlowInv
<1>4. CASE Copy \/ Placeholder
  <2>1. Flow(n)'
    BY <1>1, <1>2, <1>4, CopyFlow, PlaceholderFlow
  <2> QED BY <2>1 DEF FlowInv
<1>5. CASE Handler
  <2>1. CASE WriteChunk
    BY <1>1, <2>1, WriteFlow DEF FlowInv
  <2>2. CASE ~ WriteChunk
    <3>1. Flow(n)'
      BY <1>1, <1>2, <1>5, <2>2, GetFlow, QuietFlow DEF Handler
    <3> QED BY <3>1 DEF FlowInv
  <2> QED BY <2>1, <2>2
<1> QED BY <1>3, <1>4, <1>5 DEF Next

\* The chunks reach the viewer in the order written, none left out, and all of them when
\* the handler ends on the sentinel (vtm_demo.py:93-114, 252-269).
THEOREM StreamOnWire == Spec => []WireIsStream
<1>1. IInv /\ FlowInv => WireIsStream
  <2> SUFFICES ASSUME IInv, FlowInv PROVE WireIsStream
    OBVIOUS
  <2>1. PICK n \in 0 .. Chunks : Flow(n)
    BY DEF FlowInv
  <2>2. n \in 0 .. written
    BY <2>1, Bounds DEF Flow, IInv, TypeInv, CountsOK
  <2> QED BY <2>1, <2>2 DEF Flow, Delivered, Met, WireIsStream
<1> QED BY <1>1, Initial, Inductive, FlowInitial, FlowInductive, PTL DEF Spec
=============================================================================
