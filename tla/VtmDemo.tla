------------------------------ MODULE VtmDemo ------------------------------
(***************************************************************************)
(* The VTM demo server (scripts/vtm_demo.py): one request of a viewer.     *)
(*                                                                         *)
(* Four threads: the handler (do_GET), the copy thread that fills a        *)
(* bounded queue (_QueueOutput), the placeholder thread that writes to the *)
(* same socket until the first real chunk, and the keep-alive thread.      *)
(*                                                                         *)
(* Chunks are numbered in the order they come; 0 stands for the sentinel   *)
(* in the queue and for a chunk of placeholder video on the wire.          *)
(***************************************************************************)
EXTENDS Naturals, Sequences, SequencesExt

CONSTANTS
    QueueCap,    \* maxsize of the queue
    MaxRetries,  \* KEEPALIVE_MAX_RETRIES
    Chunks,      \* bound: chunks the copy has to write
    MaxStalls    \* bound: times the viewer stops reading

ASSUME VtmAssumption ==
    /\ {QueueCap, MaxRetries} \subseteq Nat \ {0}
    /\ {Chunks, MaxStalls} \subseteq Nat

VARIABLES
    handler, got,       \* the handler, and the chunk it is writing
    copy, written,      \* the copy thread, and the chunks it has passed to write()
    queue,
    firstByte, closed,  \* events of the queue
    placeholder, stop,  \* the placeholder thread and its stop event
    keeper, attempt,    \* the keep-alive thread
    keeperStop,
    viewer, stalls,     \* the viewer reads, has stalled or is gone
    wire,               \* what was written to it, the placeholder before the stream once
    giveUp,             \* the join of the placeholder has timed out
    sentinel            \* the handler has met the sentinel

handlerVars == <<handler, got, giveUp, sentinel>>
outputVars  == <<queue, firstByte, closed>>
copyVars    == <<copy, written>>
placeVars   == <<placeholder, stop>>
keeperVars  == <<keeper, attempt, keeperStop>>
viewerVars  == <<viewer, stalls, wire>>
vars == <<handlerVars, outputVars, copyVars, placeVars, keeperVars, viewerVars>>

Init ==
    /\ handler = "waiting" /\ got = 0 /\ giveUp = FALSE /\ sentinel = FALSE
    /\ queue = <<>> /\ firstByte = FALSE /\ closed = FALSE
    /\ copy = "streaming" /\ written = 0
    /\ placeholder = "starting" /\ stop = FALSE
    /\ keeper = "sleeping" /\ attempt = 0 /\ keeperStop = FALSE
    /\ viewer = "reading" /\ stalls = 0 /\ wire = <<>>

Room == Len(queue) < QueueCap

\* Queue.put: blocks while the queue is full.  The mutant drops instead.
PutOrDrop(x) == queue' = IF Room THEN Append(queue, x) ELSE queue

Put(x) == Room /\ queue' = Append(queue, x)

\* A write to a viewer that has stalled blocks; do_GET's return closes the socket.
Wrote(x) ==
    /\ viewer = "reading" /\ handler # "done"
    /\ wire' = IF x = 0 /\ wire = <<0>> THEN wire ELSE Append(wire, x)
    /\ UNCHANGED <<viewer, stalls>>

WriteFails == (viewer = "gone" \/ handler = "done") /\ UNCHANGED viewerVars

-----------------------------------------------------------------------------
(***************************************************************************)
(* The copy thread: _copy and the methods of its output.                   *)
(***************************************************************************)
Write ==
    /\ copy = "streaming" /\ written < Chunks
    /\ IF closed THEN copy' = "closing" /\ UNCHANGED <<firstByte, written>>
                 ELSE copy' = "putting" /\ firstByte' = TRUE /\ written' = written + 1
    /\ UNCHANGED <<handlerVars, queue, closed, placeVars, keeperVars, viewerVars>>

PutChunk ==
    /\ copy = "putting"
    /\ Put(written)
    /\ copy' = "streaming"
    /\ UNCHANGED <<handlerVars, firstByte, closed, written, placeVars, keeperVars, viewerVars>>

\* The stream ends, or fails.
CopyEnds ==
    /\ copy = "streaming"
    /\ copy' = "closing"
    /\ UNCHANGED <<handlerVars, outputVars, written, placeVars, keeperVars, viewerVars>>

CopyCloses ==
    /\ \/ copy = "closing" /\ closed' = TRUE /\ copy' = "ending" /\ UNCHANGED queue
       \/ copy = "ending" /\ Put(0) /\ copy' = "over" /\ UNCHANGED closed
    /\ UNCHANGED <<handlerVars, firstByte, written, placeVars, keeperVars, viewerVars>>

Copy == Write \/ PutChunk \/ CopyEnds \/ CopyCloses

-----------------------------------------------------------------------------
StartPlaceholder ==
    /\ placeholder = "starting"
    /\ placeholder' \in {"looping", "over"}
    /\ UNCHANGED <<handlerVars, outputVars, copyVars, stop, keeperVars, viewerVars>>

\* Mutant: the loop does not look at the stop event.
LoopForEver ==
    /\ placeholder = "looping"
    /\ placeholder' = "fetching"
    /\ UNCHANGED <<handlerVars, outputVars, copyVars, stop, keeperVars, viewerVars>>

LoopPlaceholder ==
    /\ placeholder = "looping"
    /\ placeholder' = IF stop THEN "over" ELSE "fetching"
    /\ UNCHANGED <<handlerVars, outputVars, copyVars, stop, keeperVars, viewerVars>>

\* Its ffmpeg has filled a chunk, however long that took, or has ended.
ReadPlaceholder ==
    /\ placeholder = "fetching"
    /\ placeholder' \in {"writing", "over"}
    /\ UNCHANGED <<handlerVars, outputVars, copyVars, stop, keeperVars, viewerVars>>

WritePlaceholder ==
    /\ placeholder = "writing"
    /\ \/ Wrote(0) /\ placeholder' = "looping"
       \/ WriteFails /\ placeholder' = "over"
    /\ UNCHANGED <<handlerVars, outputVars, copyVars, stop, keeperVars>>

Placeholder == StartPlaceholder \/ LoopPlaceholder \/ ReadPlaceholder \/ WritePlaceholder

-----------------------------------------------------------------------------
\* The wait for the interval or for the pause between attempts ends, early if stopped.
KeeperWakes ==
    /\ \/ keeper = "sleeping" /\ keeper' = (IF keeperStop THEN "over" ELSE "calling")
          /\ attempt' = 1
       \/ keeper = "pausing" /\ keeper' = (IF keeperStop THEN "sleeping" ELSE "calling")
          /\ attempt' = attempt + 1
    /\ UNCHANGED <<handlerVars, outputVars, copyVars, placeVars, keeperStop, viewerVars>>

\* The call succeeds, or fails and is repeated.
KeeperCalls ==
    /\ keeper = "calling"
    /\ keeper' \in IF attempt < MaxRetries THEN {"sleeping", "pausing"} ELSE {"sleeping"}
    /\ UNCHANGED <<handlerVars, outputVars, copyVars, placeVars, attempt, keeperStop, viewerVars>>

Keeper == KeeperWakes \/ KeeperCalls

-----------------------------------------------------------------------------
(***************************************************************************)
(* The handler.                                                            *)
(***************************************************************************)
\* Mutant: only the first byte is waited for.
AwaitByte ==
    /\ handler = "waiting" /\ firstByte
    /\ stop' = TRUE /\ handler' = "joining"
    /\ UNCHANGED <<got, giveUp, sentinel, outputVars, copyVars, placeholder, keeperVars, viewerVars>>

\* The first real chunk is there, or the copy thread has given up.
AwaitFirst ==
    /\ handler = "waiting" /\ (firstByte \/ copy = "over")
    /\ stop' = TRUE /\ handler' = "joining"
    /\ UNCHANGED <<got, giveUp, sentinel, outputVars, copyVars, placeholder, keeperVars, viewerVars>>

\* The placeholder waits for its ffmpeg to start or to fill a chunk, or for the viewer.
Blocked ==
    \/ placeholder \in {"starting", "fetching"}
    \/ placeholder = "writing" /\ viewer = "stalled"

\* join(timeout=5.0) returns when the thread is over, and without it when it blocks.
JoinPlaceholder ==
    /\ handler = "joining"
    /\ placeholder = "over" \/ Blocked
    /\ giveUp' = (placeholder # "over")
    /\ handler' = "reading"
    /\ UNCHANGED <<got, sentinel, outputVars, copyVars, placeVars, keeperVars, viewerVars>>

GetChunk ==
    /\ handler = "reading" /\ queue # <<>>
    /\ queue' = Tail(queue) /\ got' = Head(queue)
    /\ sentinel' = (Head(queue) = 0)
    /\ handler' = IF Head(queue) = 0 THEN "finally" ELSE "writing"
    /\ UNCHANGED <<giveUp, firstByte, closed, copyVars, placeVars, keeperVars, viewerVars>>

\* A second without a chunk, and then a look at the copy thread, which may have written
\* and ended in between.
GetEmpty ==
    /\ \/ handler = "reading" /\ queue = <<>> /\ handler' = "looking"
       \/ handler = "looking" /\ handler' = (IF copy = "over" THEN "finally" ELSE "reading")
    /\ UNCHANGED <<got, giveUp, sentinel, outputVars, copyVars, placeVars, keeperVars, viewerVars>>

WriteChunk ==
    /\ handler = "writing"
    /\ \/ Wrote(got) /\ handler' = "reading"
       \/ WriteFails /\ handler' = "finally"
    /\ UNCHANGED <<got, giveUp, sentinel, outputVars, copyVars, placeVars, keeperVars>>

\* output.close(): the event, then a sentinel the queue has to have room for.
CloseOutput ==
    /\ \/ handler = "finally" /\ closed' = TRUE /\ handler' = "ending" /\ UNCHANGED queue
       \/ handler = "ending" /\ Put(0) /\ handler' = "stopping" /\ UNCHANGED closed
    /\ UNCHANGED <<got, giveUp, sentinel, firstByte, copyVars, placeVars, keeperVars, viewerVars>>

\* After five seconds for the copy thread, and five more for the keep-alive.
StopKeeper ==
    /\ handler = "stopping"
    /\ keeperStop' = TRUE /\ handler' = "done"
    /\ UNCHANGED <<got, giveUp, sentinel, outputVars, copyVars, placeVars, keeper, attempt, viewerVars>>

Handler == \/ AwaitFirst \/ JoinPlaceholder \/ GetChunk \/ GetEmpty \/ WriteChunk
           \/ CloseOutput \/ StopKeeper

-----------------------------------------------------------------------------
Viewer ==
    /\ \/ viewer = "reading" /\ stalls < MaxStalls /\ viewer' = "stalled" /\ stalls' = stalls + 1
       \/ viewer = "stalled" /\ viewer' = "reading" /\ UNCHANGED stalls
       \/ viewer # "gone" /\ viewer' = "gone" /\ UNCHANGED stalls
    /\ UNCHANGED <<handlerVars, outputVars, copyVars, placeVars, keeperVars, wire>>

Next == Copy \/ Placeholder \/ Keeper \/ Handler \/ Viewer

Spec == Init /\ [][Next]_vars

\* Threads go on; a stream ends some day; nobody makes the viewer read or leave.
FairSpec ==
    Spec /\ WF_vars(Copy) /\ WF_vars(Placeholder) /\ WF_vars(Keeper) /\ WF_vars(Handler)

-----------------------------------------------------------------------------
TypeOK ==
    /\ handler \in {"waiting", "joining", "reading", "looking", "writing", "finally",
                    "ending", "stopping", "done"}
    /\ copy \in {"streaming", "putting", "closing", "ending", "over"}
    /\ placeholder \in {"starting", "looping", "fetching", "writing", "over"}
    /\ keeper \in {"sleeping", "calling", "pausing", "over"}
    /\ viewer \in {"reading", "stalled", "gone"}
    /\ {firstByte, closed, stop, keeperStop, giveUp, sentinel} \subseteq BOOLEAN
    /\ {got, written} \subseteq 0 .. Chunks
    /\ attempt \in 0 .. MaxRetries
    /\ stalls \in 0 .. MaxStalls
    /\ queue \in Seq(0 .. Chunks) /\ Len(queue) <= QueueCap
    /\ wire \in Seq(0 .. Chunks)

\* Places of the wire that hold chunks, and the chunks.
ChunkAt == {i \in DOMAIN wire : wire[i] # 0}
OnWire  == {wire[i] : i \in ChunkAt}

(***************************************************************************)
(* The viewer gets the chunks in order and without a gap, and a stream the *)
(* handler sees end by the sentinel is on the wire to the last chunk       *)
(* (vtm_demo.py:93-114, 252-269).                                          *)
(***************************************************************************)
WireIsStream ==
    /\ \A i, j \in ChunkAt : i < j => wire[i] < wire[j]
    /\ \E n \in 0 .. written : OnWire = 1 .. n
    /\ sentinel => OnWire = 1 .. written

\* Where placeholder video follows a real chunk.
Late == {i \in DOMAIN wire : wire[i] = 0 /\ \E j \in 1 .. i - 1 : wire[j] # 0}

(***************************************************************************)
(* The comment at vtm_demo.py:242-244 has the placeholder stopped "before  *)
(* writing any real bytes, so the two never interleave on the socket".     *)
(* The code does less: a placeholder whose thread was joined writes no     *)
(* more, but one that fills a chunk, or writes it to a slow viewer, for    *)
(* longer than the join's five seconds puts that one chunk into the        *)
(* stream, as it looks at the stop event only then (158-163, 248).         *)
(***************************************************************************)
OneLateChunk ==
    /\ Late # {} => giveUp
    /\ \A i, j \in Late : i = j

(***************************************************************************)
(* Once the viewer is gone the handler returns and the battery-powered     *)
(* camera is no longer kept awake, except when the handler finds the queue *)
(* full: its own sentinel then waits for a reader that does not exist, and *)
(* the keep-alive goes on (vtm_demo.py:112-114, 270-274).                  *)
(***************************************************************************)
Stuck == handler = "ending" /\ ~Room
CameraLetGo ==
    viewer = "gone" ~> Stuck \/ (handler = "done" /\ keeper = "over" /\ placeholder = "over")
=============================================================================
