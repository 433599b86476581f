---------------------------- MODULE StreamFanOut ----------------------------
(***************************************************************************)
(* The viewers of one camera serial sharing one real EZVIZ connection      *)
(* (custom_components/ezviz_stream/ezviz_client.py):                       *)
(*                                                                         *)
(*   - EzvizStreamView.get, one handler task per HTTP request, and its     *)
(*     _stream_placeholder task;                                           *)
(*   - EzvizClient.async_attach_stream / async_detach_stream and the       *)
(*     _shared_streams registry, one per loaded config entry;              *)
(*   - _SharedStream and its _BroadcastOutput: the copy job in an executor *)
(*     thread, the keep-alive task, the subscriber set;                    *)
(*   - async_setup_entry / async_unload_entry, which replace the client.   *)
(*                                                                         *)
(* An event-loop task is atomic between two awaits, so an action is what a *)
(* handler does from one await to the next.  Both critical sections of     *)
(* _shared_streams_lock and that of _start_lock contain no await: the      *)
(* locks are never held across a suspension and need no variable.          *)
(*                                                                         *)
(* A _SharedStream is named by the request that created it.                *)
(***************************************************************************)
EXTENDS Naturals, Sequences

CONSTANTS
    Requests,             \* HTTP requests for the stream view, each used once
    Clients,              \* EzvizClient objects, one per set-up of the entry
    QueueSize,            \* _SUBSCRIBER_QUEUE_SIZE
    HandlerCancellation,  \* does the HTTP server cancel a lost request's task?
    NoClient, NoStream

ASSUME FanOutAssumption ==
    /\ QueueSize \in Nat \ {0}
    /\ HandlerCancellation \in BOOLEAN
    /\ NoClient \notin Clients
    /\ NoStream \notin Requests

Streams == Requests

Chunk == "chunk"
End   == "end"          \* the None sentinel
Items == {Chunk, End}

VARIABLES
    domain,       \* hass.data[DOMAIN].get(entry_id)
    loaded,       \* clients created so far
    registry,     \* client -> its _shared_streams.get(serial)
    pc,           \* request -> the await its handler is at
    client,       \* request -> the client it looked up
    stream,       \* request -> the shared stream it is attached to
    gone,         \* request -> _client_disconnected(request)
    cancelled,    \* request -> its task was cancelled by the server
    ready,        \* request -> real_data_ready
    placeholder,  \* request -> its placeholder task
    queue,        \* request -> its subscriber queue
    subs,         \* stream -> output._subscribers
    closed,       \* stream -> output._closed
    stop,         \* stream -> _keepalive_stop
    copy,         \* stream -> its copy job
    keepalive     \* stream -> its keep-alive task

reqVars    == <<pc, client, stream, gone, cancelled, ready, placeholder>>
streamVars == <<subs, closed, stop, copy, keepalive>>
entryVars  == <<domain, loaded>>
vars == <<entryVars, registry, reqVars, queue, streamVars>>

Init ==
    /\ domain = NoClient
    /\ loaded = {}
    /\ registry = [c \in Clients |-> NoStream]
    /\ pc = [r \in Requests |-> "idle"]
    /\ client = [r \in Requests |-> NoClient]
    /\ stream = [r \in Requests |-> NoStream]
    /\ gone = [r \in Requests |-> FALSE]
    /\ cancelled = [r \in Requests |-> FALSE]
    /\ ready = [r \in Requests |-> FALSE]
    /\ placeholder = [r \in Requests |-> "none"]
    /\ queue = [r \in Requests |-> <<>>]
    /\ subs = [s \in Streams |-> {}]
    /\ closed = [s \in Streams |-> FALSE]
    /\ stop = [s \in Streams |-> FALSE]
    /\ copy = [s \in Streams |-> "none"]
    /\ keepalive = [s \in Streams |-> "none"]

-----------------------------------------------------------------------------
(* The config entry. *)

SetupEntry(c) ==
    /\ domain = NoClient
    /\ c \notin loaded
    /\ domain' = c
    /\ loaded' = loaded \cup {c}
    /\ UNCHANGED <<registry, reqVars, queue, streamVars>>

\* async_close does nothing: the streams of the client keep running.
UnloadEntry ==
    /\ domain # NoClient
    /\ domain' = NoClient
    /\ UNCHANGED <<loaded, registry, reqVars, queue, streamVars>>

-----------------------------------------------------------------------------
(* async_detach_stream and _SharedStream.close up to their first await.    *)

LastOf(r) == subs[stream[r]] = {r}

\* Mutants of the three parts: the last viewer forgets one of them.
DeregisterNever(r) == UNCHANGED registry
CloseOutputNever(r) == UNCHANGED closed
StopKeepaliveNever(r) == UNCHANGED stop

Deregister(r) ==
    registry' = [registry EXCEPT ![client[r]] =
                     IF LastOf(r) /\ @ = stream[r] THEN NoStream ELSE @]

CloseOutput(r) == closed' = [closed EXCEPT ![stream[r]] = @ \/ LastOf(r)]

StopKeepalive(r) == stop' = [stop EXCEPT ![stream[r]] = @ \/ LastOf(r)]

\* The queue is dropped: nobody reads it again.
Detach(r) ==
    /\ subs' = [subs EXCEPT ![stream[r]] = @ \ {r}]
    /\ queue' = [queue EXCEPT ![r] = <<>>]
    /\ Deregister(r) /\ CloseOutput(r) /\ StopKeepalive(r)
    /\ UNCHANGED <<copy, keepalive>>

\* close() then awaits the two jobs, if they were started.
AwaitsJobs(r) == LastOf(r) /\ copy[stream[r]] # "none"

\* ... and goes on when both are over, or at once when the copy job raised.
JobsOver(s) == copy[s] = "over" /\ keepalive[s] = "over"

Goto(r, label) == pc' = [pc EXCEPT ![r] = label]

-----------------------------------------------------------------------------
(* EzvizStreamView.get. *)

\* The entry's client is looked up before response.prepare is awaited.
Arrive(r) ==
    /\ pc[r] = "idle"
    /\ client' = [client EXCEPT ![r] = domain]
    /\ Goto(r, IF domain = NoClient THEN "done" ELSE "prepare")
    /\ UNCHANGED <<entryVars, registry, stream, gone, cancelled, ready,
                   placeholder, queue, streamVars>>

PrepareFails(r) ==
    /\ pc[r] = "prepare" /\ gone[r]
    /\ Goto(r, "done")
    /\ UNCHANGED <<entryVars, registry, client, stream, gone, cancelled,
                   ready, placeholder, queue, streamVars>>

\* Mutant of StreamFor: the registered stream is not looked up.
FreshStream(r) == r

StreamFor(r) ==
    IF registry[client[r]] = NoStream THEN r ELSE registry[client[r]]

\* Start the placeholder and subscribe, to the registered stream or a new one.
Attach(r) ==
    /\ pc[r] = "prepare"
    /\ registry' = [registry EXCEPT ![client[r]] = StreamFor(r)]
    /\ stream' = [stream EXCEPT ![r] = StreamFor(r)]
    /\ subs' = [subs EXCEPT ![StreamFor(r)] = @ \cup {r}]
    /\ placeholder' = [placeholder EXCEPT ![r] = "starting"]
    /\ Goto(r, "login")
    /\ UNCHANGED <<entryVars, client, gone, cancelled, ready, queue,
                   closed, stop, copy, keepalive>>

\* Mutant of StartedAlready: a finished stream is started again.
StillRunning(s) == copy[s] = "running"

StartedAlready(s) == copy[s] # "none"

StartJobs(s) ==
    /\ copy' = [copy EXCEPT ![s] = "running"]
    /\ keepalive' = [keepalive EXCEPT ![s] = "on"]

\* Logged in: ensure_started starts the two jobs unless someone already did.
LoginOk(r) ==
    /\ pc[r] = "login"
    /\ IF StartedAlready(stream[r]) THEN UNCHANGED <<copy, keepalive>>
       ELSE StartJobs(stream[r])
    /\ Goto(r, "watch")
    /\ UNCHANGED <<entryVars, registry, client, stream, gone, cancelled, ready,
                   placeholder, queue, subs, closed, stop>>

\* EzvizAuthError waits for the placeholder; any other exception propagates.
ReturnError(r) ==
    \/ /\ ready' = [ready EXCEPT ![r] = TRUE]
       /\ Goto(r, "faildrain")
    \/ /\ Goto(r, "done")
       /\ UNCHANGED ready

\* Mutant of LoginFail: no `except Exception`, so nothing is detached.
LoginFailLeaks(r) ==
    /\ pc[r] = "login"
    /\ ReturnError(r)
    /\ UNCHANGED <<entryVars, registry, client, stream, gone, cancelled,
                   placeholder, queue, streamVars>>

LoginFail(r) ==
    /\ pc[r] = "login"
    /\ Detach(r)
    /\ IF AwaitsJobs(r) THEN Goto(r, "failclose") /\ UNCHANGED ready
       ELSE ReturnError(r)
    /\ UNCHANGED <<entryVars, client, stream, gone, cancelled, placeholder>>

FailClosed(r) ==
    /\ pc[r] = "failclose"
    /\ \/ JobsOver(stream[r]) /\ ReturnError(r)
       \/ copy[stream[r]] = "raised" /\ Goto(r, "done") /\ UNCHANGED ready
    /\ UNCHANGED <<entryVars, registry, client, stream, gone, cancelled,
                   placeholder, queue, streamVars>>

FailDrained(r) ==
    /\ pc[r] = "faildrain" /\ placeholder[r] = "done"
    /\ Goto(r, "done")
    /\ UNCHANGED <<entryVars, registry, client, stream, gone, cancelled, ready,
                   placeholder, queue, streamVars>>

\* The finally clause: wait for the placeholder if it runs, then detach.
DetachNow(r) ==
    /\ Detach(r)
    /\ Goto(r, IF AwaitsJobs(r) THEN "close" ELSE "done")

\* Mutant of Finish: a viewer that got no data does not wait for its placeholder.
FinishAtOnce(r) ==
    /\ ready' = [ready EXCEPT ![r] = TRUE]
    /\ DetachNow(r)

Finish(r) ==
    /\ ready' = [ready EXCEPT ![r] = TRUE]
    /\ IF placeholder[r] = "done" THEN DetachNow(r)
       ELSE Goto(r, "drain") /\ UNCHANGED <<registry, queue, streamVars>>

FirstStop(r) == IF ready[r] THEN "write" ELSE "handoff"

\* The first chunk stops the placeholder before anything else is written.
GetChunk(r) ==
    /\ pc[r] = "watch" /\ queue[r] # <<>> /\ Head(queue[r]) = Chunk
    /\ queue' = [queue EXCEPT ![r] = Tail(@)]
    /\ ready' = [ready EXCEPT ![r] = TRUE]
    /\ Goto(r, FirstStop(r))
    /\ UNCHANGED <<entryVars, registry, client, stream, gone, cancelled,
                   placeholder, streamVars>>

\* Its queue is not read again, so the sentinel is left there.
GetEnd(r) ==
    /\ pc[r] = "watch" /\ queue[r] # <<>> /\ Head(queue[r]) = End
    /\ Finish(r)
    /\ UNCHANGED <<entryVars, client, stream, gone, cancelled, placeholder>>

\* Mutant of IdleTimeout: the poll never looks at the transport.
IdleForEver(r) == FALSE

\* The 5 s poll of an idle queue; with a live transport it just polls again.
IdleTimeout(r) ==
    /\ pc[r] = "watch" /\ queue[r] = <<>> /\ gone[r]
    /\ Finish(r)
    /\ UNCHANGED <<entryVars, client, stream, gone, cancelled, placeholder>>

HandoffDone(r) ==
    /\ pc[r] = "handoff" /\ placeholder[r] = "done"
    /\ Goto(r, "write")
    /\ UNCHANGED <<entryVars, registry, client, stream, gone, cancelled, ready,
                   placeholder, queue, streamVars>>

WriteOk(r) ==
    /\ pc[r] = "write" /\ ~gone[r]
    /\ Goto(r, "watch")
    /\ UNCHANGED <<entryVars, registry, client, stream, gone, cancelled, ready,
                   placeholder, queue, streamVars>>

WriteReset(r) ==
    /\ pc[r] = "write" /\ gone[r]
    /\ Finish(r)
    /\ UNCHANGED <<entryVars, client, stream, gone, cancelled, placeholder>>

Drained(r) ==
    /\ pc[r] = "drain" /\ placeholder[r] = "done"
    /\ DetachNow(r)
    /\ UNCHANGED <<entryVars, client, stream, gone, cancelled, ready,
                   placeholder>>

Closed(r) ==
    /\ pc[r] = "close"
    /\ JobsOver(stream[r]) \/ copy[stream[r]] = "raised"
    /\ Goto(r, "done")
    /\ UNCHANGED <<entryVars, registry, client, stream, gone, cancelled, ready,
                   placeholder, queue, streamVars>>

-----------------------------------------------------------------------------
(* The HTTP connection and the server's cancellation of the handler. *)

Disconnect(r) ==
    /\ pc[r] # "idle" /\ ~gone[r]
    /\ gone' = [gone EXCEPT ![r] = TRUE]
    /\ UNCHANGED <<entryVars, registry, pc, client, stream, cancelled, ready,
                   placeholder, queue, streamVars>>

MayCancel(r) == HandlerCancellation /\ gone[r] /\ ~cancelled[r]

\* Inside the streaming loop: caught, and the finally clause runs.
CancelLoop(r) ==
    /\ MayCancel(r) /\ pc[r] \in {"watch", "write"}
    /\ cancelled' = [cancelled EXCEPT ![r] = TRUE]
    /\ Finish(r)
    /\ UNCHANGED <<entryVars, client, stream, gone, placeholder>>

\* Awaiting the placeholder task forwards the cancellation to it; while it
\* plays, it swallows the exception and the handler never sees it.
CancelSwallowed(r) ==
    /\ MayCancel(r) /\ pc[r] \in {"handoff", "drain", "faildrain"}
    /\ placeholder[r] = "playing"
    /\ cancelled' = [cancelled EXCEPT ![r] = TRUE]
    /\ placeholder' = [placeholder EXCEPT ![r] = "reaping"]
    /\ UNCHANGED <<entryVars, registry, pc, client, stream, gone, ready,
                   queue, streamVars>>

\* ... in its other phases the exception comes back to the handler, whose
\* streaming loop (handoff) catches it and detaches,
CancelHandoff(r) ==
    /\ MayCancel(r) /\ pc[r] = "handoff" /\ placeholder[r] # "playing"
    /\ cancelled' = [cancelled EXCEPT ![r] = TRUE]
    /\ placeholder' = [placeholder EXCEPT ![r] = "done"]
    /\ DetachNow(r)
    /\ UNCHANGED <<entryVars, client, stream, gone, ready>>

\* ... and whose finally clause (drain) does not: the detach is skipped.
CancelDrain(r) ==
    /\ MayCancel(r) /\ pc[r] \in {"drain", "faildrain"}
    /\ placeholder[r] # "playing"
    /\ cancelled' = [cancelled EXCEPT ![r] = TRUE]
    /\ placeholder' = [placeholder EXCEPT ![r] = "done"]
    /\ Goto(r, "done")
    /\ UNCHANGED <<entryVars, registry, client, stream, gone, ready,
                   queue, streamVars>>

\* Before or after the loop nothing catches it: `except Exception` of
\* async_attach_stream does not see a CancelledError.
CancelOutside(r) ==
    /\ MayCancel(r) /\ pc[r] \in {"prepare", "login", "close", "failclose"}
    /\ cancelled' = [cancelled EXCEPT ![r] = TRUE]
    /\ Goto(r, "done")
    /\ UNCHANGED <<entryVars, registry, client, stream, gone, ready,
                   placeholder, queue, streamVars>>

Cancel(r) ==
    \/ CancelLoop(r) \/ CancelSwallowed(r) \/ CancelHandoff(r)
    \/ CancelDrain(r) \/ CancelOutside(r)

-----------------------------------------------------------------------------
(* The placeholder task. *)

PlaceholderTo(r, phase) ==
    /\ placeholder' = [placeholder EXCEPT ![r] = phase]
    /\ UNCHANGED <<entryVars, registry, pc, client, stream, gone, cancelled,
                   ready, queue, streamVars>>

\* ffmpeg starts, or cannot be started (OSError).
PlaceholderStart(r) ==
    /\ placeholder[r] = "starting"
    /\ PlaceholderTo(r, "playing") \/ PlaceholderTo(r, "done")

\* The stop event or the lost transport is seen within a 0.5 s read.
PlaceholderStop(r) ==
    /\ placeholder[r] = "playing" /\ (ready[r] \/ gone[r])
    /\ PlaceholderTo(r, "reaping")

\* ffmpeg's output ended on its own.
PlaceholderEof(r) ==
    /\ placeholder[r] = "playing"
    /\ PlaceholderTo(r, "reaping")

PlaceholderReaped(r) ==
    /\ placeholder[r] = "reaping"
    /\ PlaceholderTo(r, "done")

-----------------------------------------------------------------------------
(* The copy job, its callbacks on the loop, and the keep-alive task.       *)

\* _broadcast_put drops the item, chunk or sentinel, when the queue is full.
\*
\* The callbacks that write() and close() post to the loop are merged with the
\* post: a queue added after the snapshot of the subscribers misses the item,
\* one removed is not read again, and posts keep their order.
Broadcast(s, item) ==
    queue' = [r \in Requests |->
                IF r \in subs[s] /\ Len(queue[r]) < QueueSize
                THEN Append(queue[r], item) ELSE queue[r]]

CopyWrite(s) ==
    /\ copy[s] = "running" /\ ~closed[s]
    /\ Broadcast(s, Chunk)
    /\ UNCHANGED <<entryVars, registry, reqVars, streamVars>>

\* Mutant of CopyEnd: close() posts the sentinel but sets no flag, and the copy
\* is tried again.
CopyRetries(s) ==
    /\ copy[s] = "running"
    /\ Broadcast(s, End)
    /\ UNCHANGED <<entryVars, registry, reqVars, streamVars>>

\* The upstream ends, fails or times out, or write() found the output closed:
\* output.close() in the finally clause, then the job is over.
CopyEnd(s) ==
    /\ copy[s] = "running"
    /\ closed' = [closed EXCEPT ![s] = TRUE]
    /\ Broadcast(s, End)
    /\ \E result \in {"over", "raised"} : copy' = [copy EXCEPT ![s] = result]
    /\ UNCHANGED <<entryVars, registry, reqVars, subs, stop, keepalive>>

KeepaliveExit(s) ==
    /\ keepalive[s] = "on" /\ stop[s]
    /\ keepalive' = [keepalive EXCEPT ![s] = "over"]
    /\ UNCHANGED <<entryVars, registry, reqVars, queue, subs, closed, stop,
                   copy>>

-----------------------------------------------------------------------------

\* Steps of a handler that depend on no one's goodwill: HTTP calls to EZVIZ
\* have timeouts, the queue poll has one, a write to a lost transport raises.
Handler(r) ==
    \/ PrepareFails(r) \/ Attach(r) \/ LoginOk(r) \/ LoginFail(r)
    \/ FailClosed(r) \/ FailDrained(r)
    \/ GetChunk(r) \/ GetEnd(r) \/ IdleTimeout(r) \/ HandoffDone(r)
    \/ WriteReset(r) \/ Drained(r) \/ Closed(r)

Placeholder(r) ==
    PlaceholderStart(r) \/ PlaceholderStop(r) \/ PlaceholderReaped(r)

Request(r) ==
    \/ Arrive(r) \/ Handler(r) \/ WriteOk(r) \/ Disconnect(r) \/ Cancel(r)
    \/ Placeholder(r) \/ PlaceholderEof(r)

Stream(s) == CopyWrite(s) \/ CopyEnd(s) \/ KeepaliveExit(s)

Next ==
    \/ \E c \in Clients : SetupEntry(c)
    \/ UnloadEntry
    \/ \E r \in Requests : Request(r)
    \/ \E s \in Streams : Stream(s)

Spec == Init /\ [][Next]_vars

\* Tasks, threads and callbacks run.  Nothing is assumed of the browser, nor
\* of the camera, except that a copy job whose output is closed comes to an
\* end: its next write raises, and its reads time out after 10 s.  A write to
\* a client that neither reads nor closes may block for ever, so the placeholder
\* is only sure to stop once the transport is gone.
Fairness ==
    /\ \A r \in Requests :
         /\ WF_vars(Handler(r))
         /\ WF_vars(PlaceholderStart(r))
         /\ WF_vars(gone[r] /\ PlaceholderStop(r))
         /\ WF_vars(PlaceholderReaped(r))
    /\ \A s \in Streams :
         /\ WF_vars(closed[s] /\ CopyEnd(s))
         /\ WF_vars(KeepaliveExit(s))

FairSpec == Spec /\ Fairness

\* In addition, every client keeps reading its response.
ReadingSpec ==
    FairSpec /\ \A r \in Requests :
                  WF_vars(WriteOk(r)) /\ WF_vars(PlaceholderStop(r))

-----------------------------------------------------------------------------
(* Safety. *)

\* Every variable keeps the values the handlers, tasks and threads give it.
TypeOK ==
    /\ domain \in Clients \cup {NoClient}
    /\ loaded \in SUBSET Clients
    /\ registry \in [Clients -> Streams \cup {NoStream}]
    /\ pc \in [Requests -> {"idle", "prepare", "login", "watch", "handoff",
                            "write", "drain", "close", "failclose",
                            "faildrain", "done"}]
    /\ client \in [Requests -> Clients \cup {NoClient}]
    /\ stream \in [Requests -> Streams \cup {NoStream}]
    /\ gone \in [Requests -> BOOLEAN]
    /\ cancelled \in [Requests -> BOOLEAN]
    /\ ready \in [Requests -> BOOLEAN]
    /\ placeholder \in [Requests -> {"none", "starting", "playing", "reaping",
                                     "done"}]
    /\ queue \in [Requests -> Seq(Items)]
    /\ subs \in [Streams -> SUBSET Requests]
    /\ closed \in [Streams -> BOOLEAN]
    /\ stop \in [Streams -> BOOLEAN]
    /\ copy \in [Streams -> {"none", "running", "over", "raised"}]
    /\ keepalive \in [Streams -> {"none", "on", "over"}]

\* The registry names a stream exactly while the stream has subscribers: a
\* stream nobody can join has no viewer, and an entry without viewers is never
\* left behind for a later request to revive (async_attach_stream and
\* async_detach_stream agree across every interleaving).
RegistryExact ==
    \A s \in Streams :
        subs[s] # {} <=> client[s] # NoClient /\ registry[client[s]] = s

\* A client never has two copy jobs that still feed viewers: the second viewer
\* shares the first one's connection (_SharedStream's single-session promise,
\* for connections that are not already being torn down).
Live(s) == copy[s] = "running" /\ ~closed[s]
OneLivePerClient ==
    \A s, t \in Streams :
        Live(s) /\ Live(t) /\ client[s] = client[t] => s = t

\* A connection or keep-alive loop with no viewer left has been told to stop:
\* whatever order the viewers failed, left or disconnected in, the last one out
\* closed the output and set the stop event (async_detach_stream).
NoOrphanStream ==
    \A s \in Streams :
        subs[s] = {} /\ copy[s] # "none" => closed[s] /\ stop[s]

\* ... and never while someone still watches: a viewer that leaves or fails to
\* log in does not silence the keep-alive of the others.
StopMeansUnwatched == \A s \in Streams : stop[s] => subs[s] = {}

\* Both together: a stream is silenced by its last viewer, whichever that is and
\* however it leaves, and by no one else (async_detach_stream).
StopsWithLastViewer == NoOrphanStream /\ StopMeansUnwatched

\* Nothing follows the end-of-stream sentinel in a viewer's queue.
EndIsLast ==
    \A r \in Requests :
        \A i \in 1..Len(queue[r]) : queue[r][i] = End => i = Len(queue[r])

\* While real data is written to a response its placeholder writes nothing: the
\* two never interleave, not even when a cancellation was swallowed by the
\* placeholder task.
NoInterleave ==
    \A r \in Requests : pc[r] = "write" => placeholder[r] = "done"

\* A handler that told its placeholder to stop does not return before it has:
\* nothing writes to a response that is already finished.
PlaceholderStopped ==
    \A r \in Requests : pc[r] = "done" /\ ready[r] => placeholder[r] = "done"

\* Both together: the placeholder is over before anything else is done with a
\* response, written or finished (EzvizStreamView.get, _stream_placeholder).
PlaceholderIsOverFirst == NoInterleave /\ PlaceholderStopped

\* Without cancellation, a request whose handler has returned is subscribed to
\* nothing: every exit of get() that attached also detached.
DoneIsDetached ==
    \A r \in Requests, s \in Streams : pc[r] = "done" => r \notin subs[s]

-----------------------------------------------------------------------------
(* Implementation of the abstract session. *)

Watchers ==
    [c \in Clients |-> IF registry[c] = NoStream THEN {} ELSE subs[registry[c]]]

Session ==
    [c \in Clients |->
        IF registry[c] = NoStream \/ copy[registry[c]] = "none" THEN "idle"
        ELSE IF copy[registry[c]] = "running" THEN "open" ELSE "ended"]

Shared == INSTANCE SharedSession WITH
    Viewers <- Requests, Slots <- Clients, viewers <- Watchers, session <- Session

\* Each client's registry, streams and subscriber queues implement one shared
\* session: opened once for a group of viewers, given up only with the last.
ImplementsSharedSession == Shared!Spec

-----------------------------------------------------------------------------
(* Liveness, without cancellation. *)

\* The handler of a viewer that disconnected returns, after tearing down what
\* it was the last to use.
HandlerReturns == \A r \in Requests : gone[r] ~> pc[r] = "done"

\* When every viewer of a running connection is gone, the connection and its
\* keep-alive end unless somebody else joins: no battery is spent for nobody.
Abandoned(s) == \A r \in subs[s] : gone[r]
Teardown ==
    \A s \in Streams :
        (copy[s] # "none" /\ Abandoned(s)) ~>
            ((copy[s] # "running" /\ keepalive[s] = "over") \/ ~Abandoned(s))

-----------------------------------------------------------------------------
(* What the documentation says of the shared stream, and the code does not do. *)

\* When every viewer of a running connection is gone, the copy job itself ends.
CopyTornDown ==
    \A s \in Streams :
        (copy[s] = "running" /\ Abandoned(s)) ~>
            (copy[s] # "running" \/ ~Abandoned(s))

\* "impossible for two real connections to the same serial to exist at once":
\* the copy jobs, those being torn down and those of an unloaded entry's
\* client included.
OneConnection ==
    \A s, t \in Streams : copy[s] = "running" /\ copy[t] = "running" => s = t

\* "a `None` marks the end", "Signal every current subscriber's next get() to
\* stop": when the copy job is over, everyone subscribed to it leaves.
EveryViewerEnds ==
    \A r \in Requests, s \in Streams :
        (copy[s] \in {"over", "raised"} /\ r \in subs[s]) ~> r \notin subs[s]
=============================================================================
