------------------------- MODULE StreamFanOut_proof -------------------------
(***************************************************************************)
(* Proofs about StreamFanOut, for any number of requests, set-ups of the   *)
(* entry and any queue size, with or without handler cancellation.         *)
(*                                                                         *)
(* The inductive invariant is built in four layers, each relative to the   *)
(* ones before it: types; the handlers and their placeholders; the         *)
(* subscribers, the registry and the streams; the queues.                  *)
(***************************************************************************)
EXTENDS StreamFanOut, TLAPS

Attached == {"login", "watch", "handoff", "write", "drain"}
Early    == {"idle", "prepare"}

\* A handler has its client once it looked it up, its stream once it attached.
HandlerOK(r) ==
    /\ pc[r] = "idle" => client[r] = NoClient
    /\ pc[r] \notin {"idle", "done"} => client[r] \in Clients
    /\ pc[r] \notin Early \cup {"done"} => stream[r] \in Streams
HandlerInv == \A r \in Requests : HandlerOK(r)

\* A placeholder that was told to stop has stopped, once the handler is past
\* the await; a handler that never told it is before it or failed.
PlaceholderOK(r) ==
    /\ pc[r] \in {"handoff", "write"} => ready[r]
    /\ pc[r] \in {"idle", "prepare", "login", "failclose"} => ~ready[r]
    /\ pc[r] \in {"watch", "write", "close", "done"} /\ ready[r]
          => placeholder[r] = "done"
PlaceholderInv == \A r \in Requests : PlaceholderOK(r)

\* A handler between attach and detach is subscribed, ...
AttachedInv ==
    \A r \in Requests : pc[r] \in Attached => r \in subs[stream[r]]

\* ... every subscriber is a handler of the stream and of its client, ...
SubsInv ==
    \A s \in Streams : \A r \in subs[s] :
        /\ stream[r] = s
        /\ client[r] = client[s]
        /\ client[s] \in Clients
        /\ pc[r] \notin Early
        /\ pc[s] \notin Early

\* ... a registered stream is registered with its own client, ...
RegistryInv ==
    \A c \in Clients : registry[c] # NoStream => client[registry[c]] = c

\* ... and a stream is untouched until its creator has attached.
FreshInv ==
    \A s \in Streams : pc[s] \in Early => copy[s] = "none" /\ ~stop[s]

StreamInv ==
    /\ AttachedInv /\ SubsInv /\ RegistryInv /\ FreshInv
    /\ RegistryExact /\ StopMeansUnwatched /\ NoOrphanStream

\* The sentinel is in a queue only when the stream's copy job is over.
QueueOK(r) ==
    /\ pc[r] \in Early => queue[r] = <<>>
    /\ \A i \in 1..Len(queue[r]) : queue[r][i] = End => i = Len(queue[r])
    /\ \A s \in Streams : \A i \in 1..Len(queue[r]) :
          r \in subs[s] /\ queue[r][i] = End => copy[s] \in {"over", "raised"}
QueueInv == \A r \in Requests : QueueOK(r)

Inv == TypeOK /\ HandlerInv /\ PlaceholderInv /\ StreamInv /\ QueueInv

-----------------------------------------------------------------------------
(* Types and handlers. *)

LEMMA DetachType ==
    ASSUME TypeOK, NEW r \in Requests, Detach(r)
    PROVE  /\ registry' \in [Clients -> Streams \cup {NoStream}]
           /\ queue' \in [Requests -> Seq(Items)]
           /\ subs' \in [Streams -> SUBSET Requests]
           /\ closed' \in [Streams -> BOOLEAN]
           /\ stop' \in [Streams -> BOOLEAN]
           /\ copy' \in [Streams -> {"none", "running", "over", "raised"}]
           /\ keepalive' \in [Streams -> {"none", "on", "over"}]
<1>1. registry' \in [Clients -> Streams \cup {NoStream}]
  BY DEF TypeOK, Detach, Deregister
<1>2. queue' \in [Requests -> Seq(Items)]
  <2>1. <<>> \in Seq(Items)
    OBVIOUS
  <2> QED BY <2>1 DEF TypeOK, Detach
<1>3. subs' \in [Streams -> SUBSET Requests]
  BY DEF TypeOK, Detach
<1>4. closed' \in [Streams -> BOOLEAN] /\ stop' \in [Streams -> BOOLEAN]
  BY DEF TypeOK, Detach, CloseOutput, StopKeepalive, LastOf
<1> QED BY <1>1, <1>2, <1>3, <1>4 DEF TypeOK, Detach

LEMMA FinishType ==
    ASSUME TypeOK, NEW r \in Requests, Finish(r),
           UNCHANGED <<entryVars, client, stream, gone, placeholder>>,
           cancelled' \in [Requests -> BOOLEAN]
    PROVE  TypeOK'
<1>1. pc' \in [Requests -> {"idle", "prepare", "login", "watch", "handoff",
                           "write", "drain", "close", "failclose",
                           "faildrain", "done"}]
  BY DEF TypeOK, Finish, DetachNow, Goto
<1>2. ready' \in [Requests -> BOOLEAN]
  BY DEF TypeOK, Finish
<1>3. CASE placeholder[r] = "done"
  <2>1. Detach(r)
    BY <1>3 DEF Finish, DetachNow
  <2> QED BY <1>1, <1>2, <2>1, DetachType DEF TypeOK, entryVars
<1>4. CASE placeholder[r] # "done"
  <2>1. UNCHANGED <<registry, queue, streamVars>>
    BY <1>4 DEF Finish
  <2> QED BY <1>1, <1>2, <2>1 DEF TypeOK, entryVars, streamVars
<1> QED BY <1>3, <1>4

LEMMA TypeStep ==
    ASSUME TypeOK, HandlerInv, [Next]_vars PROVE TypeOK'
<1> USE FanOutAssumption DEF TypeOK, HandlerInv, HandlerOK, Early, Streams, Items, Chunk, End
<1>1. CASE UNCHANGED vars
  BY <1>1 DEF vars, entryVars, reqVars, streamVars
<1>2. ASSUME NEW c \in Clients, SetupEntry(c) PROVE TypeOK'
  BY <1>2 DEF SetupEntry, reqVars, streamVars
<1>3. CASE UnloadEntry
  BY <1>3 DEF UnloadEntry, reqVars, streamVars
<1>4. ASSUME NEW r \in Requests, Request(r) PROVE TypeOK'
  <2> USE DEF entryVars, reqVars, streamVars, Goto
  <2>1. CASE Arrive(r)
    BY <2>1 DEF Arrive
  <2>2. CASE PrepareFails(r)
    BY <2>2 DEF PrepareFails
  <2>3. CASE Attach(r)
    BY <2>3 DEF Attach, StreamFor
  <2>4. CASE LoginOk(r)
    BY <2>4 DEF LoginOk, StartJobs
  <2>5. CASE LoginFail(r)
    <3>1. Detach(r)
      BY <2>5 DEF LoginFail
    <3>2. /\ pc' \in [Requests -> {"idle", "prepare", "login", "watch", "handoff",
                                "write", "drain", "close", "failclose",
                                "faildrain", "done"}]
          /\ ready' \in [Requests -> BOOLEAN]
      BY <2>5 DEF LoginFail, ReturnError, AwaitsJobs, LastOf
    <3> QED BY <2>5, <3>1, <3>2, DetachType DEF LoginFail
  <2>6. CASE FailClosed(r)
    BY <2>6 DEF FailClosed, ReturnError
  <2>7. CASE FailDrained(r)
    BY <2>7 DEF FailDrained
  <2>8. CASE GetChunk(r)
    <3>1. queue[r] \in Seq(Items) /\ queue[r] # <<>>
      BY <2>8 DEF GetChunk
    <3>2. Tail(queue[r]) \in Seq(Items)
      BY <3>1
    <3> QED BY <2>8, <3>2 DEF GetChunk, FirstStop
  <2>9. CASE GetEnd(r)
    BY <2>9, FinishType DEF GetEnd
  <2>10. CASE IdleTimeout(r)
    BY <2>10, FinishType DEF IdleTimeout
  <2>11. CASE HandoffDone(r)
    BY <2>11 DEF HandoffDone
  <2>12. CASE WriteOk(r)
    BY <2>12 DEF WriteOk
  <2>13. CASE WriteReset(r)
    BY <2>13, FinishType DEF WriteReset
  <2>14. CASE Drained(r)
    <3>1. Detach(r)
      BY <2>14 DEF Drained, DetachNow
    <3> QED BY <2>14, <3>1, DetachType DEF Drained, DetachNow
  <2>15. CASE Closed(r)
    BY <2>15 DEF Closed
  <2>16. CASE Disconnect(r)
    BY <2>16 DEF Disconnect
  <2>17. CASE Cancel(r)
    <3>1. CASE CancelLoop(r)
      BY <3>1, FinishType DEF CancelLoop
    <3>2. CASE CancelHandoff(r)
      <4>1. Detach(r)
        BY <3>2 DEF CancelHandoff, DetachNow
      <4> QED BY <3>2, <4>1, DetachType DEF CancelHandoff, DetachNow
    <3>3. CASE CancelSwallowed(r)
      BY <3>3 DEF CancelSwallowed
    <3>4. CASE CancelDrain(r)
      BY <3>4 DEF CancelDrain
    <3>5. CASE CancelOutside(r)
      BY <3>5 DEF CancelOutside
    <3> QED BY <2>17, <3>1, <3>2, <3>3, <3>4, <3>5 DEF Cancel
  <2>18. CASE Placeholder(r) \/ PlaceholderEof(r)
    BY <2>18 DEF Placeholder, PlaceholderStart, PlaceholderStop, PlaceholderEof,
                 PlaceholderReaped, PlaceholderTo
  <2> QED BY <1>4, <2>1, <2>2, <2>3, <2>4, <2>5, <2>6, <2>7, <2>8, <2>9, <2>10,
             <2>11, <2>12, <2>13, <2>14, <2>15, <2>16, <2>17, <2>18
          DEF Request, Handler
<1>5. ASSUME NEW s \in Streams, Stream(s) PROVE TypeOK'
  <2> USE DEF entryVars, reqVars, streamVars, Broadcast
  <2>1. CASE CopyWrite(s)
    BY <2>1 DEF CopyWrite
  <2>2. CASE CopyEnd(s)
    BY <2>2 DEF CopyEnd
  <2>3. CASE KeepaliveExit(s)
    BY <2>3 DEF KeepaliveExit
  <2> QED BY <1>5, <2>1, <2>2, <2>3 DEF Stream
<1> QED BY <1>1, <1>2, <1>3, <1>4, <1>5 DEF Next

\* HandlerInv and PlaceholderInv depend on the handler's own variables only.
LEMMA HandlerStep ==
    ASSUME TypeOK, HandlerInv, PlaceholderInv, [Next]_vars
    PROVE  HandlerInv' /\ PlaceholderInv'
<1> SUFFICES ASSUME NEW q \in Requests
             PROVE  HandlerOK(q)' /\ PlaceholderOK(q)'
  BY DEF HandlerInv, PlaceholderInv
<1>q. HandlerOK(q) /\ PlaceholderOK(q)
  BY DEF HandlerInv, PlaceholderInv
<1> USE FanOutAssumption, <1>q DEF HandlerOK, PlaceholderOK, Early, TypeOK, Streams
<1>1. CASE UNCHANGED vars
  BY <1>1 DEF vars, reqVars
<1>2. ASSUME NEW c \in Clients, SetupEntry(c) PROVE HandlerOK(q)' /\ PlaceholderOK(q)'
  BY <1>2 DEF SetupEntry, reqVars
<1>3. CASE UnloadEntry
  BY <1>3 DEF UnloadEntry, reqVars
<1>4. ASSUME NEW r \in Requests, Request(r) PROVE HandlerOK(q)' /\ PlaceholderOK(q)'
  <2>q. HandlerOK(r) /\ PlaceholderOK(r)
    BY DEF HandlerInv, PlaceholderInv
  <2> USE <2>q DEF Goto
  <2>1. CASE Arrive(r)
    BY <2>1 DEF Arrive
  <2>2. CASE PrepareFails(r)
    BY <2>2 DEF PrepareFails
  <2>3. CASE Attach(r)
    BY <2>3 DEF Attach, StreamFor
  <2>4. CASE LoginOk(r)
    BY <2>4 DEF LoginOk
  <2>5. CASE LoginFail(r)
    BY <2>5 DEF LoginFail, ReturnError, AwaitsJobs, LastOf
  <2>6. CASE FailClosed(r)
    BY <2>6 DEF FailClosed, ReturnError
  <2>7. CASE FailDrained(r)
    BY <2>7 DEF FailDrained
  <2>8. CASE GetChunk(r)
    BY <2>8 DEF GetChunk, FirstStop
  <2>9. CASE GetEnd(r)
    BY <2>9 DEF GetEnd, Finish, DetachNow, AwaitsJobs, LastOf
  <2>10. CASE IdleTimeout(r)
    BY <2>10 DEF IdleTimeout, Finish, DetachNow, AwaitsJobs, LastOf
  <2>11. CASE HandoffDone(r)
    BY <2>11 DEF HandoffDone
  <2>12. CASE WriteOk(r)
    BY <2>12 DEF WriteOk
  <2>13. CASE WriteReset(r)
    BY <2>13 DEF WriteReset, Finish, DetachNow, AwaitsJobs, LastOf
  <2>14. CASE Drained(r)
    BY <2>14 DEF Drained, DetachNow, AwaitsJobs, LastOf
  <2>15. CASE Closed(r)
    BY <2>15 DEF Closed
  <2>16. CASE Disconnect(r)
    BY <2>16 DEF Disconnect
  <2>17. CASE Cancel(r)
    <3>1. CASE CancelLoop(r)
      BY <3>1 DEF CancelLoop, Finish, DetachNow, AwaitsJobs, LastOf
    <3>2. CASE CancelHandoff(r)
      BY <3>2 DEF CancelHandoff, DetachNow, AwaitsJobs, LastOf
    <3>3. CASE CancelSwallowed(r)
      BY <3>3 DEF CancelSwallowed
    <3>4. CASE CancelDrain(r)
      BY <3>4 DEF CancelDrain
    <3>5. CASE CancelOutside(r)
      BY <3>5 DEF CancelOutside
    <3> QED BY <2>17, <3>1, <3>2, <3>3, <3>4, <3>5 DEF Cancel
  <2>18. CASE Placeholder(r) \/ PlaceholderEof(r)
    BY <2>18 DEF Placeholder, PlaceholderStart, PlaceholderStop, PlaceholderEof,
                 PlaceholderReaped, PlaceholderTo
  <2> QED BY <1>4, <2>1, <2>2, <2>3, <2>4, <2>5, <2>6, <2>7, <2>8, <2>9, <2>10,
             <2>11, <2>12, <2>13, <2>14, <2>15, <2>16, <2>17, <2>18
          DEF Request, Handler
<1>5. ASSUME NEW s \in Streams, Stream(s) PROVE HandlerOK(q)' /\ PlaceholderOK(q)'
  BY <1>5 DEF Stream, CopyWrite, CopyEnd, KeepaliveExit, reqVars
<1> QED BY <1>1, <1>2, <1>3, <1>4, <1>5 DEF Next
-----------------------------------------------------------------------------
(* Subscribers, registry and streams. *)

\* A step that leaves registry, clients and subscribers alone: it detaches no
\* handler, and neither starts a copy nor reopens an output.
LEMMA StreamFrame ==
    ASSUME TypeOK, StreamInv, UNCHANGED <<registry, client, stream, subs, stop>>,
           \A r \in Requests : pc'[r] \in Attached => pc[r] \in Attached,
           \A r \in Requests : pc'[r] \in Early => pc[r] \in Early,
           \A s \in Streams : copy'[s] # "none" => copy[s] # "none",
           \A s \in Streams : closed[s] => closed'[s]
    PROVE  StreamInv'
<1> USE DEF StreamInv, TypeOK, Streams
<1>1. AttachedInv'
  BY DEF AttachedInv
<1>2. SubsInv'
  BY DEF SubsInv
<1>3. RegistryInv' /\ RegistryExact' /\ StopMeansUnwatched'
  BY DEF RegistryInv, RegistryExact, StopMeansUnwatched
<1>4. FreshInv'
  BY DEF FreshInv
<1>5. NoOrphanStream'
  BY DEF NoOrphanStream
<1> QED BY <1>1, <1>2, <1>3, <1>4, <1>5

\* A subscribed handler detaches: the last one out deregisters the stream,
\* closes its output and stops its keep-alive.
LEMMA StreamDetach ==
    ASSUME TypeOK, HandlerInv, StreamInv, NEW r \in Requests,
           pc[r] \in Attached, Detach(r), UNCHANGED <<client, stream>>,
           NEW label, label \notin Attached \cup Early,
           pc' = [pc EXCEPT ![r] = label]
    PROVE  StreamInv'
<1> USE DEF TypeOK, Streams
<1> DEFINE s == stream[r]
<1>1. s \in Streams /\ r \in subs[s] /\ client[r] = client[s] /\ client[s] \in Clients
  BY DEF StreamInv, AttachedInv, SubsInv, HandlerInv, HandlerOK, Attached, Early
<1>2. registry[client[s]] = s
  BY <1>1, FanOutAssumption DEF StreamInv, RegistryExact
<1>3. /\ subs' = [subs EXCEPT ![s] = @ \ {r}]
      /\ registry' = [registry EXCEPT ![client[s]] = IF LastOf(r) THEN NoStream ELSE s]
      /\ closed' = [closed EXCEPT ![s] = @ \/ LastOf(r)]
      /\ stop' = [stop EXCEPT ![s] = @ \/ LastOf(r)]
      /\ copy' = copy
  BY <1>1, <1>2 DEF Detach, Deregister, CloseOutput, StopKeepalive
<1>4. LastOf(r) <=> subs'[s] = {}
  BY <1>1, <1>3 DEF LastOf
<1>5. AttachedInv'
  BY <1>1, <1>3 DEF StreamInv, AttachedInv
<1>6. SubsInv'
  BY <1>1, <1>3 DEF StreamInv, SubsInv
<1>7. RegistryInv'
  BY <1>1, <1>2, <1>3 DEF StreamInv, RegistryInv
<1>8. FreshInv'
  BY <1>1, <1>3 DEF StreamInv, FreshInv, SubsInv
<1>9. RegistryExact'
  BY <1>1, <1>2, <1>3, <1>4, FanOutAssumption DEF StreamInv, RegistryExact
<1>10. StopMeansUnwatched'
  BY <1>1, <1>3, <1>4 DEF StreamInv, StopMeansUnwatched
<1>11. NoOrphanStream'
  BY <1>1, <1>3, <1>4 DEF StreamInv, NoOrphanStream
<1> QED BY <1>5, <1>6, <1>7, <1>8, <1>9, <1>10, <1>11 DEF StreamInv
\* A request that has not attached may look its client up.
LEMMA StreamArrive ==
    ASSUME TypeOK, HandlerInv, StreamInv, NEW r \in Requests, Arrive(r)
    PROVE  StreamInv'
<1> USE DEF TypeOK, Streams, Goto
<1>1. /\ client[r] = NoClient /\ pc[r] \in Early
      /\ pc' = [pc EXCEPT ![r] = pc'[r]] /\ pc'[r] \in {"prepare", "done"}
      /\ client' = [client EXCEPT ![r] = domain]
      /\ UNCHANGED <<registry, stream, subs, closed, stop, copy>>
  BY DEF Arrive, HandlerInv, HandlerOK, Early, streamVars
<1>2. /\ subs[r] = {} /\ \A s \in Streams : r \notin subs[s]
      /\ \A c \in Clients : registry[c] # r
  <2>1. subs[r] = {} /\ \A s \in Streams : r \notin subs[s]
    BY <1>1, FanOutAssumption DEF StreamInv, SubsInv
  <2>2. ASSUME NEW c \in Clients PROVE registry[c] # r
    <3>1. registry[c] # NoStream => client[registry[c]] = c
      BY DEF StreamInv, RegistryInv
    <3>2. r # NoStream /\ client[r] # c
      BY <1>1, FanOutAssumption
    <3> QED BY <3>1, <3>2
  <2> QED BY <2>1, <2>2
<1>3. AttachedInv' /\ FreshInv'
  BY <1>1 DEF StreamInv, AttachedInv, FreshInv, Attached, Early
<1>4. SubsInv'
  BY <1>1, <1>2 DEF StreamInv, SubsInv, Early
<1>5. RegistryInv'
  BY <1>1, <1>2 DEF StreamInv, RegistryInv
<1>6. RegistryExact'
  BY <1>1, <1>2 DEF StreamInv, RegistryExact
<1>7. StopMeansUnwatched' /\ NoOrphanStream'
  BY <1>1 DEF StreamInv, StopMeansUnwatched, NoOrphanStream
<1> QED BY <1>3, <1>4, <1>5, <1>6, <1>7 DEF StreamInv

\* A request subscribes to the registered stream, which has viewers, or to a
\* new one, which nobody knows.
LEMMA StreamAttach ==
    ASSUME TypeOK, HandlerInv, StreamInv, NEW r \in Requests, Attach(r)
    PROVE  StreamInv'
<1> USE DEF TypeOK, Streams, Goto
<1> DEFINE s == StreamFor(r)
           c == client[r]
<1>1. pc[r] = "prepare" /\ c \in Clients /\ c # NoClient
  BY FanOutAssumption DEF Attach, HandlerInv, HandlerOK
<1>2. \A t \in Streams : r \notin subs[t]
  BY <1>1 DEF StreamInv, SubsInv, Early
<1>3. subs[r] = {}
  BY <1>1 DEF StreamInv, SubsInv, Early
<1>4. /\ s \in Streams /\ client[s] = c /\ ~stop[s]
      /\ s = r \/ (registry[c] = s /\ subs[s] # {} /\ pc[s] \notin Early)
  <2>1. CASE registry[c] = NoStream
    BY <1>1, <2>1 DEF StreamFor, StreamInv, FreshInv, Early
  <2>2. CASE registry[c] # NoStream
    <3>1. s = registry[c] /\ s \in Streams /\ client[s] = c
      BY <1>1, <2>2 DEF StreamFor, StreamInv, RegistryInv
    <3>2. subs[s] # {}
      BY <3>1, <1>1 DEF StreamInv, RegistryExact
    <3>3. ~stop[s]
      BY <3>1, <3>2 DEF StreamInv, StopMeansUnwatched
    <3>4. pc[s] \notin Early
      BY <3>1, <3>2 DEF StreamInv, SubsInv
    <3> QED BY <3>1, <3>2, <3>3, <3>4
  <2> QED BY <2>1, <2>2
<1>5. registry[c] = NoStream \/ registry[c] = s
  BY DEF StreamFor
<1>6. /\ registry' = [registry EXCEPT ![c] = s]
      /\ stream' = [stream EXCEPT ![r] = s]
      /\ subs' = [subs EXCEPT ![s] = @ \cup {r}]
      /\ pc' = [pc EXCEPT ![r] = "login"]
      /\ UNCHANGED <<client, closed, stop, copy>>
  BY DEF Attach
<1> HIDE DEF s, c
<1>7. AttachedInv'
  BY <1>2, <1>4, <1>6 DEF StreamInv, AttachedInv, Attached
<1>8. SubsInv'
  <2> SUFFICES ASSUME NEW t \in Streams, NEW q \in subs'[t]
               PROVE  /\ stream'[q] = t /\ client[q] = client[t]
                      /\ client[t] \in Clients /\ pc'[q] \notin Early
                      /\ pc'[t] \notin Early
    BY <1>6 DEF SubsInv
  <2>1. CASE q = r
    <3>1. t = s
      BY <1>2, <1>6, <2>1
    <3> QED BY <1>1, <1>4, <1>6, <2>1, <3>1 DEF Early, c
  <2>2. CASE q # r
    <3>1. q \in subs[t]
      BY <1>4, <1>6, <2>2
    <3> QED BY <1>6, <2>2, <3>1 DEF StreamInv, SubsInv, Early
  <2> QED BY <2>1, <2>2
<1>9. RegistryInv'
  BY <1>4, <1>6 DEF StreamInv, RegistryInv
<1>10. FreshInv'
  BY <1>6 DEF StreamInv, FreshInv, Early
<1>11. RegistryExact'
  <2> SUFFICES ASSUME NEW t \in Streams
               PROVE  subs'[t] # {} <=> client[t] # NoClient /\ registry'[client[t]] = t
    BY <1>6 DEF RegistryExact
  <2>1. subs[t] # {} <=> client[t] # NoClient /\ registry[client[t]] = t
    BY DEF StreamInv, RegistryExact
  <2>2. CASE t = s
    BY <1>1, <1>4, <1>6, <2>2
  <2>3. CASE t # s
    BY <1>1, <1>4, <1>5, <1>6, <2>1, <2>3, FanOutAssumption
  <2> QED BY <2>2, <2>3
<1>12. StopMeansUnwatched'
  BY <1>4, <1>6 DEF StreamInv, StopMeansUnwatched
<1>13. NoOrphanStream'
  BY <1>4, <1>6 DEF StreamInv, NoOrphanStream
<1> QED BY <1>7, <1>8, <1>9, <1>10, <1>11, <1>12, <1>13 DEF StreamInv
LEMMA StreamFinish ==
    ASSUME TypeOK, HandlerInv, StreamInv, NEW r \in Requests,
           pc[r] \in Attached, Finish(r), UNCHANGED <<client, stream>>
    PROVE  StreamInv'
<1>1. CASE placeholder[r] = "done"
  <2>1. Detach(r) /\ pc' = [pc EXCEPT ![r] = IF AwaitsJobs(r) THEN "close" ELSE "done"]
    BY <1>1 DEF Finish, DetachNow, Goto
  <2>2. (IF AwaitsJobs(r) THEN "close" ELSE "done") \notin Attached \cup Early
    BY DEF Attached, Early
  <2> QED BY <2>1, <2>2, StreamDetach
<1>2. CASE placeholder[r] # "done"
  <2>1. pc' = [pc EXCEPT ![r] = "drain"] /\ UNCHANGED <<registry, queue, streamVars>>
    BY <1>2 DEF Finish, Goto
  <2> QED BY <2>1, StreamFrame DEF TypeOK, streamVars, Attached, Early
<1> QED BY <1>1, <1>2

LEMMA StreamStep ==
    ASSUME TypeOK, HandlerInv, StreamInv, [Next]_vars
    PROVE  StreamInv'
<1> USE DEF entryVars, reqVars, streamVars
<1>1. CASE UNCHANGED vars
  BY <1>1, StreamFrame DEF vars
<1>2. ASSUME NEW c \in Clients, SetupEntry(c) PROVE StreamInv'
  BY <1>2, StreamFrame DEF SetupEntry
<1>3. CASE UnloadEntry
  BY <1>3, StreamFrame DEF UnloadEntry
<1>4. ASSUME NEW r \in Requests, Request(r) PROVE StreamInv'
  <2> USE DEF Goto, TypeOK, Attached, Early
  <2>1. CASE Arrive(r)
    BY <2>1, StreamArrive
  <2>2. CASE PrepareFails(r)
    BY <2>2, StreamFrame DEF PrepareFails
  <2>3. CASE Attach(r)
    BY <2>3, StreamAttach
  <2>4. CASE LoginOk(r)
    <3>1. CASE StartedAlready(stream[r])
      BY <2>4, <3>1, StreamFrame DEF LoginOk
    <3>2. CASE ~StartedAlready(stream[r])
      <4> DEFINE s == stream[r]
      <4>1. s \in Streams /\ r \in subs[s] /\ pc[s] \notin Early
        BY <2>4 DEF LoginOk, StreamInv, AttachedInv, SubsInv, HandlerInv, HandlerOK
      <4>2. /\ copy' = [copy EXCEPT ![s] = "running"] /\ pc' = [pc EXCEPT ![r] = "watch"]
            /\ UNCHANGED <<registry, client, stream, subs, closed, stop>>
            /\ pc[r] = "login"
        BY <2>4, <3>2 DEF LoginOk, StartJobs
      <4>3. AttachedInv' /\ SubsInv' /\ RegistryInv'
        BY <4>2 DEF StreamInv, AttachedInv, SubsInv, RegistryInv, Streams
      <4>4. RegistryExact' /\ StopMeansUnwatched'
        BY <4>2 DEF StreamInv, RegistryExact, StopMeansUnwatched
      <4>5. FreshInv'
        BY <4>1, <4>2 DEF StreamInv, FreshInv, Streams
      <4>6. NoOrphanStream'
        BY <4>1, <4>2 DEF StreamInv, NoOrphanStream, Streams
      <4> QED BY <4>3, <4>4, <4>5, <4>6 DEF StreamInv
    <3> QED BY <3>1, <3>2
  <2>5. CASE LoginFail(r)
    <3>1. PICK label \in {"failclose", "faildrain", "done"} :
             pc' = [pc EXCEPT ![r] = label]
      BY <2>5 DEF LoginFail, ReturnError
    <3> QED BY <2>5, <3>1, StreamDetach DEF LoginFail
  <2>6. CASE FailClosed(r)
    BY <2>6, StreamFrame DEF FailClosed, ReturnError
  <2>7. CASE FailDrained(r)
    BY <2>7, StreamFrame DEF FailDrained
  <2>8. CASE GetChunk(r)
    BY <2>8, StreamFrame DEF GetChunk, FirstStop
  <2>9. CASE GetEnd(r)
    BY <2>9, StreamFinish DEF GetEnd
  <2>10. CASE IdleTimeout(r)
    BY <2>10, StreamFinish DEF IdleTimeout
  <2>11. CASE HandoffDone(r)
    BY <2>11, StreamFrame DEF HandoffDone
  <2>12. CASE WriteOk(r)
    BY <2>12, StreamFrame DEF WriteOk
  <2>13. CASE WriteReset(r)
    BY <2>13, StreamFinish DEF WriteReset
  <2>14. CASE Drained(r)
    <3>1. PICK label \in {"close", "done"} : pc' = [pc EXCEPT ![r] = label]
      BY <2>14 DEF Drained, DetachNow
    <3> QED BY <2>14, <3>1, StreamDetach DEF Drained, DetachNow
  <2>15. CASE Closed(r)
    BY <2>15, StreamFrame DEF Closed
  <2>16. CASE Disconnect(r)
    BY <2>16, StreamFrame DEF Disconnect
  <2>17. CASE Cancel(r)
    <3>1. CASE CancelLoop(r)
      BY <3>1, StreamFinish DEF CancelLoop
    <3>2. CASE CancelHandoff(r)
      <4>1. PICK label \in {"close", "done"} : pc' = [pc EXCEPT ![r] = label]
        BY <3>2 DEF CancelHandoff, DetachNow
      <4> QED BY <3>2, <4>1, StreamDetach DEF CancelHandoff, DetachNow
    <3>3. CASE CancelSwallowed(r)
      BY <3>3, StreamFrame DEF CancelSwallowed
    <3>4. CASE CancelDrain(r)
      BY <3>4, StreamFrame DEF CancelDrain
    <3>5. CASE CancelOutside(r)
      BY <3>5, StreamFrame DEF CancelOutside
    <3> QED BY <2>17, <3>1, <3>2, <3>3, <3>4, <3>5 DEF Cancel
  <2>18. CASE Placeholder(r) \/ PlaceholderEof(r)
    BY <2>18, StreamFrame DEF Placeholder, PlaceholderStart, PlaceholderStop,
         PlaceholderEof, PlaceholderReaped, PlaceholderTo
  <2> QED BY <1>4, <2>1, <2>2, <2>3, <2>4, <2>5, <2>6, <2>7, <2>8, <2>9, <2>10,
             <2>11, <2>12, <2>13, <2>14, <2>15, <2>16, <2>17, <2>18
          DEF Request, Handler
<1>5. ASSUME NEW s \in Streams, Stream(s) PROVE StreamInv'
  <2> USE DEF TypeOK
  <2>1. CASE CopyWrite(s)
    BY <2>1, StreamFrame DEF CopyWrite
  <2>2. CASE CopyEnd(s)
    BY <2>2, StreamFrame DEF CopyEnd
  <2>3. CASE KeepaliveExit(s)
    BY <2>3, StreamFrame DEF KeepaliveExit
  <2> QED BY <1>5, <2>1, <2>2, <2>3 DEF Stream
<1> QED BY <1>1, <1>2, <1>3, <1>4, <1>5 DEF Next
-----------------------------------------------------------------------------
(* Queues. *)

LEMMA QueueFrame ==
    ASSUME NEW r \in Requests, QueueOK(r), queue'[r] = queue[r],
           pc'[r] \in Early => pc[r] \in Early,
           \A s \in Streams : r \in subs'[s] => r \in subs[s],
           \A s \in Streams : copy[s] \in {"over", "raised"} => copy'[s] \in {"over", "raised"}
    PROVE  QueueOK(r)'
BY DEF QueueOK

LEMMA QueueEmpty ==
    ASSUME NEW r \in Requests, queue'[r] = <<>>
    PROVE  QueueOK(r)'
BY DEF QueueOK

\* A handler takes the first item of its queue.
LEMMA QueueGet ==
    ASSUME TypeOK, NEW r \in Requests, QueueOK(r), GetChunk(r)
    PROVE  QueueOK(r)'
<1>1. /\ queue[r] \in Seq(Items) /\ queue[r] # <<>> /\ queue'[r] = Tail(queue[r])
      /\ UNCHANGED <<subs, copy>> /\ pc'[r] \notin Early
  BY DEF GetChunk, TypeOK, Goto, FirstStop, Early, streamVars
<1>2. /\ Len(queue'[r]) = Len(queue[r]) - 1 /\ Len(queue[r]) \in Nat
      /\ \A i \in 1..Len(queue'[r]) : queue'[r][i] = queue[r][i + 1]
  BY <1>1
<1>3. ASSUME NEW i \in 1..Len(queue'[r]), queue'[r][i] = End
      PROVE  i = Len(queue'[r]) /\ i + 1 \in 1..Len(queue[r]) /\ queue[r][i + 1] = End
  BY <1>2, <1>3 DEF QueueOK
<1> QED BY <1>1, <1>3 DEF QueueOK

\* The copy job appends an item to the queue of a subscriber: no sentinel is
\* there before, as the job is running.
LEMMA QueuePut ==
    ASSUME TypeOK, NEW r \in Requests, NEW s \in Streams, QueueOK(r), SubsInv,
           r \in subs[s], copy[s] = "running", UNCHANGED <<pc, subs>>,
           NEW item \in Items, queue'[r] = Append(queue[r], item),
           item = End => copy'[s] \in {"over", "raised"}
    PROVE  QueueOK(r)'
<1>1. /\ queue[r] \in Seq(Items) /\ Len(queue[r]) \in Nat
      /\ Len(queue'[r]) = Len(queue[r]) + 1
      /\ queue'[r][Len(queue[r]) + 1] = item
      /\ \A i \in 1..Len(queue[r]) : queue'[r][i] = queue[r][i]
  BY DEF TypeOK
<1>2. \A i \in 1..Len(queue[r]) : queue[r][i] # End
  BY DEF QueueOK
<1>3. ASSUME NEW i \in 1..Len(queue'[r]), queue'[r][i] = End
      PROVE  i = Len(queue'[r]) /\ item = End
  BY <1>1, <1>2, <1>3
<1>4. ASSUME NEW t \in Streams, r \in subs[t] PROVE t = s
  BY <1>4 DEF SubsInv
<1>5. pc[r] \notin Early
  BY DEF SubsInv
<1> QED BY <1>3, <1>4, <1>5 DEF QueueOK
LEMMA QueueDetach ==
    ASSUME TypeOK, NEW r \in Requests, Detach(r),
           NEW label, pc' = [pc EXCEPT ![r] = label],
           NEW q \in Requests, QueueOK(q)
    PROVE  QueueOK(q)'
<1>1. queue' = [queue EXCEPT ![r] = <<>>] /\ copy' = copy
      /\ subs' = [subs EXCEPT ![stream[r]] = @ \ {r}]
  BY DEF Detach
<1>2. CASE q = r
  BY <1>1, <1>2, QueueEmpty DEF TypeOK
<1>3. CASE q # r
  BY <1>1, <1>3, QueueFrame DEF TypeOK
<1> QED BY <1>2, <1>3

LEMMA QueueFinish ==
    ASSUME TypeOK, NEW r \in Requests, Finish(r), NEW q \in Requests, QueueOK(q)
    PROVE  QueueOK(q)'
<1>1. CASE placeholder[r] = "done"
  BY <1>1, QueueDetach DEF Finish, DetachNow, Goto
<1>2. CASE placeholder[r] # "done"
  <2>1. pc' = [pc EXCEPT ![r] = "drain"] /\ UNCHANGED <<registry, queue, streamVars>>
    BY <1>2 DEF Finish, Goto
  <2> QED BY <2>1, QueueFrame DEF TypeOK, streamVars, Early
<1> QED BY <1>1, <1>2

LEMMA QueueStep ==
    ASSUME TypeOK, HandlerInv, StreamInv, QueueInv, [Next]_vars
    PROVE  QueueInv'
<1> SUFFICES ASSUME NEW q \in Requests PROVE QueueOK(q)'
  BY DEF QueueInv
<1>q. QueueOK(q)
  BY DEF QueueInv
<1> USE <1>q DEF entryVars, reqVars, streamVars
<1>1. CASE UNCHANGED vars
  BY <1>1, QueueFrame DEF vars
<1>2. ASSUME NEW c \in Clients, SetupEntry(c) PROVE QueueOK(q)'
  BY <1>2, QueueFrame DEF SetupEntry
<1>3. CASE UnloadEntry
  BY <1>3, QueueFrame DEF UnloadEntry
<1>4. ASSUME NEW r \in Requests, Request(r) PROVE QueueOK(q)'
  <2> USE DEF Goto, TypeOK, Early
  <2>1. CASE Arrive(r)
    BY <2>1, QueueFrame DEF Arrive
  <2>2. CASE PrepareFails(r)
    BY <2>2, QueueFrame DEF PrepareFails
  <2>3. CASE Attach(r)
    <3>1. CASE q = r
      BY <2>3, <3>1, QueueEmpty DEF Attach, QueueOK
    <3>2. CASE q # r
      BY <2>3, <3>2, QueueFrame DEF Attach
    <3> QED BY <3>1, <3>2
  <2>4. CASE LoginOk(r)
    <3>1. \A s \in Streams : copy[s] \in {"over", "raised"} => copy'[s] = copy[s]
      BY <2>4 DEF LoginOk, StartedAlready, StartJobs
    <3> QED BY <2>4, <3>1, QueueFrame DEF LoginOk
  <2>5. CASE LoginFail(r)
    <3>1. PICK label \in {"failclose", "faildrain", "done"} :
             pc' = [pc EXCEPT ![r] = label]
      BY <2>5 DEF LoginFail, ReturnError
    <3> QED BY <2>5, <3>1, QueueDetach DEF LoginFail
  <2>6. CASE FailClosed(r)
    BY <2>6, QueueFrame DEF FailClosed, ReturnError
  <2>7. CASE FailDrained(r)
    BY <2>7, QueueFrame DEF FailDrained
  <2>8. CASE GetChunk(r)
    <3>1. CASE q = r
      BY <2>8, <3>1, QueueGet
    <3>2. CASE q # r
      BY <2>8, <3>2, QueueFrame DEF GetChunk, FirstStop
    <3> QED BY <3>1, <3>2
  <2>9. CASE GetEnd(r)
    BY <2>9, QueueFinish DEF GetEnd
  <2>10. CASE IdleTimeout(r)
    BY <2>10, QueueFinish DEF IdleTimeout
  <2>11. CASE HandoffDone(r)
    BY <2>11, QueueFrame DEF HandoffDone
  <2>12. CASE WriteOk(r)
    BY <2>12, QueueFrame DEF WriteOk
  <2>13. CASE WriteReset(r)
    BY <2>13, QueueFinish DEF WriteReset
  <2>14. CASE Drained(r)
    <3>1. PICK label \in {"close", "done"} : pc' = [pc EXCEPT ![r] = label]
      BY <2>14 DEF Drained, DetachNow
    <3> QED BY <2>14, <3>1, QueueDetach DEF Drained, DetachNow
  <2>15. CASE Closed(r)
    BY <2>15, QueueFrame DEF Closed
  <2>16. CASE Disconnect(r)
    BY <2>16, QueueFrame DEF Disconnect
  <2>17. CASE Cancel(r)
    <3>1. CASE CancelLoop(r)
      BY <3>1, QueueFinish DEF CancelLoop
    <3>2. CASE CancelHandoff(r)
      <4>1. PICK label \in {"close", "done"} : pc' = [pc EXCEPT ![r] = label]
        BY <3>2 DEF CancelHandoff, DetachNow
      <4> QED BY <3>2, <4>1, QueueDetach DEF CancelHandoff, DetachNow
    <3>3. CASE CancelSwallowed(r)
      BY <3>3, QueueFrame DEF CancelSwallowed
    <3>4. CASE CancelDrain(r)
      BY <3>4, QueueFrame DEF CancelDrain
    <3>5. CASE CancelOutside(r)
      BY <3>5, QueueFrame DEF CancelOutside
    <3> QED BY <2>17, <3>1, <3>2, <3>3, <3>4, <3>5 DEF Cancel
  <2>18. CASE Placeholder(r) \/ PlaceholderEof(r)
    BY <2>18, QueueFrame DEF Placeholder, PlaceholderStart, PlaceholderStop,
         PlaceholderEof, PlaceholderReaped, PlaceholderTo
  <2> QED BY <1>4, <2>1, <2>2, <2>3, <2>4, <2>5, <2>6, <2>7, <2>8, <2>9, <2>10,
             <2>11, <2>12, <2>13, <2>14, <2>15, <2>16, <2>17, <2>18
          DEF Request, Handler
<1>5. ASSUME NEW s \in Streams, Stream(s) PROVE QueueOK(q)'
  <2>1. ASSUME NEW item \in Items, Broadcast(s, item), copy[s] = "running",
               UNCHANGED <<pc, subs>>,
               item = End => copy'[s] \in {"over", "raised"},
               \A t \in Streams \ {s} : copy'[t] = copy[t]
        PROVE  QueueOK(q)'
    <3>1. CASE q \in subs[s] /\ Len(queue[q]) < QueueSize
      <4>1. queue'[q] = Append(queue[q], item)
        BY <2>1, <3>1 DEF Broadcast
      <4> QED BY <2>1, <3>1, <4>1, QueuePut DEF StreamInv
    <3>2. CASE ~(q \in subs[s] /\ Len(queue[q]) < QueueSize)
      <4>1. queue'[q] = queue[q]
        BY <2>1, <3>2 DEF Broadcast
      <4> QED BY <2>1, <4>1, QueueFrame
    <3> QED BY <3>1, <3>2
  <2>2. CASE CopyWrite(s)
    <3>1. Chunk \in Items /\ Chunk # End
      BY DEF Items, Chunk, End
    <3> QED BY <2>1, <2>2, <3>1 DEF CopyWrite
  <2>3. CASE CopyEnd(s)
    <3>1. End \in Items
      BY DEF Items
    <3>2. copy'[s] \in {"over", "raised"} /\ \A t \in Streams \ {s} : copy'[t] = copy[t]
      BY <2>3 DEF CopyEnd, TypeOK
    <3> QED BY <2>1, <2>3, <3>1, <3>2 DEF CopyEnd
  <2>4. CASE KeepaliveExit(s)
    BY <2>4, QueueFrame DEF KeepaliveExit
  <2> QED BY <1>5, <2>2, <2>3, <2>4 DEF Stream
<1> QED BY <1>1, <1>2, <1>3, <1>4, <1>5 DEF Next
-----------------------------------------------------------------------------
(* The safety theorems. *)

\* Inv holds in every state of every behaviour of the view and its streams.
THEOREM Invariance == Spec => []Inv
<1>1. Init => Inv
  <2> SUFFICES ASSUME Init PROVE Inv
    OBVIOUS
  <2> USE FanOutAssumption DEF Init, Streams
  <2>1. TypeOK
    BY DEF TypeOK
  <2>2. HandlerInv /\ PlaceholderInv
    BY DEF HandlerInv, HandlerOK, PlaceholderInv, PlaceholderOK, Early
  <2>3. StreamInv
    BY DEF StreamInv, AttachedInv, SubsInv, RegistryInv, FreshInv, Attached,
           RegistryExact, StopMeansUnwatched, NoOrphanStream
  <2>4. ASSUME NEW r \in Requests PROVE QueueOK(r)
    <3>1. queue[r] = <<>> /\ Len(<<>>) = 0
      OBVIOUS
    <3> QED BY ONLY <3>1 DEF QueueOK
  <2> QED BY <2>1, <2>2, <2>3, <2>4 DEF Inv, QueueInv
<1>2. Inv /\ [Next]_vars => Inv'
  BY TypeStep, HandlerStep, StreamStep, QueueStep DEF Inv
<1> QED BY <1>1, <1>2, PTL DEF Spec

\* Every variable keeps its type.
THEOREM TypeCorrect == Spec => []TypeOK
BY Invariance, PTL DEF Inv

\* A stream is registered exactly while it has subscribers, is silenced only
\* without them and always without them.
THEOREM RegistryCorrect == Spec => [](RegistryExact /\ StopsWithLastViewer)
<1>1. Inv => RegistryExact /\ StopsWithLastViewer
  BY DEF Inv, StreamInv, StopsWithLastViewer
<1> QED BY <1>1, Invariance, PTL

\* A stream is in its client's registry exactly while it has subscribers.
THEOREM RegistryIsExact == Spec => []RegistryExact
<1>1. Inv => RegistryExact
  BY DEF Inv, StreamInv
<1> QED BY <1>1, Invariance, PTL

\* One client never feeds viewers from two connections: a live stream has
\* subscribers, so it is the one its client's registry names.
THEOREM SingleConnection == Spec => []OneLivePerClient
<1>1. Inv => OneLivePerClient
  <2> SUFFICES ASSUME Inv, NEW s \in Streams, NEW t \in Streams,
                      Live(s), Live(t), client[s] = client[t]
               PROVE  s = t
    BY DEF OneLivePerClient
  <2>1. subs[s] # {} /\ subs[t] # {}
    BY DEF Inv, StreamInv, NoOrphanStream, Live, TypeOK
  <2>2. registry[client[s]] = s /\ registry[client[t]] = t
    BY <2>1 DEF Inv, StreamInv, RegistryExact
  <2> QED BY <2>2
<1> QED BY <1>1, Invariance, PTL

\* The sentinel is the last item of every queue.
THEOREM SentinelIsLast == Spec => []EndIsLast
<1>1. Inv => EndIsLast
  BY DEF Inv, QueueInv, QueueOK, EndIsLast
<1> QED BY <1>1, Invariance, PTL

\* Real data and the placeholder never interleave on a response, and a handler
\* that stopped its placeholder returns after it.
THEOREM PlaceholderSafe == Spec => []PlaceholderIsOverFirst
<1>1. Inv => PlaceholderIsOverFirst
  BY DEF Inv, PlaceholderInv, PlaceholderOK, NoInterleave, PlaceholderStopped,
         PlaceholderIsOverFirst
<1> QED BY <1>1, Invariance, PTL
-----------------------------------------------------------------------------
(* Without cancellation, a handler that returns has detached. *)

DetachedInv ==
    \A r \in Requests, s \in Streams :
        pc[r] \in {"failclose", "faildrain", "close", "done"} => r \notin subs[s]

\* The steps of a handler, one disjunct for each way it treats its subscription.
LEMMA HandlerMoves ==
    ASSUME Inv, ~HandlerCancellation, NEW r \in Requests, Request(r)
    PROVE  \/ UNCHANGED <<pc, subs>>
           \/ /\ pc[r] \in Early \cup {"failclose", "faildrain", "close"}
              /\ \E label : pc' = [pc EXCEPT ![r] = label]
              /\ UNCHANGED subs
           \/ /\ pc[r] \in Early /\ pc' = [pc EXCEPT ![r] = "login"]
              /\ \E s \in Streams : subs' = [subs EXCEPT ![s] = @ \cup {r}]
           \/ /\ \E label \in {"watch", "handoff", "write", "drain"} :
                     pc' = [pc EXCEPT ![r] = label]
              /\ UNCHANGED subs
           \/ /\ pc[r] \in Attached
              /\ \E label : pc' = [pc EXCEPT ![r] = label]
              /\ subs' = [subs EXCEPT ![stream[r]] = @ \ {r}]
<1> USE DEF Goto, Early, Attached, reqVars, streamVars
<1>1. CASE Arrive(r)
  BY <1>1 DEF Arrive
<1>2. CASE PrepareFails(r)
  BY <1>2 DEF PrepareFails
<1>3. CASE Attach(r)
  <2>1. StreamFor(r) \in Streams
    BY <1>3 DEF Attach, StreamFor, Inv, TypeOK, HandlerInv, HandlerOK, Streams
  <2> QED BY <1>3, <2>1 DEF Attach
<1>4. CASE LoginOk(r)
  BY <1>4 DEF LoginOk
<1>5. CASE LoginFail(r)
  BY <1>5 DEF LoginFail, ReturnError, Detach
<1>6. CASE FailClosed(r)
  BY <1>6 DEF FailClosed, ReturnError
<1>7. CASE FailDrained(r)
  BY <1>7 DEF FailDrained
<1>8. CASE GetChunk(r)
  BY <1>8 DEF GetChunk, FirstStop
<1>9. CASE GetEnd(r) \/ IdleTimeout(r) \/ WriteReset(r)
  BY <1>9 DEF GetEnd, IdleTimeout, WriteReset, Finish, DetachNow, Detach
<1>10. CASE HandoffDone(r) \/ WriteOk(r)
  BY <1>10 DEF HandoffDone, WriteOk
<1>11. CASE Drained(r)
  BY <1>11 DEF Drained, DetachNow, Detach
<1>12. CASE Closed(r)
  BY <1>12 DEF Closed
<1>13. CASE Disconnect(r)
  BY <1>13 DEF Disconnect
<1>14. CASE Cancel(r)
  BY <1>14 DEF Cancel, CancelLoop, CancelSwallowed, CancelHandoff, CancelDrain,
               CancelOutside, MayCancel
<1>15. CASE Placeholder(r) \/ PlaceholderEof(r)
  BY <1>15 DEF Placeholder, PlaceholderStart, PlaceholderStop, PlaceholderEof,
               PlaceholderReaped, PlaceholderTo
<1> QED BY <1>1, <1>2, <1>3, <1>4, <1>5, <1>6, <1>7, <1>8, <1>9, <1>10, <1>11,
           <1>12, <1>13, <1>14, <1>15 DEF Request, Handler

\* If the server never cancels a handler, no request is subscribed after its
\* handler returned: every exit of get() that attached also detached.
THEOREM ReturnsDetached == ~HandlerCancellation /\ Spec => []DoneIsDetached
<1> SUFFICES ASSUME ~HandlerCancellation PROVE Spec => []DoneIsDetached
  OBVIOUS
<1>1. Init => DetachedInv
  BY DEF Init, DetachedInv
<1>2. ASSUME Inv, DetachedInv, [Next]_vars PROVE DetachedInv'
  <2> USE DEF DetachedInv
  <2>1. CASE UNCHANGED <<pc, subs>>
    BY <1>2, <2>1
  <2>2. ASSUME NEW r \in Requests, Request(r) PROVE DetachedInv'
    <3> SUFFICES ASSUME NEW q \in Requests, NEW s \in Streams,
                        pc'[q] \in {"failclose", "faildrain", "close", "done"}
                 PROVE  q \notin subs'[s]
      OBVIOUS
    <3> USE DEF Inv, TypeOK, Early, Attached
    <3>1. CASE UNCHANGED <<pc, subs>>
      BY <1>2, <3>1
    <3>2. CASE /\ pc[r] \in Early \cup {"failclose", "faildrain", "close"}
               /\ \E label : pc' = [pc EXCEPT ![r] = label]
               /\ UNCHANGED subs
      BY <1>2, <3>2 DEF StreamInv, SubsInv
    <3>3. CASE /\ pc[r] \in Early /\ pc' = [pc EXCEPT ![r] = "login"]
               /\ \E t \in Streams : subs' = [subs EXCEPT ![t] = @ \cup {r}]
      BY <1>2, <3>3
    <3>4. CASE /\ \E label \in {"watch", "handoff", "write", "drain"} :
                     pc' = [pc EXCEPT ![r] = label]
               /\ UNCHANGED subs
      BY <1>2, <3>4
    <3>5. CASE /\ pc[r] \in Attached
               /\ \E label : pc' = [pc EXCEPT ![r] = label]
               /\ subs' = [subs EXCEPT ![stream[r]] = @ \ {r}]
      BY <1>2, <3>5 DEF StreamInv, SubsInv
    <3> QED BY <1>2, <2>2, <3>1, <3>2, <3>3, <3>4, <3>5, HandlerMoves
  <2>3. CASE (\E c \in Clients : SetupEntry(c)) \/ UnloadEntry
    BY <2>1, <2>3 DEF SetupEntry, UnloadEntry, reqVars, streamVars
  <2>4. CASE \E s \in Streams : Stream(s)
    BY <2>1, <2>4 DEF Stream, CopyWrite, CopyEnd, KeepaliveExit, reqVars, streamVars
  <2>5. CASE UNCHANGED vars
    BY <2>1, <2>5 DEF vars, reqVars, streamVars
  <2> QED BY <1>2, <2>2, <2>3, <2>4, <2>5 DEF Next
<1>3. DetachedInv => DoneIsDetached
  BY DEF DetachedInv, DoneIsDetached
<1> QED BY <1>1, <1>2, <1>3, Invariance, PTL DEF Spec
-----------------------------------------------------------------------------
(* Refinement of the shared session. *)

LEMMA SharedFrame ==
    ASSUME UNCHANGED <<registry, subs, copy>>
    PROVE  UNCHANGED <<Watchers, Session>>
BY DEF Watchers, Session

LEMMA SharedDetach ==
    ASSUME Inv, NEW r \in Requests, pc[r] \in Attached, Detach(r)
    PROVE  Shared!Leave(client[r], r) /\ client[r] \in Clients
<1> USE DEF Inv, TypeOK, Streams
<1> DEFINE c == client[r]
           s == stream[r]
<1>1. /\ s \in Streams /\ r \in subs[s] /\ c \in Clients /\ s # NoStream
      /\ registry[c] = s
  <2>1. s \in Streams /\ r \in subs[s] /\ client[r] = client[s] /\ client[s] \in Clients
    BY DEF StreamInv, AttachedInv, SubsInv, HandlerInv, HandlerOK, Attached, Early
  <2>2. registry[client[s]] = s /\ s # NoStream
    BY <2>1, FanOutAssumption DEF StreamInv, RegistryExact
  <2> QED BY <2>1, <2>2
<1>2. /\ subs' = [subs EXCEPT ![s] = @ \ {r}] /\ copy' = copy
      /\ registry' = [registry EXCEPT ![c] = IF subs[s] = {r} THEN NoStream ELSE s]
  BY <1>1 DEF Detach, Deregister, LastOf
<1>3. \A d \in Clients \ {c} : registry[d] # s
  BY <1>1 DEF StreamInv, RegistryInv, SubsInv
<1>4. Watchers[c] = subs[s]
  BY <1>1 DEF Watchers
<1>5. Watchers' = [Watchers EXCEPT ![c] = @ \ {r}]
  BY <1>1, <1>2, <1>3 DEF Watchers
<1>6. Session' = [Session EXCEPT ![c] = IF subs[s] = {r} THEN "idle" ELSE @]
  BY <1>1, <1>2, <1>3 DEF Session
<1> QED BY <1>1, <1>4, <1>5, <1>6 DEF Shared!Leave
LEMMA SharedFinish ==
    ASSUME Inv, NEW r \in Requests, pc[r] \in Attached, Finish(r)
    PROVE  \/ UNCHANGED <<Watchers, Session>>
           \/ Shared!Leave(client[r], r) /\ client[r] \in Clients
<1>1. CASE placeholder[r] = "done"
  BY <1>1, SharedDetach DEF Finish, DetachNow
<1>2. CASE placeholder[r] # "done"
  BY <1>2, SharedFrame DEF Finish, streamVars
<1> QED BY <1>1, <1>2

LEMMA SharedAttach ==
    ASSUME Inv, NEW r \in Requests, Attach(r)
    PROVE  Shared!Join(client[r], r) /\ client[r] \in Clients
<1> USE DEF Inv, TypeOK, Streams
<1> DEFINE c == client[r]
           s == StreamFor(r)
<1>1. c \in Clients /\ pc[r] = "prepare"
  BY DEF Attach, HandlerInv, HandlerOK
<1>2. \A t \in Streams : r \notin subs[t]
  BY <1>1 DEF StreamInv, SubsInv, Early
<1>3. \A d \in Clients : r \notin Watchers[d]
  BY <1>2 DEF Watchers
<1>4. subs[r] = {} /\ copy[r] = "none" /\ r # NoStream
  BY <1>1, FanOutAssumption DEF StreamInv, SubsInv, FreshInv, Early
<1>5. /\ registry' = [registry EXCEPT ![c] = s]
      /\ subs' = [subs EXCEPT ![s] = @ \cup {r}] /\ copy' = copy
  BY DEF Attach
<1>6. /\ s \in Streams /\ s # NoStream
      /\ \A d \in Clients \ {c} : registry[d] # s
      /\ (registry[c] = NoStream /\ s = r) \/ (registry[c] = s /\ registry[c] # NoStream)
  <2>1. CASE registry[c] = NoStream
    <3>1. s = r
      BY <2>1 DEF StreamFor
    <3>2. ASSUME NEW d \in Clients \ {c} PROVE registry[d] # r
      BY <1>1, <1>4 DEF StreamInv, RegistryInv
    <3> QED BY <1>4, <2>1, <3>1, <3>2
  <2>2. CASE registry[c] # NoStream
    <3>1. s = registry[c] /\ s \in Streams
      BY <1>1, <2>2 DEF StreamFor
    <3>2. ASSUME NEW d \in Clients \ {c} PROVE registry[d] # s
      BY <1>1, <2>2, <3>1 DEF StreamInv, RegistryInv
    <3> QED BY <2>2, <3>1, <3>2
  <2> QED BY <2>1, <2>2
<1> HIDE DEF c, s
<1>7. Watchers' = [Watchers EXCEPT ![c] = @ \cup {r}]
  BY <1>1, <1>4, <1>5, <1>6 DEF Watchers
<1>8. Session' = Session
  BY <1>1, <1>4, <1>5, <1>6 DEF Session
<1> QED BY <1>1, <1>3, <1>7, <1>8 DEF Shared!Join, c

LEMMA SharedLogin ==
    ASSUME Inv, NEW r \in Requests, LoginOk(r)
    PROVE  \/ UNCHANGED <<Watchers, Session>>
           \/ Shared!Open(client[r]) /\ client[r] \in Clients
<1> USE DEF Inv, TypeOK, Streams
<1> DEFINE c == client[r]
           s == stream[r]
<1>1. CASE StartedAlready(s)
  BY <1>1, SharedFrame DEF LoginOk
<1>2. CASE ~StartedAlready(s)
  <2>1. /\ s \in Streams /\ r \in subs[s] /\ client[r] = client[s]
        /\ client[s] \in Clients /\ copy[s] = "none"
    BY <1>2 DEF LoginOk, StartedAlready, StreamInv, AttachedInv, SubsInv,
       HandlerInv, HandlerOK, Attached, Early
  <2>2. registry[c] = s /\ s # NoStream
    BY <2>1, FanOutAssumption DEF StreamInv, RegistryExact
  <2>3. \A d \in Clients \ {c} : registry[d] # s
    BY <2>1, <2>2 DEF StreamInv, RegistryInv
  <2>4. copy' = [copy EXCEPT ![s] = "running"] /\ UNCHANGED <<registry, subs>>
    BY <1>2 DEF LoginOk, StartJobs
  <2>5. Watchers' = Watchers /\ Watchers[c] # {}
    BY <2>1, <2>2, <2>4 DEF Watchers
  <2>6. Session[c] = "idle" /\ Session' = [Session EXCEPT ![c] = "open"]
    <3>1. Session[c] = "idle" /\ Session'[c] = "open"
      BY <2>1, <2>2, <2>4 DEF Session
    <3>2. ASSUME NEW d \in Clients \ {c} PROVE Session'[d] = Session[d]
      <4>1. registry[d] # s /\ registry'[d] = registry[d]
        BY <2>3, <2>4
      <4>2. registry[d] # NoStream => copy'[registry[d]] = copy[registry[d]]
        BY <2>1, <2>4, <4>1
      <4> QED BY <4>1, <4>2 DEF Session
    <3>3. /\ Session = [d \in Clients |-> Session[d]]
          /\ Session' = [d \in Clients |-> Session'[d]]
      BY DEF Session
    <3> QED BY <3>1, <3>2, <3>3
  <2> QED BY <2>1, <2>5, <2>6 DEF Shared!Open
<1> QED BY <1>1, <1>2

LEMMA SharedCopyEnd ==
    ASSUME Inv, NEW s \in Streams, CopyEnd(s)
    PROVE  \/ UNCHANGED <<Watchers, Session>>
           \/ \E c \in Clients : Shared!UpstreamEnds(c)
<1> USE DEF Inv, TypeOK, Streams
<1>1. /\ copy[s] = "running" /\ UNCHANGED <<registry, subs>>
      /\ \E result \in {"over", "raised"} : copy' = [copy EXCEPT ![s] = result]
  BY DEF CopyEnd
<1>2. Watchers' = Watchers
  BY <1>1 DEF Watchers
<1>3. ASSUME NEW c \in Clients, registry[c] = s PROVE Shared!UpstreamEnds(c)
  <2>1. s # NoStream /\ \A d \in Clients \ {c} : registry[d] # s
    BY <1>3, FanOutAssumption DEF StreamInv, RegistryInv
  <2>2. Session[c] = "open" /\ Session' = [Session EXCEPT ![c] = "ended"]
    <3>1. Session[c] = "open" /\ Session'[c] = "ended"
      BY <1>1, <1>3, <2>1 DEF Session
    <3>2. ASSUME NEW d \in Clients \ {c} PROVE Session'[d] = Session[d]
      <4>1. registry[d] # s /\ registry'[d] = registry[d]
        BY <1>1, <2>1
      <4>2. registry[d] # NoStream => copy'[registry[d]] = copy[registry[d]]
        BY <1>1, <4>1
      <4> QED BY <4>1, <4>2 DEF Session
    <3>3. /\ Session = [d \in Clients |-> Session[d]]
          /\ Session' = [d \in Clients |-> Session'[d]]
      BY DEF Session
    <3> QED BY <3>1, <3>2, <3>3
  <2> QED BY <1>2, <2>2 DEF Shared!UpstreamEnds
<1>4. CASE \A c \in Clients : registry[c] # s
  BY <1>1, <1>2, <1>4 DEF Session
<1> QED BY <1>3, <1>4

\* Whatever the viewers, the server's cancellations and reloads do, each client
\* behaves as one shared session: opened for a group of viewers, once, and given
\* up with the last of them.
THEOREM Refinement == Spec => ImplementsSharedSession
<1>1. Init => Shared!Init
  BY DEF Init, Shared!Init, Watchers, Session
<1>2. ASSUME Inv, [Next]_vars PROVE [Shared!Next]_<<Watchers, Session>>
  <2> USE DEF reqVars, streamVars
  <2>1. CASE UNCHANGED vars
    BY <2>1, SharedFrame DEF vars
  <2>2. ASSUME NEW c \in Clients, SetupEntry(c) PROVE UNCHANGED <<Watchers, Session>>
    BY <2>2, SharedFrame DEF SetupEntry
  <2>3. CASE UnloadEntry
    BY <2>3, SharedFrame DEF UnloadEntry
  <2>4. ASSUME NEW r \in Requests, Request(r) PROVE [Shared!Next]_<<Watchers, Session>>
    <3> USE DEF Attached
    <3>1. CASE Attach(r)
      BY <1>2, <3>1, SharedAttach DEF Shared!Next
    <3>2. CASE LoginOk(r)
      BY <1>2, <3>2, SharedLogin DEF Shared!Next
    <3>3. CASE LoginFail(r) \/ Drained(r) \/ CancelHandoff(r)
      <4>1. Detach(r) /\ pc[r] \in Attached
        BY <3>3 DEF LoginFail, Drained, CancelHandoff, DetachNow
      <4> QED BY <1>2, <4>1, SharedDetach DEF Shared!Next
    <3>4. CASE GetEnd(r) \/ IdleTimeout(r) \/ WriteReset(r) \/ CancelLoop(r)
      <4>1. Finish(r) /\ pc[r] \in Attached
        BY <3>4 DEF GetEnd, IdleTimeout, WriteReset, CancelLoop
      <4> QED BY <1>2, <4>1, SharedFinish DEF Shared!Next
    <3>5. CASE \/ Arrive(r) \/ PrepareFails(r) \/ FailClosed(r) \/ FailDrained(r)
               \/ GetChunk(r) \/ HandoffDone(r) \/ WriteOk(r) \/ Closed(r)
               \/ Disconnect(r) \/ CancelSwallowed(r) \/ CancelDrain(r)
               \/ CancelOutside(r) \/ Placeholder(r) \/ PlaceholderEof(r)
      <4>1. UNCHANGED <<registry, subs, copy>>
        BY <3>5 DEF Arrive, PrepareFails, FailClosed, FailDrained, GetChunk,
           HandoffDone, WriteOk, Closed, Disconnect, CancelSwallowed, CancelDrain,
           CancelOutside, Placeholder, PlaceholderStart, PlaceholderStop,
           PlaceholderEof, PlaceholderReaped, PlaceholderTo
      <4> QED BY <4>1, SharedFrame
    <3> QED BY <2>4, <3>1, <3>2, <3>3, <3>4, <3>5 DEF Request, Handler, Cancel
  <2>5. ASSUME NEW s \in Streams, Stream(s) PROVE [Shared!Next]_<<Watchers, Session>>
    <3>1. CASE CopyEnd(s)
      BY <1>2, <3>1, SharedCopyEnd DEF Shared!Next
    <3>2. CASE CopyWrite(s) \/ KeepaliveExit(s)
      BY <3>2, SharedFrame DEF CopyWrite, KeepaliveExit
    <3> QED BY <2>5, <3>1, <3>2 DEF Stream
  <2> QED BY <1>2, <2>1, <2>2, <2>3, <2>4, <2>5 DEF Next
<1> QED BY <1>1, <1>2, Invariance, PTL DEF Spec, ImplementsSharedSession, Shared!Spec
=============================================================================
