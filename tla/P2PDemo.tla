------------------------------ MODULE P2PDemo ------------------------------
(***************************************************************************)
(* The P2P demo server (p2p/demo.py, Handler.do_GET) over the transport    *)
(* session: the handler connects, a pump thread takes frames to ffmpeg's   *)
(* stdin, and the handler takes ffmpeg's output to the viewer.             *)
(*                                                                         *)
(* The handler is the session's caller: main goes from "up" through its    *)
(* own places to "closing", and from "closed" to "returned".  A pipe holds *)
(* one chunk.  A viewer has gone once writing to it fails.                 *)
(***************************************************************************)
EXTENDS P2PSession

VARIABLES
    pump,    \* the pump thread
    stop,    \* its stop event
    ffmpeg,  \* the ffmpeg process
    input,   \* a chunk is in its stdin
    output,  \* a chunk is in its stdout
    viewer   \* "there" or "gone"

demoVars == <<pump, stop, ffmpeg, input, output, viewer>>
vars == <<sessionVars, demoVars>>

\* All the session keeps but the caller's place, the frame queue and the troubles.
RestVars == <<page, failed, sock, threadVars, punchVars, srtVars, closeEvent, netVars>>

DemoInit ==
    /\ Init
    /\ pump = "none" /\ stop = FALSE /\ ffmpeg = "none"
    /\ input = FALSE /\ output = FALSE /\ viewer = "there"

\* A viewer that leaves before the headers is missed when they are written.
Leave ==
    /\ viewer = "there" /\ main \in {"headers", "serving"}
    /\ viewer' = "gone"
    /\ UNCHANGED <<sessionVars, pump, stop, ffmpeg, input, output>>

-----------------------------------------------------------------------------
\* ffmpeg is started and the headers are written outside the try: an exception leaves
\* the session, and what else there is, running.
StartPump ==
    /\ main = "up"
    /\ \/ main' = "headers" /\ ffmpeg' = "running" /\ pump' = "reading" /\ Calm
       \/ main' = "broken" /\ UNCHANGED <<ffmpeg, pump>> /\ Trouble
    /\ UNCHANGED <<RestVars, frames, stop, input, output, viewer>>

SendHeaders ==
    /\ main = "headers"
    /\ main' = IF viewer = "gone" THEN "broken" ELSE "serving"
    /\ UNCHANGED <<RestVars, frames, troubles, demoVars>>

Serve ==
    /\ main = "serving" /\ output
    /\ output' = FALSE
    /\ IF viewer = "gone" THEN main' = "closing" /\ stop' = TRUE
                          ELSE UNCHANGED <<main, stop>>
    /\ UNCHANGED <<RestVars, frames, troubles, pump, ffmpeg, input, viewer>>

\* ffmpeg has closed its stdout.
EndOfOutput ==
    /\ main = "serving" /\ ~output /\ ffmpeg = "over"
    /\ main' = "closing" /\ stop' = TRUE
    /\ UNCHANGED <<RestVars, frames, troubles, pump, ffmpeg, input, output, viewer>>

\* The session is closed; ffmpeg is killed.
KillFfmpeg ==
    /\ main = "closed"
    /\ ffmpeg' = "over"
    /\ main' = "returned"
    /\ UNCHANGED <<RestVars, frames, troubles, pump, stop, input, output, viewer>>

Handler == StartPump \/ SendHeaders \/ Serve \/ EndOfOutput \/ KillFfmpeg

-----------------------------------------------------------------------------
Again == pump' = IF stop THEN "over" ELSE "reading"

\* Mutant: no frame has the codec the pump looks for.
PumpSkips ==
    /\ pump = "reading"
    /\ IF frames = <<>> THEN UNCHANGED frames ELSE frames' = Tail(frames)
    /\ Again
    /\ UNCHANGED <<main, RestVars, troubles, stop, ffmpeg, input, output, viewer>>

\* A frame, an end or, after a second without either, nothing: the last two look alike.
PumpReads ==
    /\ pump = "reading"
    /\ IF frames = <<>> THEN Again /\ UNCHANGED frames
       ELSE /\ frames' = Tail(frames)
            /\ IF Head(frames) = "frame" THEN pump' = "writing" ELSE Again
    /\ UNCHANGED <<main, RestVars, troubles, stop, ffmpeg, input, output, viewer>>

\* A full pipe blocks; a closed one ends the pump.
PumpWrites ==
    /\ pump = "writing"
    /\ \/ ffmpeg = "running" /\ ~input /\ input' = TRUE /\ Again
       \/ ffmpeg = "over" /\ UNCHANGED input /\ pump' = "over"
    /\ UNCHANGED <<main, RestVars, frames, troubles, stop, ffmpeg, output, viewer>>

Pump == PumpReads \/ PumpWrites

Remux ==
    /\ ffmpeg = "running" /\ input /\ ~output
    /\ input' = FALSE /\ output' = TRUE
    /\ UNCHANGED <<sessionVars, pump, stop, ffmpeg, viewer>>

\* ffmpeg ends when the pump has closed its stdin, or by a failure.
FfmpegEnds ==
    /\ ffmpeg = "running"
    /\ IF pump = "over" /\ ~input THEN Calm ELSE Trouble
    /\ ffmpeg' = "over"
    /\ UNCHANGED <<main, RestVars, frames, pump, stop, input, output, viewer>>

-----------------------------------------------------------------------------
DemoNext ==
    \/ Session /\ UNCHANGED demoVars
    \/ Handler \/ Pump \/ Remux \/ FfmpegEnds \/ Leave

Spec == DemoInit /\ [][DemoNext]_vars

(***************************************************************************)
(* Threads, timers, processes and the working network go on; the device    *)
(* streams while it may.  Nothing makes a datagram be lost, a time-out be  *)
(* hasty, or anything fail.                                                *)
(***************************************************************************)
Calmly(A) == A /\ UNCHANGED <<troubles, demoVars>>

HandlerThread == Calmly(Connect \/ Close) \/ Handler
ReceiveThread == Calmly(Receive)
DeviceSends   == Calmly(Announce \/ Ask \/ Stream)
FfmpegRuns    == Remux \/ (FfmpegEnds /\ UNCHANGED troubles)

Fairness ==
    /\ WF_vars(HandlerThread) /\ WF_vars(ReceiveThread) /\ WF_vars(Calmly(TickerEnds))
    /\ WF_vars(Calmly(Delivered)) /\ WF_vars(DeviceSends)
    /\ WF_vars(Pump) /\ WF_vars(FfmpegRuns)

FairSpec == Spec /\ Fairness

-----------------------------------------------------------------------------
DemoTypeOK ==
    /\ TypeOK
    /\ pump \in {"none", "reading", "writing", "over"}
    /\ ffmpeg \in {"none", "running", "over"}
    /\ {stop, input, output} \subseteq BOOLEAN
    /\ viewer \in {"there", "gone"}

(***************************************************************************)
(* A handler that returned, or whose session did not come up, leaves no    *)
(* socket and no ffmpeg behind, and has told every thread to end, whatever *)
(* the step at which connect() raised.  That they do end is EverythingEnds:*)
(* close() waits two seconds for each and no longer (client.py:107-112,    *)
(* session.py:239-256, and the finally clause of do_GET).                  *)
(***************************************************************************)
NothingLeftOpen ==
    main \in {"raised", "closed", "returned"} =>
        /\ sock # "open"
        /\ {recv, ticker} # {"none"} => sock = "closed" /\ closeEvent
        /\ main = "returned" => ffmpeg = "over" /\ stop

(***************************************************************************)
(* A session whose close has begun ends whole: receive thread, ticker,     *)
(* pump and ffmpeg, whatever each was doing and whether or not the join    *)
(* waited for it (session.py:239-256, demo.py:156-161).  The window's      *)
(* flush timer is SrtReorder's.                                            *)
(***************************************************************************)
AllOver ==
    /\ sock = "closed" /\ recv = "over" /\ ticker # "running"
    /\ pump \in {"none", "over"} /\ ffmpeg \in {"none", "over"}
EverythingEnds == main = "closing" ~> AllOver

(***************************************************************************)
(* With a device that answers, start() comes up: when nothing is lost, and *)
(* with one datagram lost if the device streams from its public port.  The *)
(* exceptions are an initial sequence number 0, which the code takes for   *)
(* "no session", and the troubles (session.py:209-230).                    *)
(***************************************************************************)
Excused ==
    \/ troubles > 0 \/ lost > 1
    \/ lost = 1 /\ dev.port # PublicPort
    \/ dev.seq["control"] = 0
ComesUp == main = "start" ~> main = "up" \/ Excused

(***************************************************************************)
(* A viewer that left is noticed as long as the device streams, through    *)
(* every queue and pipe in between (demo.py:147-155).                      *)
(***************************************************************************)
LeaverNoticed ==
    main = "serving" /\ viewer = "gone" ~> main # "serving" \/ recv = "over" \/ dev.answered < 4
=============================================================================
