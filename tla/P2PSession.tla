----------------------------- MODULE P2PSession -----------------------------
(***************************************************************************)
(* The P2P transport session (p2p/session.py, Session; p2p/client.py,      *)
(* connect; p2p/api.py): finding the device's servers, hole punching, the  *)
(* play request, the device's SRT handshakes, and close.                   *)
(*                                                                         *)
(* Threads: the caller of connect() and close(), the receive thread, the   *)
(* ticker.  Datagrams are lost, repeated and reordered: net is the set of  *)
(* those under way.                                                        *)
(* What answers and changes nothing (SRT keepalives, the device's own      *)
(* set-ups, the client's set-ups, ACKs, keepalives and its best-effort     *)
(* shutdown) is not in it.                                                 *)
(*                                                                         *)
(* The servers relay to the device.  The device is what the code expects   *)
(* it to be: it announces itself with a punch once told of the client, and *)
(* once asked to play opens two SRT sub-sessions, control and then video,  *)
(* by an induction and a conclusion each: requests 1 to 4.  It sends a     *)
(* datagram up to Tries times until it is answered.  The client's NAT lets *)
(* through what comes from a port the client has sent to; what the device  *)
(* sends waits for that, as if it were repeated until it passes.           *)
(***************************************************************************)
EXTENDS Naturals, Sequences, FiniteSets

CONSTANTS
    Servers,      \* cfg.p2p_servers
    Ports,        \* ports of the device
    PublicPort,   \* cfg.device_public_port
    NoPort, NoServer,
    Openings,     \* the pairs of initial sequence numbers the device may choose
    FrameCap,     \* maxsize of frames
    Pages,        \* pages of the account's device list
    Tries,        \* bound: times the device sends one datagram
    MaxTroubles   \* bound: datagrams lost or repeated, failures of the socket or of
                  \* ffmpeg, time-outs that run out with an answer under way or on a
                  \* slow thread, together

Channels == {"control", "video"}

ASSUME P2PAssumption ==
    /\ PublicPort \in Ports /\ NoPort \notin Ports
    /\ Servers # {} /\ NoServer \notin Servers
    /\ Openings \subseteq [Channels -> Nat]
    /\ {FrameCap, Tries, MaxTroubles} \subseteq Nat /\ Pages \in Nat \ {0}

Channel(n) == IF n <= 2 THEN "control" ELSE "video"

ToServer == {"setup", "relay"}
ToDevice == {"play", "reply"}
ToClient == {"located", "punch", "request", "data"}
Datagram == [is : ToServer \cup ToDevice \cup ToClient, n : 0 .. 4,
             at : Servers \cup {NoServer}]

\* The device: where it streams from, its two initial sequence numbers, what it has
\* been told, how often it has sent its punch and its current request, and how many
\* requests have been answered.
Device == [port : Ports, seq : Openings,
           told : BOOLEAN, met : BOOLEAN, played : BOOLEAN,
           punches : 0 .. Tries, tries : 0 .. Tries, answered : 0 .. 4]

Mail(is)     == [is |-> is, n |-> 0, at |-> NoServer]
Step(is, n)  == [is |-> is, n |-> n, at |-> NoServer]
ToAll(is)    == {[is |-> is, n |-> 0, at |-> s] : s \in Servers}

VARIABLES
    main,        \* where the caller is
    page,        \* the page of the device list it asks for
    sock,        \* the session's UDP socket
    recv,        \* the receive thread
    got,         \* the request it has concluded, 0 for a punch
    ticker,      \* the ticker thread
    peer,        \* device_peer
    punched,     \* punch_complete
    streamPort,  \* device_stream_port
    punchEvent, dataEvent, closeEvent,
    dataId,      \* data_session_id
    peerSocket,  \* srt_peer_socket_id
    frames,      \* the frame queue: "frame"s and "end"s
    failed,      \* start() has raised
    dev,         \* the device
    net,         \* datagrams under way
    nat,         \* ports whose datagrams the client's NAT lets in
    lost,        \* datagrams lost
    troubles     \* other troubles

callVars   == <<main, page, failed>>
punchVars  == <<peer, punched, streamPort, punchEvent>>
srtVars    == <<dataId, dataEvent, peerSocket>>
threadVars == <<recv, got, ticker>>
netVars    == <<net, nat, dev, lost>>
sessionVars == <<callVars, sock, threadVars, punchVars, srtVars, closeEvent, frames,
                 netVars, troubles>>

-----------------------------------------------------------------------------
Init ==
    /\ main = "wake" /\ page = 0 /\ failed = FALSE
    /\ sock = "none" /\ recv = "none" /\ got = 0 /\ ticker = "none"
    /\ peer = NoPort /\ punched = FALSE /\ streamPort = NoPort
    /\ punchEvent = FALSE /\ dataEvent = FALSE /\ closeEvent = FALSE
    /\ dataId = 0 /\ peerSocket = "none"
    /\ frames = <<>>
    /\ dev \in {d \in Device : /\ TRUE \notin {d.told, d.met, d.played}
                             /\ {d.punches, d.tries, d.answered} = {0}}
    /\ net = {} /\ nat = {} /\ lost = 0
    /\ troubles = 0

Trouble == lost + troubles < MaxTroubles /\ troubles' = troubles + 1
Calm    == UNCHANGED troubles

Push(f) == IF Len(frames) < FrameCap THEN frames' = Append(frames, f) ELSE UNCHANGED frames

\* _send_to_device: the peer that punched, or the public address.
Dest == IF peer = NoPort THEN PublicPort ELSE peer

\* Datagrams sent to the device reach it on its own port; a send on a closed socket
\* is an OSError that _send_to_addr swallows.
Send(ms, p) ==
    IF sock = "open"
      THEN /\ net' = net \cup (IF p = dev.port THEN ms ELSE {})
           /\ nat' = nat \cup {p}
      ELSE UNCHANGED <<net, nat>>

-----------------------------------------------------------------------------
(***************************************************************************)
(* connect(): the wake-up call, the device's entry in the device list, the *)
(* account's secret, then the session and its start().                     *)
(***************************************************************************)
BootVars == <<sock, failed, threadVars, punchVars, srtVars, closeEvent, frames, netVars, troubles>>

\* delay_battery_device_sleep, whatever becomes of it.
WakeDevice ==
    /\ main = "wake"
    /\ main' = "config" /\ page' = 1
    /\ UNCHANGED BootVars

\* A page has the device, or is full, or is the last one.
GetConfig ==
    /\ main = "config"
    /\ \/ main' = "secret" /\ page' = 0
       \/ main' = "config" /\ page < Pages /\ page' = page + 1
       \/ main' = "raised" /\ page = Pages /\ page' = 0
    /\ UNCHANGED BootVars

\* Session.__init__ binds the socket.
GetSecret ==
    /\ main = "secret"
    /\ main' = "start" /\ sock' = "open"
    /\ UNCHANGED <<page, failed, threadVars, punchVars, srtVars, closeEvent, frames, netVars, troubles>>

\* A request fails, or its answer lacks a key the session needs.
BootstrapFails ==
    /\ main \in {"config", "secret"}
    /\ main' = "raised" /\ page' = 0
    /\ UNCHANGED BootVars

-----------------------------------------------------------------------------
(***************************************************************************)
(* start().  A time-out that runs out while an answer is under way is a    *)
(* trouble: the code's seconds are long for a network that works.          *)
(***************************************************************************)
\* What the device has left to send.
Announces == dev.told /\ ~dev.met /\ dev.punches < Tries
Asks      == dev.played /\ dev.answered < 4 /\ dev.tries < Tries
Passes    == dev.port \in nat
Quiet ==
    \/ recv = "over"
    \/ /\ recv = "running"
       /\ Passes => ~Announces /\ ~Asks
       /\ \A m \in net :
             m.is \in {"data"} \cup (IF Passes THEN {} ELSE {"punch", "request"})

TimesOut == IF Quiet THEN Calm ELSE Trouble

ContactServers ==
    /\ main = "start"
    /\ recv' = "running"
    /\ net' = net \cup ToAll("setup")
    /\ main' = "punch"
    /\ UNCHANGED <<page, failed, sock, got, ticker, punchVars, srtVars, closeEvent, frames,
                   nat, dev, lost, troubles>>

PunchSeen ==
    /\ main = "punch" /\ punchEvent
    /\ main' = "play"
    /\ UNCHANGED <<page, failed, sock, threadVars, punchVars, srtVars, closeEvent, frames, netVars, troubles>>

\* _hole_punch at the ports known, and two seconds for it to work.
HolePunch ==
    /\ main = "punch" /\ ~punchEvent
    /\ TimesOut
    /\ nat' = nat \cup {PublicPort} \cup ({streamPort} \ {NoPort})
    /\ main' = "play"
    /\ UNCHANGED <<page, failed, sock, threadVars, punchVars, srtVars, closeEvent, frames, net, dev, lost>>

\* Mutant: the relayed request is left out once the device is punched.
SendPlayDirect ==
    /\ main = "play"
    /\ IF punched THEN Send({Mail("play")}, peer)
                  ELSE net' = net \cup ToAll("relay") /\ nat' = nat
    /\ main' = "pause"
    /\ UNCHANGED <<page, failed, sock, threadVars, punchVars, srtVars, closeEvent, frames, dev, lost, troubles>>

SendPlayRequest ==
    /\ main = "play"
    /\ net' = net \cup ToAll("relay")
                  \cup (IF punched /\ peer = dev.port THEN {Mail("play")} ELSE {})
    /\ nat' = IF punched THEN nat \cup {peer} ELSE nat
    /\ main' = "pause"
    /\ UNCHANGED <<page, failed, sock, threadVars, punchVars, srtVars, closeEvent, frames, dev, lost, troubles>>

\* The three seconds after the play request are over.
StartTicker ==
    /\ main = "pause"
    /\ ticker' = "running"
    /\ main' = "data"
    /\ UNCHANGED <<page, failed, sock, recv, got, punchVars, srtVars, closeEvent, frames, netVars, troubles>>

\* _wait_for_data_session: an id, the event, or 15 seconds.
WaitForDataSession ==
    /\ main = "data"
    /\ IF dataId # 0 \/ dataEvent THEN Calm ELSE TimesOut
    /\ main' = "check"
    /\ UNCHANGED <<page, failed, sock, threadVars, punchVars, srtVars, closeEvent, frames, netVars>>

\* Mutant: connect() lets the exception of start() go without closing.
RaiseAtOnce ==
    /\ main = "check"
    /\ failed' = (dataId = 0)
    /\ main' = IF failed' THEN "raised" ELSE "up"
    /\ UNCHANGED <<page, sock, recv, got, ticker, punchVars, srtVars, closeEvent, frames, netVars, troubles>>

\* start() returns after _send_session_setup, or raises, and connect() closes.
CheckDataSession ==
    /\ main = "check"
    /\ failed' = (dataId = 0)
    /\ main' = IF failed' THEN "closing" ELSE "up"
    /\ UNCHANGED <<page, sock, recv, got, ticker, punchVars, srtVars, closeEvent, frames, netVars, troubles>>

Start ==
    \/ ContactServers \/ PunchSeen \/ HolePunch \/ SendPlayRequest \/ StartTicker
    \/ WaitForDataSession \/ CheckDataSession

-----------------------------------------------------------------------------
(***************************************************************************)
(* The receive thread, one datagram at a time.                             *)
(***************************************************************************)
\* The thread takes m, which the network may deliver again, and sends ms to port p.
Answer(m, ms, p) ==
    /\ recv = "running" /\ sock = "open" /\ m \in net
    /\ m.is = "located" \/ Passes
    /\ nat' = nat \cup {p}
    /\ \E rest \in {net, net \ {m}} :
          /\ IF rest = net THEN m.is # "data" /\ Trouble ELSE Calm
          /\ net' = rest \cup (IF p = dev.port THEN ms ELSE {})

Ignore(m) == Answer(m, {}, dev.port)

\* The servers' answer: the device's port is punched at once.
HandleSetupResponse(m) ==
    /\ m.is = "located"
    /\ Ignore(m)
    /\ streamPort' = dev.port
    /\ UNCHANGED <<recv, got, peer, punched, punchEvent, srtVars, frames>>

HandlePunchRequest(m) ==
    /\ m.is = "punch"
    /\ Ignore(m)
    /\ peer' = dev.port /\ punched' = TRUE
    /\ recv' = "signal" /\ got' = 0
    /\ UNCHANGED <<streamPort, punchEvent, srtVars, frames>>

\* Mutant: the first sub-session's socket is kept.
KeepFirst(n) == peerSocket' = IF peerSocket = "none" THEN Channel(n) ELSE peerSocket

SetPeerSocket(n) == peerSocket' = Channel(n)

HandleInduction(m) ==
    /\ m.is = "request" /\ m.n \in {1, 3}
    /\ SetPeerSocket(m.n)
    /\ Answer(m, {Step("reply", m.n)}, Dest)
    /\ UNCHANGED <<recv, got, punchVars, dataId, dataEvent, frames>>

\* Mutant: the id of the conclusion at hand is taken whether or not there is one.
ConcludeAgain(m) ==
    /\ Ignore(m)
    /\ dataId' = dev.seq[Channel(m.n)]
    /\ recv' = "signal" /\ got' = m.n

\* The first conclusion opens the data session; its event is set in a second step.
Conclude(m) ==
    IF dataId = 0
      THEN /\ Ignore(m)
           /\ dataId' = dev.seq[Channel(m.n)]
           /\ recv' = "signal" /\ got' = m.n
      ELSE /\ Answer(m, {Step("reply", m.n)}, Dest)
           /\ UNCHANGED <<recv, got, dataId>>

HandleConclusion(m) ==
    /\ m.is = "request" /\ m.n \in {2, 4}
    /\ Conclude(m)
    /\ UNCHANGED <<punchVars, dataEvent, peerSocket, frames>>

\* Video data counts once the data session is up; frames are dropped when the queue
\* is full or the session is closing.
HandleData(m) ==
    /\ m.is = "data"
    /\ Ignore(m)
    /\ IF dataId = 0 \/ closeEvent THEN UNCHANGED frames ELSE Push("frame")
    /\ UNCHANGED <<recv, got, punchVars, dataId, dataEvent, peerSocket>>

Handle(m) ==
    /\ \/ HandleSetupResponse(m) \/ HandlePunchRequest(m) \/ HandleInduction(m)
       \/ HandleConclusion(m) \/ HandleData(m)
    /\ UNCHANGED <<callVars, sock, ticker, closeEvent, dev, lost>>

\* Having released the lock, the thread answers the punch, ten times, or the conclusion
\* and wakes start().
Signal ==
    /\ recv = "signal"
    /\ IF got = 0
         THEN /\ punchEvent' = TRUE /\ UNCHANGED <<dataEvent, net, nat>>
              /\ dev' = [dev EXCEPT !.met = (sock = "open")]
         ELSE /\ dataEvent' = TRUE /\ UNCHANGED <<punchEvent, dev>>
              /\ Send({Step("reply", got)}, Dest)
    /\ recv' = "running" /\ got' = 0
    /\ UNCHANGED <<callVars, sock, ticker, peer, punched, streamPort, dataId,
                   peerSocket, closeEvent, frames, lost, troubles>>

\* The loop ends when it sees the close event, or by an OSError of the socket.
ReceiveEnds ==
    /\ recv = "running"
    /\ \/ closeEvent /\ UNCHANGED frames /\ Calm
       \/ sock = "closed" /\ Push("end") /\ Calm
       \/ sock = "open" /\ Push("end") /\ Trouble
    /\ recv' = "over"
    /\ UNCHANGED <<callVars, sock, got, ticker, punchVars, srtVars, closeEvent, netVars>>

TickerEnds ==
    /\ ticker = "running" /\ closeEvent
    /\ ticker' = "over"
    /\ UNCHANGED <<callVars, sock, recv, got, punchVars, srtVars, closeEvent, frames,
                   netVars, troubles>>

Receive == (\E m \in net : Handle(m)) \/ Signal \/ ReceiveEnds

-----------------------------------------------------------------------------
(***************************************************************************)
(* close(), by connect() after a failed start() or by the session's user.  *)
(***************************************************************************)
\* Mutant: the event is not set.
OnlyCloseSocket ==
    /\ main = "closing"
    /\ sock' = "closed"
    /\ main' = "join"
    /\ UNCHANGED <<page, failed, threadVars, punchVars, srtVars, closeEvent, frames, netVars, troubles>>

CloseSocket ==
    /\ main = "closing"
    /\ closeEvent' = TRUE /\ sock' = "closed"
    /\ main' = "join"
    /\ UNCHANGED <<page, failed, threadVars, punchVars, srtVars, frames, netVars, troubles>>

\* Both threads have ended, or one is slow and join(timeout=2.0) gives it up; the
\* sentinel is dropped when the queue is full.
JoinThreads ==
    /\ main = "join"
    /\ IF {recv, ticker} \cap {"running", "signal"} = {} THEN Calm ELSE Trouble
    /\ Push("end")
    /\ main' = IF failed THEN "raised" ELSE "closed"
    /\ UNCHANGED <<page, failed, sock, threadVars, punchVars, srtVars, closeEvent, netVars>>

Close == CloseSocket \/ JoinThreads

-----------------------------------------------------------------------------
(***************************************************************************)
(* The network, the servers and the device.                                *)
(***************************************************************************)
SessionStill == UNCHANGED <<callVars, sock, threadVars, punchVars, srtVars, closeEvent, frames, nat>>

Lose(m) ==
    /\ lost + troubles < MaxTroubles
    /\ lost' = lost + 1
    /\ net' = net \ {m}
    /\ SessionStill /\ Calm /\ UNCHANGED dev

\* The servers tell the client where the device is, and the device of the client; a
\* second answer would change nothing.
Setup(m) ==
    /\ m.is = "setup"
    /\ net' = (net \ ToAll("setup")) \cup {Mail("located")}
    /\ dev' = [dev EXCEPT !.told = TRUE]

\* The device takes a play request, relayed or direct, and its copies; the answer to
\* the request it waits on.
Deliver(m) ==
    /\ net' = net \ (IF m.is \in {"relay", "play"} THEN ToAll("relay") \cup {Mail("play")} ELSE {m})
    /\ dev' = IF m.is \in {"relay", "play"} THEN [dev EXCEPT !.played = TRUE]
              ELSE IF m.n = dev.answered + 1 THEN [dev EXCEPT !.answered = m.n, !.tries = 0]
              ELSE dev

Delivered ==
    /\ \E m \in net : \/ Setup(m)
                      \/ m.is \in ToDevice \cup {"relay"} /\ Deliver(m)
    /\ SessionStill /\ Calm /\ UNCHANGED lost

\* To send again what is still under way is a trouble.
Announce ==
    /\ Announces
    /\ IF Mail("punch") \in net \/ recv = "signal" THEN Trouble ELSE Calm
    /\ net' = net \cup {Mail("punch")}
    /\ dev' = [dev EXCEPT !.punches = @ + 1]
    /\ SessionStill /\ UNCHANGED lost

Ask ==
    /\ Asks
    /\ LET n == dev.answered + 1 IN
       /\ IF {Step("request", n), Step("reply", n)} \cap net # {} \/ recv = "signal"
            THEN Trouble ELSE Calm
       /\ net' = net \cup {Step("request", n)}
    /\ dev' = [dev EXCEPT !.tries = @ + 1]
    /\ SessionStill /\ UNCHANGED lost

Stream ==
    /\ dev.answered = 4
    /\ net' = net \cup {Mail("data")}
    /\ SessionStill /\ Calm /\ UNCHANGED <<dev, lost>>

World == (\E m \in net : Lose(m)) \/ Delivered \/ Announce \/ Ask \/ Stream

-----------------------------------------------------------------------------
Connect == WakeDevice \/ GetConfig \/ GetSecret \/ BootstrapFails \/ Start

Session == Connect \/ Receive \/ TickerEnds \/ Close \/ World

-----------------------------------------------------------------------------
TypeOK ==
    /\ main \in {"wake", "config", "secret", "start", "punch", "play", "pause", "data", "check",
                 "up", "headers", "broken", "serving",
                 "closing", "join", "closed", "returned", "raised"}
    /\ page \in 0 .. Pages
    /\ failed \in BOOLEAN
    /\ sock \in {"none", "open", "closed"}
    /\ recv \in {"none", "running", "signal", "over"}
    /\ got \in {0, 2, 4}
    /\ ticker \in {"none", "running", "over"}
    /\ {peer, streamPort} \subseteq Ports \cup {NoPort}
    /\ {punched, punchEvent, dataEvent, closeEvent} \subseteq BOOLEAN
    /\ dataId \in Nat
    /\ peerSocket \in Channels \cup {"none"}
    /\ frames \in Seq({"frame", "end"}) /\ Len(frames) <= FrameCap
    /\ dev \in Device
    /\ net \subseteq Datagram
    /\ nat \subseteq Ports
    /\ lost \in 0 .. MaxTroubles
    /\ troubles \in 0 .. MaxTroubles

(***************************************************************************)
(* The data session's id is that of the control sub-session, the first the *)
(* device concludes, however its requests are repeated and reordered; but  *)
(* for a control sub-session with the number 0, which the code takes for   *)
(* no session: the video's conclusion then gives the id (session.py:749-   *)
(* 753).                                                                   *)
(***************************************************************************)
IdIsControls ==
    dataId # 0 /\ dev.seq["control"] # 0 => dataId = dev.seq["control"]

(***************************************************************************)
(* Once the device streams, the socket id the ACKs carry is the video      *)
(* sub-session's, in any order of arrival and with any datagram lost, as   *)
(* long as no induction is repeated while it is under way: the id is that  *)
(* of the last induction to arrive (session.py:740-747).                   *)
(***************************************************************************)
AcksTargetVideo == dev.answered = 4 /\ troubles = 0 => peerSocket = "video"
=============================================================================
