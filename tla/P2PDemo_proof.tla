---------------------------- MODULE P2PDemo_proof ----------------------------
(***************************************************************************)
(* The life of a P2P session and of its viewer, for any servers, ports,    *)
(* numbers, queues and troubles: what has returned has closed its socket,  *)
(* told its threads to end and killed its ffmpeg, the session's id is the  *)
(* control sub-session's, and ACKs go to the video sub-session's socket.   *)
(***************************************************************************)
EXTENDS P2PDemo, SequenceTheorems, TLAPS

USE DEF Trouble, Calm

\* The parts of DemoTypeOK.
CallOK ==
    /\ main \in {"wake", "config", "secret", "start", "punch", "play", "pause", "data", "check",
                 "up", "headers", "broken", "serving",
                 "closing", "join", "closed", "returned", "raised"}
    /\ page \in 0 .. Pages /\ failed \in BOOLEAN
    /\ main = "config" => page # 0
ThreadOK ==
    /\ sock \in {"none", "open", "closed"}
    /\ recv \in {"none", "running", "signal", "over"} /\ got \in {0, 2, 4}
    /\ ticker \in {"none", "running", "over"}
    /\ closeEvent \in BOOLEAN
PunchOK ==
    /\ peer \in Ports \cup {NoPort} /\ streamPort \in Ports \cup {NoPort}
    /\ punched \in BOOLEAN /\ punchEvent \in BOOLEAN /\ (punched => peer # NoPort)
SrtOK    == dataId \in Nat /\ dataEvent \in BOOLEAN /\ peerSocket \in Channels \cup {"none"}
FramesOK == frames \in Seq({"frame", "end"}) /\ Len(frames) <= FrameCap
DevOK    == dev \in Device
NetOK    == net \subseteq Datagram /\ nat \subseteq Ports
CountOK  == lost \in Nat /\ troubles \in Nat /\ lost + troubles <= MaxTroubles
ViewOK   ==
    /\ pump \in {"none", "reading", "writing", "over"}
    /\ ffmpeg \in {"none", "running", "over"}
    /\ stop \in BOOLEAN /\ input \in BOOLEAN /\ output \in BOOLEAN
    /\ viewer \in {"there", "gone"}
TypeInv == /\ CallOK /\ ThreadOK /\ PunchOK /\ SrtOK /\ FramesOK /\ DevOK /\ NetOK
           /\ CountOK /\ ViewOK

LEMMA Bounds ==
    /\ PublicPort \in Ports /\ NoPort \notin Ports /\ NoServer \notin Servers
    /\ FrameCap \in Nat /\ Tries \in Nat /\ MaxTroubles \in Nat /\ Pages \in Nat \ {0}
    /\ \A o \in Openings : o \in [Channels -> Nat]
BY P2PAssumption DEF P2PAssumption

LEMMA InvIsTyped == ASSUME TypeInv PROVE DemoTypeOK
<1>1. {peer, streamPort} \subseteq Ports \cup {NoPort}
  BY DEF TypeInv, PunchOK
<1>2. {punched, punchEvent, dataEvent, closeEvent} \subseteq BOOLEAN
  BY DEF TypeInv, PunchOK, SrtOK, ThreadOK
<1>3. {stop, input, output} \subseteq BOOLEAN
  BY DEF TypeInv, ViewOK
<1>4. lost \in 0 .. MaxTroubles /\ troubles \in 0 .. MaxTroubles
  BY Bounds DEF TypeInv, CountOK
<1>5. TypeOK
  BY <1>1, <1>2, <1>4 DEF TypeInv, CallOK, ThreadOK, PunchOK, SrtOK, FramesOK, DevOK, NetOK, TypeOK
<1> QED BY <1>3, <1>5 DEF TypeInv, ViewOK, DemoTypeOK

-----------------------------------------------------------------------------
LEMMA Datagrams ==
    /\ \A is \in {"setup", "relay", "play", "reply", "located", "punch", "request", "data"} :
          /\ Mail(is) \in Datagram /\ Mail(is).is = is /\ Mail(is).n = 0
          /\ ToAll(is) \subseteq Datagram /\ \A m \in ToAll(is) : m.is = is /\ m.n = 0
    /\ \A is \in {"request", "reply"}, n \in 0 .. 4 :
          Step(is, n) \in Datagram /\ Step(is, n).is = is /\ Step(is, n).n = n
BY DEF Mail, ToAll, Step, Datagram, ToServer, ToDevice, ToClient

LEMMA Pushed == ASSUME FramesOK, NEW f \in {"frame", "end"}, Push(f) PROVE FramesOK'
<1>1. CASE Len(frames) < FrameCap
  <2>1. frames' = Append(frames, f)
    BY <1>1 DEF Push
  <2> QED BY <1>1, <2>1, Bounds, AppendProperties, LenProperties DEF FramesOK
<1>2. CASE ~(Len(frames) < FrameCap)
  BY <1>2 DEF Push, FramesOK
<1> QED BY <1>1, <1>2

\* Where the client sends is one of the device's ports.
LEMMA Sends ==
    ASSUME NetOK, PunchOK, DevOK
    PROVE  dev.port \in Ports /\ Dest \in Ports /\ (punched => peer \in Ports)
BY Bounds DEF Dest, NetOK, PunchOK, DevOK, Device

\* A step of the caller, in connect(), start() or close().
LEMMA CallerTyped == ASSUME TypeInv, Connect \/ Close, UNCHANGED demoVars PROVE TypeInv'
<1> USE Bounds
<1>1. ViewOK' /\ SrtOK' /\ PunchOK' /\ DevOK'
  BY DEF TypeInv, ViewOK, SrtOK, PunchOK, DevOK, demoVars, Connect, Close, WakeDevice, GetConfig,
         GetSecret, BootstrapFails, Start, ContactServers, PunchSeen, HolePunch, SendPlayRequest,
         StartTicker, WaitForDataSession, CheckDataSession, CloseSocket, JoinThreads,
         BootVars, callVars, threadVars, punchVars, srtVars, netVars
<1>2. CallOK' /\ ThreadOK'
  <2>1. CASE WakeDevice \/ GetConfig \/ GetSecret \/ BootstrapFails
    BY <2>1 DEF TypeInv, CallOK, ThreadOK, WakeDevice, GetConfig, GetSecret, BootstrapFails,
                BootVars, threadVars
  <2>2. CASE ContactServers \/ PunchSeen \/ HolePunch \/ SendPlayRequest \/ StartTicker
    BY <2>2 DEF TypeInv, CallOK, ThreadOK, ContactServers, PunchSeen, HolePunch, SendPlayRequest,
                StartTicker, threadVars
  <2>3. CASE WaitForDataSession \/ CloseSocket \/ JoinThreads
    BY <2>3 DEF TypeInv, CallOK, ThreadOK, WaitForDataSession, CloseSocket, JoinThreads, threadVars
  <2>4. CASE CheckDataSession
    <3>1. failed' \in BOOLEAN /\ main' \in {"closing", "up"}
      BY <2>4, Zenon DEF CheckDataSession
    <3> QED BY <2>4, <3>1 DEF TypeInv, CallOK, ThreadOK, CheckDataSession
  <2> QED BY <2>1, <2>2, <2>3, <2>4 DEF Connect, Start, Close
<1>3. CountOK'
  BY DEF TypeInv, CountOK, Connect, Close, WakeDevice, GetConfig, TimesOut,
         GetSecret, BootstrapFails, Start, ContactServers, PunchSeen, HolePunch, SendPlayRequest,
         StartTicker, WaitForDataSession, CheckDataSession, CloseSocket, JoinThreads,
         BootVars, callVars, threadVars, punchVars, srtVars, netVars
<1>4. FramesOK'
  <2>1. CASE JoinThreads
    BY <2>1, Pushed DEF TypeInv, JoinThreads
  <2>2. CASE ~JoinThreads
    BY <2>2 DEF TypeInv, FramesOK, Connect, Close, WakeDevice, GetConfig,
         GetSecret, BootstrapFails, Start, ContactServers, PunchSeen, HolePunch, SendPlayRequest,
         StartTicker, WaitForDataSession, CheckDataSession, CloseSocket,
         BootVars
  <2> QED BY <2>1, <2>2
<1>5. NetOK'
  <2>1. CASE ContactServers
    BY <2>1, Datagrams DEF TypeInv, NetOK, ContactServers
  <2>2. CASE HolePunch
    BY <2>2, Sends DEF TypeInv, NetOK, PunchOK, HolePunch
  <2>3. CASE SendPlayRequest
    BY <2>3, Datagrams, Sends DEF TypeInv, NetOK, SendPlayRequest
  <2>4. CASE ~(ContactServers \/ HolePunch \/ SendPlayRequest)
    BY <2>4 DEF TypeInv, NetOK, Connect, Close, WakeDevice, GetConfig,
         GetSecret, BootstrapFails, Start, PunchSeen,
         StartTicker, WaitForDataSession, CheckDataSession, CloseSocket, JoinThreads,
         BootVars, netVars
  <2> QED BY <2>1, <2>2, <2>3, <2>4
<1> QED BY <1>1, <1>2, <1>3, <1>4, <1>5 DEF TypeInv

\* The receive thread takes a datagram.
LEMMA Answers ==
    ASSUME TypeInv, NEW m \in net, NEW ms \in SUBSET Datagram, NEW p \in Ports, Answer(m, ms, p)
    PROVE  /\ m \in Datagram /\ NetOK' /\ net' \subseteq net \cup ms
           /\ (UNCHANGED lost => CountOK') /\ recv = "running"
<1>1. PICK rest \in {net, net \ {m}} :
          /\ IF rest = net THEN m.is # "data" /\ Trouble ELSE Calm
          /\ net' = rest \cup (IF p = dev.port THEN ms ELSE {})
  BY DEF Answer
<1>2. m \in Datagram /\ net' \subseteq net \cup ms /\ nat' = nat \cup {p} /\ recv = "running"
  BY <1>1 DEF TypeInv, NetOK, Answer
<1>3. UNCHANGED lost => CountOK'
  BY <1>1, Bounds DEF TypeInv, CountOK
<1> QED BY <1>2, <1>3 DEF TypeInv, NetOK

LEMMA HandlerTyped ==
    ASSUME TypeInv, NEW m \in net, Handle(m), UNCHANGED demoVars PROVE TypeInv'
<1> USE Bounds
<1>1. ViewOK' /\ CallOK' /\ DevOK' /\ UNCHANGED <<sock, ticker, closeEvent, lost>>
  BY DEF Handle, TypeInv, ViewOK, CallOK, DevOK, demoVars, callVars
<1>2. m \in Datagram /\ m.n \in 0 .. 4
  BY DEF TypeInv, NetOK, Datagram
<1>3. dev.port \in Ports /\ Dest \in Ports
  BY Sends DEF TypeInv
<1>4. dev.seq[Channel(m.n)] \in Nat /\ Channel(m.n) \in Channels
  BY <1>2 DEF TypeInv, DevOK, Device, Channel, Channels
<1>5. Step("reply", m.n) \in Datagram
  BY <1>2, Datagrams
<1>6. CASE HandleSetupResponse(m)
  <2>1. NetOK' /\ CountOK'
    BY <1>1, <1>3, <1>6, Answers DEF HandleSetupResponse, Ignore
  <2> QED BY <1>1, <1>3, <1>6, <2>1
          DEF HandleSetupResponse, TypeInv, ThreadOK, PunchOK, SrtOK, FramesOK, srtVars
<1>7. CASE HandlePunchRequest(m)
  <2>1. NetOK' /\ CountOK'
    BY <1>1, <1>3, <1>7, Answers DEF HandlePunchRequest, Ignore
  <2> QED BY <1>1, <1>3, <1>7, <2>1
          DEF HandlePunchRequest, TypeInv, ThreadOK, PunchOK, SrtOK, FramesOK, srtVars
<1>8. CASE HandleInduction(m)
  <2>1. NetOK' /\ CountOK'
    BY <1>1, <1>3, <1>5, <1>8, Answers DEF HandleInduction
  <2> QED BY <1>1, <1>4, <1>8, <2>1
          DEF HandleInduction, SetPeerSocket, TypeInv, ThreadOK, PunchOK, SrtOK, FramesOK, punchVars
<1>9. CASE HandleConclusion(m)
  <2>1. NetOK' /\ CountOK'
    BY <1>1, <1>3, <1>5, <1>9, Answers DEF HandleConclusion, Conclude, Ignore
  <2> QED BY <1>1, <1>4, <1>9, <2>1
          DEF HandleConclusion, Conclude, TypeInv, ThreadOK, PunchOK, SrtOK, FramesOK, punchVars
<1>10. CASE HandleData(m)
  <2>1. NetOK' /\ CountOK'
    BY <1>1, <1>3, <1>10, Answers DEF HandleData, Ignore
  <2>2. FramesOK'
    BY <1>10, Pushed DEF HandleData, TypeInv, FramesOK
  <2> QED BY <1>1, <1>10, <2>1, <2>2
          DEF HandleData, TypeInv, ThreadOK, PunchOK, SrtOK, punchVars
<1> QED BY <1>6, <1>7, <1>8, <1>9, <1>10 DEF Handle

LEMMA ThreadsTyped ==
    ASSUME TypeInv, Signal \/ ReceiveEnds \/ TickerEnds, UNCHANGED demoVars PROVE TypeInv'
<1> USE Bounds
<1>1. CASE Signal
  <2>1. DevOK'
    BY <1>1 DEF Signal, TypeInv, DevOK, Device
  <2>2. NetOK'
    <3>1. Step("reply", got) \in Datagram
      BY Datagrams DEF TypeInv, ThreadOK
    <3>2. UNCHANGED <<net, nat>> \/ Send({Step("reply", got)}, Dest)
      BY <1>1 DEF Signal
    <3>3. \/ UNCHANGED <<net, nat>>
          \/ net' \subseteq net \cup {Step("reply", got)} /\ nat' = nat \cup {Dest}
      BY <3>2 DEF Send
    <3> QED BY <3>1, <3>3, Sends DEF TypeInv, NetOK
  <2>3. CallOK' /\ FramesOK' /\ CountOK' /\ ViewOK'
    BY <1>1 DEF Signal, TypeInv, CallOK, FramesOK, CountOK, ViewOK, callVars, demoVars
  <2>4. ThreadOK' /\ PunchOK' /\ SrtOK'
    BY <1>1 DEF Signal, TypeInv, ThreadOK, PunchOK, SrtOK
  <2> QED BY <2>1, <2>2, <2>3, <2>4 DEF TypeInv
<1>2. CASE ReceiveEnds
  <2>1. FramesOK'
    BY <1>2, Pushed DEF ReceiveEnds, TypeInv, FramesOK
  <2> QED BY <1>2, <2>1 DEF ReceiveEnds, TypeInv, CallOK, ThreadOK, PunchOK, SrtOK, DevOK, NetOK,
                            CountOK, ViewOK, callVars, punchVars, srtVars, netVars, demoVars
<1>3. CASE TickerEnds
  BY <1>3 DEF TickerEnds, TypeInv, CallOK, ThreadOK, PunchOK, SrtOK, FramesOK, DevOK, NetOK,
              CountOK, ViewOK, callVars, punchVars, srtVars, netVars, demoVars
<1> QED BY <1>1, <1>2, <1>3

LEMMA WorldTyped == ASSUME TypeInv, World, UNCHANGED demoVars PROVE TypeInv'
<1> USE Bounds
<1>1. CallOK' /\ ThreadOK' /\ PunchOK' /\ SrtOK' /\ FramesOK' /\ ViewOK' /\ nat' = nat
  BY DEF World, Lose, Delivered, Announce, Ask, Stream, SessionStill, TypeInv, CallOK, ThreadOK,
         PunchOK, SrtOK, FramesOK, ViewOK, callVars, threadVars, punchVars, srtVars, demoVars
<1>2. CountOK'
  BY DEF World, Lose, Delivered, Announce, Ask, Stream, TypeInv, CountOK
<1>3. CASE \E m \in net : Lose(m)
  <2>1. DevOK' /\ NetOK'
    BY <1>1, <1>3 DEF Lose, TypeInv, DevOK, NetOK
  <2> QED BY <1>1, <1>2, <2>1 DEF TypeInv
<1>4. CASE Delivered
  <2>1. PICK m \in net : Setup(m) \/ Deliver(m)
    BY <1>4 DEF Delivered
  <2>2. DevOK'
    <3>1. m.n \in 0 .. 4 /\ dev \in Device
      BY DEF TypeInv, DevOK, NetOK, Datagram
    <3>2. dev' \in {[dev EXCEPT !.told = TRUE], [dev EXCEPT !.played = TRUE],
                    [dev EXCEPT !.answered = m.n, !.tries = 0], dev}
      BY <2>1 DEF Setup, Deliver
    <3>3. [dev EXCEPT !.told = TRUE] \in Device /\ [dev EXCEPT !.played = TRUE] \in Device
      BY <3>1 DEF Device
    <3>4. [dev EXCEPT !.answered = m.n, !.tries = 0] \in Device
      <4>1. [dev EXCEPT !.answered = m.n] \in Device
        BY <3>1 DEF Device
      <4>2. \A d \in Device : [d EXCEPT !.tries = 0] \in Device
        BY DEF Device
      <4> QED BY <4>1, <4>2
    <3> QED BY <3>1, <3>2, <3>3, <3>4 DEF DevOK
  <2>3. NetOK'
    BY <1>1, <2>1, Datagrams DEF Setup, Deliver, TypeInv, NetOK
  <2> QED BY <1>1, <1>2, <2>2, <2>3 DEF TypeInv
<1>5. CASE Announce
  <2>1. DevOK'
    BY <1>5 DEF Announce, Announces, TypeInv, DevOK, Device
  <2>2. NetOK'
    BY <1>1, <1>5, Datagrams DEF Announce, TypeInv, NetOK
  <2> QED BY <1>1, <1>2, <2>1, <2>2 DEF TypeInv
<1>6. CASE Ask
  <2>1. DevOK'
    BY <1>6 DEF Ask, Asks, TypeInv, DevOK, Device
  <2>2. dev.answered + 1 \in 0 .. 4
    BY <1>6 DEF Ask, Asks, TypeInv, DevOK, Device
  <2>3. NetOK'
    BY <1>1, <1>6, <2>2, Datagrams DEF Ask, TypeInv, NetOK
  <2> QED BY <1>1, <1>2, <2>1, <2>3 DEF TypeInv
<1>7. CASE Stream
  <2>1. DevOK' /\ NetOK'
    BY <1>1, <1>7, Datagrams DEF Stream, TypeInv, DevOK, NetOK
  <2> QED BY <1>1, <1>2, <2>1 DEF TypeInv
<1> QED BY <1>3, <1>4, <1>5, <1>6, <1>7 DEF World

LEMMA ViewTyped ==
    ASSUME TypeInv, Handler \/ Pump \/ Remux \/ FfmpegEnds \/ Leave PROVE TypeInv'
<1> USE Bounds
<1>1. ThreadOK' /\ PunchOK' /\ SrtOK' /\ DevOK' /\ NetOK'
  BY DEF Handler, StartPump, SendHeaders, Serve, EndOfOutput, KillFfmpeg, Pump, PumpReads,
         PumpWrites, Remux, FfmpegEnds, Leave, RestVars, sessionVars, callVars, threadVars,
         punchVars, srtVars, netVars, TypeInv, ThreadOK, PunchOK, SrtOK, DevOK, NetOK
<1>2. CallOK' /\ CountOK'
  BY DEF Handler, StartPump, SendHeaders, Serve, EndOfOutput, KillFfmpeg, Pump, PumpReads,
         PumpWrites, Remux, FfmpegEnds, Leave, RestVars, sessionVars, callVars, netVars,
         TypeInv, CallOK, CountOK
<1>3. ViewOK'
  BY DEF Handler, StartPump, SendHeaders, Serve, EndOfOutput, KillFfmpeg, Pump, PumpReads,
         PumpWrites, Remux, FfmpegEnds, Leave, Again, demoVars, TypeInv, ViewOK
<1>4. FramesOK'
  <2>1. CASE frames' = frames
    BY <2>1 DEF TypeInv, FramesOK
  <2>2. CASE frames # <<>> /\ frames' = Tail(frames)
    BY <2>2, HeadTailProperties, LenProperties DEF TypeInv, FramesOK
  <2>3. frames' = frames \/ (frames # <<>> /\ frames' = Tail(frames))
    BY DEF Handler, StartPump, SendHeaders, Serve, EndOfOutput, KillFfmpeg, Pump, PumpReads,
           PumpWrites, Remux, FfmpegEnds, Leave, sessionVars
  <2> QED BY <2>1, <2>2, <2>3
<1> QED BY <1>1, <1>2, <1>3, <1>4 DEF TypeInv

LEMMA TypeInitial == DemoInit => TypeInv
<1> SUFFICES ASSUME DemoInit PROVE TypeInv
  OBVIOUS
<1> USE Bounds
<1>1. frames = <<>> /\ frames \in Seq({"frame", "end"}) /\ Len(frames) = 0
  BY DEF DemoInit, Init
<1>2. FramesOK /\ DevOK /\ NetOK /\ CountOK
  BY <1>1 DEF DemoInit, Init, FramesOK, DevOK, NetOK, CountOK
<1>3. CallOK /\ ThreadOK
  <2>1. main = "wake" /\ page = 0 /\ failed = FALSE
    BY DEF DemoInit, Init
  <2>2. CallOK
    <3>1. 0 \in 0 .. Pages
      BY Bounds
    <3>2. failed \in BOOLEAN
      BY <2>1
    <3> HIDE Bounds
    <3> QED BY <2>1, <3>1, <3>2 DEF CallOK
  <2>3. ThreadOK
    BY DEF DemoInit, Init, ThreadOK
  <2> QED BY <2>2, <2>3
<1>4. PunchOK /\ SrtOK /\ ViewOK
  BY DEF DemoInit, Init, PunchOK, SrtOK, ViewOK
<1> QED BY <1>2, <1>3, <1>4 DEF TypeInv

LEMMA TypeInductive == TypeInv /\ [DemoNext]_vars => TypeInv'
<1> SUFFICES ASSUME TypeInv, [DemoNext]_vars PROVE TypeInv'
  OBVIOUS
<1>1. CASE UNCHANGED vars
  BY <1>1 DEF vars, sessionVars, demoVars, callVars, threadVars, punchVars, srtVars, netVars,
              TypeInv, CallOK, ThreadOK, PunchOK, SrtOK, FramesOK, DevOK, NetOK, CountOK, ViewOK
<1>2. CASE Session /\ UNCHANGED demoVars
  BY <1>2, CallerTyped, HandlerTyped, ThreadsTyped, WorldTyped DEF Session, Receive
<1>3. CASE Handler \/ Pump \/ Remux \/ FfmpegEnds \/ Leave
  BY <1>3, ViewTyped
<1> QED BY <1>1, <1>2, <1>3 DEF DemoNext

\* Every variable keeps its type, for any servers, ports, numbers, queues and bounds.
THEOREM TypeCorrect == Spec => []DemoTypeOK
<1>1. TypeInv => DemoTypeOK
  BY InvIsTyped
<1> QED BY <1>1, TypeInitial, TypeInductive, PTL DEF Spec

-----------------------------------------------------------------------------
(***************************************************************************)
(* What is open at each place of the caller.                               *)
(***************************************************************************)
NoThreads == recv = "none" /\ ticker = "none"

BringUpInv ==
    /\ main \in {"wake", "config", "secret"} => sock = "none" /\ recv = "none"
    /\ main \in {"start", "punch", "play", "pause", "data", "check", "up", "headers", "serving",
                 "broken", "closing"} => sock = "open"
    /\ main = "start" => recv = "none"
    /\ main \in {"wake", "config", "secret", "start", "punch", "play", "pause"} => ticker = "none"
    /\ main \in {"wake", "config", "secret", "start", "punch", "play", "pause", "data", "check",
                 "up", "headers", "serving", "broken"} => ~failed
CloseInv ==
    /\ main \in {"join", "closed", "returned"} => sock = "closed" /\ closeEvent
    /\ main \in {"closing", "join"} /\ ~failed => stop
    /\ main \in {"closed", "returned"} => stop
    /\ main = "returned" => ffmpeg = "over"
    /\ main = "raised" => (sock = "closed" /\ closeEvent) \/ (sock = "none" /\ NoThreads)

LifeInv == BringUpInv /\ CloseInv

LEMMA CallerLife ==
    ASSUME TypeInv, LifeInv, Connect \/ Close, UNCHANGED demoVars PROVE LifeInv'
<1> USE DEF LifeInv, NoThreads
<1>1. CASE WakeDevice \/ GetConfig \/ GetSecret \/ BootstrapFails
  BY <1>1 DEF BringUpInv, CloseInv, WakeDevice, GetConfig, GetSecret, BootstrapFails, BootVars,
              threadVars
<1>2. CASE ContactServers \/ PunchSeen \/ HolePunch \/ SendPlayRequest \/ StartTicker
  BY <1>2 DEF BringUpInv, CloseInv, ContactServers, PunchSeen, HolePunch, SendPlayRequest,
              StartTicker, threadVars
<1>3. CASE WaitForDataSession
  BY <1>3 DEF BringUpInv, CloseInv, WaitForDataSession, threadVars
<1>4. CASE CheckDataSession
  <2>1. /\ sock = "open" /\ UNCHANGED <<sock, recv, ticker>>
        /\ main' = (IF failed' THEN "closing" ELSE "up")
    BY <1>4 DEF BringUpInv, CheckDataSession
  <2> QED BY <2>1 DEF BringUpInv, CloseInv
<1>5. CASE CloseSocket
  BY <1>5 DEF BringUpInv, CloseInv, CloseSocket, demoVars, threadVars
<1>6. CASE JoinThreads
  <2>1. stop' = stop /\ UNCHANGED <<sock, closeEvent, failed>>
    BY <1>6 DEF JoinThreads, demoVars
  <2>2. main = "join" /\ main' = (IF failed THEN "raised" ELSE "closed")
    BY <1>6 DEF JoinThreads
  <2> QED BY <2>1, <2>2 DEF BringUpInv, CloseInv
<1> QED BY <1>1, <1>2, <1>3, <1>4, <1>5, <1>6 DEF Connect, Start, Close

LEMMA SessionLife ==
    ASSUME LifeInv, (\E m \in net : Handle(m)) \/ Signal \/ ReceiveEnds \/ TickerEnds \/ World,
           UNCHANGED demoVars
    PROVE  LifeInv'
<1>1. UNCHANGED <<main, sock, failed, closeEvent, stop, ffmpeg>>
  BY DEF Handle, Signal, ReceiveEnds, TickerEnds, World, Lose, Delivered, Announce, Ask, Stream,
         SessionStill, callVars, demoVars
<1>2. recv \in {"none", "over"} => UNCHANGED recv
  <2>1. ASSUME NEW m \in net, Handle(m), recv \in {"none", "over"} PROVE FALSE
    BY <2>1 DEF Handle, HandleSetupResponse, HandlePunchRequest, HandleInduction,
                HandleConclusion, Conclude, HandleData, Ignore, Answer
  <2>2. Signal \/ ReceiveEnds \/ TickerEnds \/ World =>
            UNCHANGED recv \/ recv \in {"running", "signal"}
    BY DEF Signal, ReceiveEnds, TickerEnds, World, Lose, Delivered, Announce, Ask, Stream,
           SessionStill, threadVars
  <2> QED BY <2>1, <2>2
<1>3. ticker' = ticker \/ (ticker = "running" /\ ticker' = "over")
  BY DEF Handle, Signal, ReceiveEnds, TickerEnds, World, Lose, Delivered, Announce, Ask, Stream,
         SessionStill, threadVars
<1> QED BY <1>1, <1>2, <1>3 DEF LifeInv, BringUpInv, CloseInv, NoThreads

LEMMA ViewLife ==
    ASSUME LifeInv, Handler \/ Pump \/ Remux \/ FfmpegEnds \/ Leave PROVE LifeInv'
<1>1. UNCHANGED <<sock, recv, ticker, failed, closeEvent>>
  BY DEF Handler, StartPump, SendHeaders, Serve, EndOfOutput, KillFfmpeg, Pump, PumpReads,
         PumpWrites, Remux, FfmpegEnds, Leave, RestVars, sessionVars, callVars, threadVars
<1>2. CASE Handler
  BY <1>1, <1>2 DEF Handler, StartPump, SendHeaders, Serve, EndOfOutput, KillFfmpeg, demoVars,
                    LifeInv, BringUpInv, CloseInv, NoThreads
<1>3. CASE Pump \/ Remux \/ FfmpegEnds \/ Leave
  <2>1. UNCHANGED <<main, stop>> /\ (ffmpeg = "over" => ffmpeg' = "over")
    BY <1>3 DEF Pump, PumpReads, PumpWrites, Remux, FfmpegEnds, Leave, sessionVars, callVars
  <2> QED BY <1>1, <2>1 DEF LifeInv, BringUpInv, CloseInv, NoThreads
<1> QED BY <1>2, <1>3

LEMMA LifeInitial == DemoInit => LifeInv
BY DEF DemoInit, Init, LifeInv, BringUpInv, CloseInv

LEMMA LifeInductive == TypeInv /\ LifeInv /\ [DemoNext]_vars => LifeInv'
<1> SUFFICES ASSUME TypeInv, LifeInv, [DemoNext]_vars PROVE LifeInv'
  OBVIOUS
<1>1. CASE UNCHANGED vars
  BY <1>1 DEF vars, sessionVars, demoVars, callVars, threadVars, LifeInv, BringUpInv, CloseInv,
              NoThreads
<1>2. CASE Session /\ UNCHANGED demoVars
  BY <1>2, CallerLife, SessionLife DEF Session, Receive
<1> QED BY <1>1, <1>2, ViewLife DEF DemoNext

\* A handler that returned, or a connect() that raised, leaves no open socket and no ffmpeg,
\* and has told its threads to end, for any network and device (session.py:239-256,
\* client.py:107-112, demo.py:156-161).
THEOREM LeavesNothing == Spec => []NothingLeftOpen
<1>1. LifeInv => NothingLeftOpen
  BY DEF LifeInv, CloseInv, NoThreads, NothingLeftOpen
<1> QED BY <1>1, TypeInitial, TypeInductive, LifeInitial, LifeInductive, PTL DEF Spec

-----------------------------------------------------------------------------
(***************************************************************************)
(* The device's requests and the client's replies.  Number n is under way  *)
(* in at most one of three places: as a request, in the receive thread, as *)
(* a reply; unless something was repeated, only the next one is.           *)
(***************************************************************************)
Req(n) == Step("request", n) \in net
Rep(n) == Step("reply", n) \in net
Steps(ms) == {m \in ms : m.is \in {"request", "reply"}}

PlainInv == \A m \in Steps(net) : m = Step(m.is, m.n)
IdleInv  == recv # "signal" => got = 0

IdInv ==
    /\ \A n \in 3 .. 4 : Req(n) => dev.answered >= 2
    /\ dev.seq["control"] # 0 =>
          /\ dataId \in {0, dev.seq["control"]}
          /\ (dev.answered >= 2 \/ got # 0 \/ \E n \in 2 .. 4 : Rep(n)) =>
                dataId = dev.seq["control"]

SoloInv ==
    troubles = 0 =>
       /\ \A n \in 0 .. 4 : Req(n) => n = dev.answered + 1 /\ ~Rep(n) /\ got # n
       /\ \A n \in 0 .. 4 : Rep(n) => n = dev.answered + 1 /\ got # n
       /\ got # 0 => got = dev.answered + 1
       /\ (dev.answered >= 3 \/ got = 4 \/ Rep(3)) => peerSocket = "video"

NumberInv == PlainInv /\ IdleInv /\ IdInv /\ SoloInv

LEMMA Parts ==
    /\ \A is, n : Step(is, n).is = is /\ Step(is, n).n = n
    /\ \A n, k : Step("request", n) # Step("reply", k)
    /\ \A is, n, k : Step(is, n) = Step(is, k) => n = k
BY DEF Step

LEMMA Counts ==
    ASSUME TypeInv
    PROVE  /\ dev.answered \in 0 .. 4 /\ got \in {0, 2, 4} /\ dataId \in Nat
           /\ dev.seq["control"] \in Nat /\ dev.seq["video"] \in Nat /\ dev \in Device
           /\ troubles \in Nat /\ lost \in Nat
BY Bounds DEF TypeInv, DevOK, ThreadOK, SrtOK, CountOK, Device, Channels

\* A step that sends no request and no reply, and concludes none.
LEMMA QuietStep ==
    ASSUME TypeInv, NumberInv, Steps(net') \subseteq net,
           UNCHANGED <<dataId, peerSocket>>, dev'.answered = dev.answered, dev'.seq = dev.seq,
           got' = got, recv' # "signal" => got = 0, troubles' = 0 => troubles = 0
    PROVE  NumberInv'
<1>1. \A n : (Req(n)' => Req(n)) /\ (Rep(n)' => Rep(n))
  BY Parts DEF Req, Rep, Steps
<1>2. PlainInv' /\ IdleInv'
  BY DEF NumberInv, PlainInv, IdleInv, Steps
<1>3. IdInv'
  BY <1>1 DEF NumberInv, IdInv
<1>4. SoloInv'
  BY <1>1 DEF NumberInv, SoloInv
<1> QED BY <1>2, <1>3, <1>4 DEF NumberInv

LEMMA NoRepeat ==
    ASSUME TypeInv, Trouble \/ Calm
    PROVE  troubles' = 0 => Calm /\ troubles = 0
BY Counts

LEMMA CallerNumbers ==
    ASSUME TypeInv, LifeInv, NumberInv, Connect \/ Close PROVE NumberInv'
<1>1. UNCHANGED <<dataId, peerSocket, dev, got>> /\ (Trouble \/ Calm)
  BY DEF Connect, Close, WakeDevice, GetConfig, TimesOut,
         GetSecret, BootstrapFails, Start, ContactServers, PunchSeen, HolePunch, SendPlayRequest,
         StartTicker, WaitForDataSession, CheckDataSession, CloseSocket, JoinThreads,
         BootVars, threadVars, srtVars, netVars
<1>2. recv' # "signal" => got = 0
  BY DEF NumberInv, IdleInv, LifeInv, BringUpInv, Connect, Close, WakeDevice, GetConfig,
         GetSecret, BootstrapFails, Start, ContactServers, PunchSeen, HolePunch, SendPlayRequest,
         StartTicker, WaitForDataSession, CheckDataSession, CloseSocket, JoinThreads,
         BootVars, threadVars
<1>3. Steps(net') \subseteq net
  <2>1. CASE ContactServers
    BY <2>1, Datagrams DEF ContactServers, Steps
  <2>2. CASE SendPlayRequest
    BY <2>2, Datagrams DEF SendPlayRequest, Steps
  <2>3. CASE ~(ContactServers \/ SendPlayRequest)
    <3>1. net' = net
      BY <2>3 DEF Connect, Close, WakeDevice, GetConfig, GetSecret, BootstrapFails, Start,
         PunchSeen, HolePunch, StartTicker, WaitForDataSession, CheckDataSession, CloseSocket,
         JoinThreads, BootVars, netVars
    <3> QED BY <3>1 DEF Steps
  <2> QED BY <2>1, <2>2, <2>3
<1> QED BY <1>1, <1>2, <1>3, NoRepeat, QuietStep

\* What the receive thread's answer leaves under way: without a repetition, not m itself.
LEMMA AnswerLeaves ==
    ASSUME TypeInv, NEW m \in net, NEW ms, NEW p, Answer(m, ms, p)
    PROVE  /\ net' \subseteq net \cup ms /\ (Trouble \/ Calm) /\ recv = "running"
           /\ troubles' = 0 => troubles = 0 /\ net' \subseteq (net \ {m}) \cup ms
<1>1. PICK rest \in {net, net \ {m}} :
          /\ IF rest = net THEN m.is # "data" /\ Trouble ELSE Calm
          /\ net' = rest \cup (IF p = dev.port THEN ms ELSE {})
  BY DEF Answer
<1>2. net' \subseteq net \cup ms /\ (Trouble \/ Calm) /\ recv = "running"
  BY <1>1 DEF Answer
<1>3. troubles' = 0 => troubles = 0 /\ rest = net \ {m}
  BY <1>1, Counts
<1> QED BY <1>1, <1>2, <1>3

LEMMA InductionNumbers ==
    ASSUME TypeInv, NumberInv, NEW m \in net, Handle(m), HandleInduction(m) PROVE NumberInv'
<1> DEFINE n == m.n
<1>1. n \in {1, 3} /\ Req(n) /\ m = Step("request", n)
  BY DEF HandleInduction, NumberInv, PlainInv, Steps, Req
<1>2. /\ net' \subseteq net \cup {Step("reply", n)}
      /\ troubles' = 0 => troubles = 0 /\ net' \subseteq (net \ {m}) \cup {Step("reply", n)}
  BY AnswerLeaves DEF HandleInduction
<1>3. UNCHANGED <<dataId, dev, got, recv>> /\ peerSocket' = Channel(n) /\ recv = "running"
  BY AnswerLeaves DEF HandleInduction, SetPeerSocket, Handle
<1>4. got = 0
  BY <1>3 DEF NumberInv, IdleInv
<1> HIDE DEF n
<1>5. \A k : (Req(k)' => Req(k)) /\ (Rep(k)' => Rep(k) \/ k = n)
             /\ (troubles' = 0 /\ Req(k)' => k # n)
  BY <1>1, <1>2, Parts DEF Req, Rep
<1>6. PlainInv' /\ IdleInv'
  BY <1>2, <1>3, <1>4, Parts DEF NumberInv, PlainInv, IdleInv, Steps
<1>7. IdInv'
  BY <1>1, <1>3, <1>4, <1>5, Counts DEF NumberInv, IdInv
<1>8. SoloInv'
  <2> SUFFICES ASSUME troubles' = 0 PROVE SoloInv'
    BY DEF SoloInv
  <2>1. troubles = 0 /\ n = dev.answered + 1 /\ ~Rep(n)
    BY <1>1, <1>2 DEF NumberInv, SoloInv
  <2>2. /\ \A k \in 0 .. 4 : Req(k)' => FALSE
        /\ \A k \in 0 .. 4 : Rep(k)' => k = n
    BY <1>5, <2>1 DEF NumberInv, SoloInv
  <2>3. dev.answered >= 3 \/ Rep(3)' => peerSocket' = "video"
    BY <1>1, <1>3, <2>1, <2>2, Counts DEF Channel
  <2> QED BY <1>1, <1>3, <1>4, <2>1, <2>2, <2>3 DEF SoloInv
<1> QED BY <1>6, <1>7, <1>8 DEF NumberInv

LEMMA ConclusionNumbers ==
    ASSUME TypeInv, NumberInv, NEW m \in net, Handle(m), HandleConclusion(m) PROVE NumberInv'
<1> DEFINE n == m.n
           c == dev.seq["control"]
<1>1. n \in {2, 4} /\ Req(n) /\ m = Step("request", n)
  BY DEF HandleConclusion, NumberInv, PlainInv, Steps, Req
<1>2. UNCHANGED <<dev, peerSocket>> /\ recv = "running"
  BY AnswerLeaves DEF HandleConclusion, Conclude, Ignore, Handle
<1>3. got = 0
  BY <1>2 DEF NumberInv, IdleInv
<1>4. n = 4 => dev.answered >= 2
  BY <1>1 DEF NumberInv, IdInv
<1>5. /\ c \in Nat /\ dataId \in Nat /\ dev.answered \in 0 .. 4
      /\ c # 0 => dataId \in {0, c} /\ (dev.answered >= 2 => dataId = c)
  BY Counts DEF NumberInv, IdInv
<1>6. troubles = 0 => n = dev.answered + 1
  BY <1>1 DEF NumberInv, SoloInv
<1>7. CASE dataId = 0
  <2>1. dataId' = dev.seq[Channel(n)] /\ recv' = "signal" /\ got' = n
    BY <1>7 DEF HandleConclusion, Conclude
  <2>2. net' \subseteq net /\ (troubles' = 0 => troubles = 0 /\ net' \subseteq net \ {m})
    BY <1>7, AnswerLeaves DEF HandleConclusion, Conclude, Ignore
  <2>3. \A k : (Req(k)' => Req(k)) /\ (Rep(k)' => Rep(k)) /\ (troubles' = 0 /\ Req(k)' => k # n)
    BY <1>1, <2>2, Parts DEF Req, Rep
  <2>4. PlainInv' /\ IdleInv'
    BY <2>1, <2>2 DEF NumberInv, PlainInv, IdleInv, Steps
  <2>5. c # 0 => n = 2 /\ dataId' = c
    BY <1>1, <1>4, <1>5, <1>7, <2>1 DEF Channel
  <2> HIDE DEF n
  <2>6. IdInv'
    BY <1>2, <2>3, <2>5 DEF NumberInv, IdInv
  <2>7. SoloInv'
    <3> SUFFICES ASSUME troubles' = 0 PROVE SoloInv'
      BY DEF SoloInv
    <3>1. troubles = 0 /\ n = dev.answered + 1 /\ ~Rep(n)
      BY <1>1, <1>6, <2>2 DEF NumberInv, SoloInv
    <3>2. \A k \in 0 .. 4 : (Req(k)' => FALSE) /\ (Rep(k)' => FALSE)
      BY <2>3, <3>1 DEF NumberInv, SoloInv
    <3>3. n = 4 => dev.answered >= 3
      BY <1>5, <3>1
    <3>4. dev.answered >= 3 \/ Rep(3) => peerSocket = "video"
      BY <3>1 DEF NumberInv, SoloInv
    <3> QED BY <1>2, <2>1, <3>1, <3>2, <3>3, <3>4 DEF SoloInv
  <2> QED BY <2>4, <2>6, <2>7 DEF NumberInv
<1>8. CASE dataId # 0
  <2>1. UNCHANGED <<dataId, recv, got>>
    BY <1>8 DEF HandleConclusion, Conclude
  <2>2. /\ net' \subseteq net \cup {Step("reply", n)}
        /\ troubles' = 0 => troubles = 0 /\ net' \subseteq (net \ {m}) \cup {Step("reply", n)}
    BY <1>8, AnswerLeaves DEF HandleConclusion, Conclude
  <2> HIDE DEF n
  <2>3. \A k : (Req(k)' => Req(k)) /\ (Rep(k)' => Rep(k) \/ k = n)
               /\ (troubles' = 0 /\ Req(k)' => k # n)
    BY <1>1, <2>2, Parts DEF Req, Rep
  <2>4. PlainInv' /\ IdleInv'
    BY <2>1, <2>2, Parts DEF NumberInv, PlainInv, IdleInv, Steps
  <2>5. IdInv'
    BY <1>2, <1>5, <1>8, <2>1, <2>3 DEF NumberInv, IdInv
  <2>6. SoloInv'
    <3> SUFFICES ASSUME troubles' = 0 PROVE SoloInv'
      BY DEF SoloInv
    <3>1. troubles = 0 /\ n = dev.answered + 1 /\ ~Rep(n)
      BY <1>1, <1>6, <2>2 DEF NumberInv, SoloInv
    <3>2. \A k \in 0 .. 4 : (Req(k)' => FALSE) /\ (Rep(k)' => k = n)
      BY <2>3, <3>1 DEF NumberInv, SoloInv
    <3>3. dev.answered >= 3 => peerSocket = "video"
      BY <3>1 DEF NumberInv, SoloInv
    <3> QED BY <1>1, <1>2, <1>3, <2>1, <3>1, <3>2, <3>3 DEF SoloInv
  <2> QED BY <2>4, <2>5, <2>6 DEF NumberInv
<1> QED BY <1>7, <1>8

LEMMA HandleNumbers ==
    ASSUME TypeInv, NumberInv, NEW m \in net, Handle(m) PROVE NumberInv'
<1>1. CASE HandleSetupResponse(m) \/ HandlePunchRequest(m) \/ HandleData(m)
  <2>1. /\ net' \subseteq net /\ recv = "running" /\ (Trouble \/ Calm)
    BY <1>1, AnswerLeaves DEF HandleSetupResponse, HandlePunchRequest, HandleData, Ignore
  <2>2. got = 0
    BY <2>1 DEF NumberInv, IdleInv
  <2>3. UNCHANGED <<dataId, peerSocket, dev, got>>
    BY <1>1, <2>2 DEF Handle, HandleSetupResponse, HandlePunchRequest, HandleData, srtVars
  <2>4. Steps(net') \subseteq net
    BY <2>1 DEF Steps
  <2> QED BY <2>1, <2>2, <2>3, <2>4, NoRepeat, QuietStep
<1> QED BY <1>1, InductionNumbers, ConclusionNumbers DEF Handle

LEMMA SignalNumbers == ASSUME TypeInv, NumberInv, Signal PROVE NumberInv'
<1>1. /\ UNCHANGED <<dataId, peerSocket, troubles>> /\ recv' = "running" /\ got' = 0
      /\ dev'.answered = dev.answered /\ dev'.seq = dev.seq
  BY Counts DEF Signal, Device
<1>2. CASE got = 0
  <2>1. net' = net
    BY <1>2 DEF Signal
  <2>2. Steps(net') \subseteq net
    BY <2>1 DEF Steps
  <2> QED BY <1>1, <1>2, <2>2, QuietStep
<1>3. CASE got # 0
  <2>1. Send({Step("reply", got)}, Dest)
    BY <1>3 DEF Signal
  <2>2. net' \subseteq net \cup {Step("reply", got)}
    BY <2>1 DEF Send
  <2>3. \A k : (Req(k)' => Req(k)) /\ (Rep(k)' => Rep(k) \/ k = got)
    BY <2>2, Parts DEF Req, Rep
  <2>4. PlainInv' /\ IdleInv'
    BY <1>1, <2>2, Parts DEF NumberInv, PlainInv, IdleInv, Steps
  <2>5. IdInv'
    BY <1>1, <1>3, <2>3 DEF NumberInv, IdInv
  <2>6. SoloInv'
    BY <1>1, <1>3, <2>3, Counts DEF NumberInv, SoloInv
  <2> QED BY <2>4, <2>5, <2>6 DEF NumberInv
<1> QED BY <1>2, <1>3

LEMMA DeliverNumbers ==
    ASSUME TypeInv, NumberInv, NEW m \in net, m.is = "reply", Deliver(m),
           UNCHANGED <<dataId, peerSocket, got, recv, troubles>>
    PROVE  NumberInv'
<1> DEFINE n == m.n
<1>1. Rep(n) /\ m = Step("reply", n) /\ net' = net \ {m} /\ n \in 0 .. 4
  BY DEF NumberInv, PlainInv, Steps, Rep, Deliver, TypeInv, NetOK, Datagram
<1>2. CASE n = dev.answered + 1
  <2>1. dev'.answered = n /\ dev'.seq = dev.seq
    BY <1>2, Counts DEF Deliver, Device
  <2> HIDE DEF n
  <2>2. \A k : (Req(k)' => Req(k)) /\ (Rep(k)' => Rep(k) /\ k # n)
    BY <1>1, Parts DEF Req, Rep
  <2>3. PlainInv' /\ IdleInv'
    BY <1>1 DEF NumberInv, PlainInv, IdleInv, Steps
  <2>4. IdInv'
    <3>1. /\ \A k \in 3 .. 4 : Req(k)' => dev'.answered >= 2
      BY <1>2, <2>1, <2>2, Counts DEF NumberInv, IdInv
    <3>2. dev.seq["control"] # 0 /\ n >= 2 => dataId = dev.seq["control"]
      BY <1>1 DEF NumberInv, IdInv
    <3> QED BY <2>1, <2>2, <3>1, <3>2 DEF NumberInv, IdInv
  <2>5. SoloInv'
    <3> SUFFICES ASSUME troubles = 0 PROVE SoloInv'
      BY DEF SoloInv
    <3>1. got = 0
      BY <1>1, <1>2 DEF NumberInv, SoloInv
    <3>2. \A k \in 0 .. 4 : (Req(k)' => FALSE) /\ (Rep(k)' => FALSE)
      BY <1>1, <1>2, <2>2 DEF NumberInv, SoloInv
    <3>3. n >= 3 => peerSocket = "video"
      BY <1>1, <1>2, Counts DEF NumberInv, SoloInv
    <3> QED BY <2>1, <3>1, <3>2, <3>3 DEF SoloInv
  <2> QED BY <2>3, <2>4, <2>5 DEF NumberInv
<1>3. CASE n # dev.answered + 1
  <2>1. dev' = dev /\ Steps(net') \subseteq net
    BY <1>1, <1>3 DEF Deliver, Steps
  <2> QED BY <2>1, QuietStep DEF NumberInv, IdleInv
<1> QED BY <1>2, <1>3

LEMMA AskNumbers == ASSUME TypeInv, NumberInv, Ask PROVE NumberInv'
<1> DEFINE n == dev.answered + 1
<1>1. /\ net' = net \cup {Step("request", n)} /\ n \in 1 .. 4
      /\ UNCHANGED <<dataId, peerSocket, got, recv>>
  BY Counts DEF Ask, Asks, SessionStill, srtVars, threadVars
<1>2. dev'.answered = dev.answered /\ dev'.seq = dev.seq
  BY Counts DEF Ask, Device
<1>3. troubles' = 0 => troubles = 0 /\ ~Req(n) /\ ~Rep(n) /\ recv # "signal"
  BY Counts DEF Ask, Req, Rep
<1> HIDE DEF n
<1>4. \A k : (Req(k)' => Req(k) \/ k = n) /\ (Rep(k)' => Rep(k))
  BY <1>1, Parts DEF Req, Rep
<1>5. PlainInv' /\ IdleInv'
  BY <1>1, Parts DEF NumberInv, PlainInv, IdleInv, Steps
<1>6. IdInv'
  BY <1>1, <1>2, <1>4, Counts DEF NumberInv, IdInv, n
<1>7. SoloInv'
  <2> SUFFICES ASSUME troubles' = 0 PROVE SoloInv'
    BY DEF SoloInv
  <2>1. troubles = 0 /\ ~Rep(n) /\ got = 0
    BY <1>3 DEF NumberInv, IdleInv
  <2>2. /\ \A k \in 0 .. 4 : Req(k)' => k = n
        /\ \A k \in 0 .. 4 : Rep(k)' => FALSE
    BY <1>4, <2>1 DEF NumberInv, SoloInv, n
  <2>3. dev.answered >= 3 => peerSocket = "video"
    BY <2>1 DEF NumberInv, SoloInv
  <2> QED BY <1>1, <1>2, <2>1, <2>2, <2>3 DEF SoloInv, n
<1> QED BY <1>5, <1>6, <1>7 DEF NumberInv

LEMMA WorldNumbers == ASSUME TypeInv, NumberInv, World PROVE NumberInv'
<1>1. UNCHANGED <<dataId, peerSocket, got, recv>> /\ (recv' # "signal" => got = 0)
      /\ (Trouble \/ Calm)
  BY DEF World, Lose, Delivered, Announce, Ask, Stream, SessionStill, srtVars, threadVars,
         NumberInv, IdleInv
<1>2. CASE \E m \in net : Lose(m)
  <2>1. dev' = dev /\ Steps(net') \subseteq net
    BY <1>2 DEF Lose, Steps
  <2> QED BY <1>1, <2>1, NoRepeat, QuietStep
<1>3. CASE Delivered
  <2>1. PICK m \in net : Setup(m) \/ (m.is \in ToDevice \cup {"relay"} /\ Deliver(m))
    BY <1>3 DEF Delivered
  <2>2. CASE Setup(m)
    <3>1. dev'.answered = dev.answered /\ dev'.seq = dev.seq
      BY <2>2, Counts DEF Setup, Device
    <3>2. Steps(net') \subseteq net
      BY <2>2, Datagrams DEF Setup, Steps
    <3> QED BY <1>1, <3>1, <3>2, NoRepeat, QuietStep
  <2>3. CASE m.is \in {"relay", "play"} /\ Deliver(m)
    <3>1. dev'.answered = dev.answered /\ dev'.seq = dev.seq
      BY <2>3, Counts DEF Deliver, Device
    <3>2. Steps(net') \subseteq net
      BY <2>3 DEF Deliver, Steps
    <3> QED BY <1>1, <3>1, <3>2, NoRepeat, QuietStep
  <2>4. CASE m.is = "reply" /\ Deliver(m)
    BY <1>1, <1>3, <2>4, DeliverNumbers DEF Delivered
  <2> QED BY <2>1, <2>2, <2>3, <2>4 DEF ToDevice
<1>4. CASE Announce
  <2>1. dev'.answered = dev.answered /\ dev'.seq = dev.seq
    BY <1>4, Counts DEF Announce, Device
  <2>2. Steps(net') \subseteq net
    BY <1>4, Datagrams DEF Announce, Steps
  <2> QED BY <1>1, <2>1, <2>2, NoRepeat, QuietStep
<1>5. CASE Stream
  <2>1. dev' = dev /\ Steps(net') \subseteq net
    BY <1>5, Datagrams DEF Stream, Steps
  <2> QED BY <1>1, <2>1, NoRepeat, QuietStep
<1> QED BY <1>2, <1>3, <1>4, <1>5, AskNumbers DEF World

LEMMA NumberInitial == DemoInit => NumberInv
<1> SUFFICES ASSUME DemoInit PROVE NumberInv
  OBVIOUS
<1>1. net = {} /\ got = 0 /\ dataId = 0 /\ dev.answered = 0
  BY DEF DemoInit, Init
<1> QED BY <1>1 DEF NumberInv, PlainInv, IdleInv, IdInv, SoloInv, Req, Rep, Steps

LEMMA NumberInductive == TypeInv /\ LifeInv /\ NumberInv /\ [DemoNext]_vars => NumberInv'
<1> SUFFICES ASSUME TypeInv, LifeInv, NumberInv, [DemoNext]_vars PROVE NumberInv'
  OBVIOUS
<1>1. CASE Session
  <2>1. CASE ReceiveEnds \/ TickerEnds
    <3>1. UNCHANGED <<dataId, peerSocket, dev, got, net>> /\ (Trouble \/ Calm)
      BY <2>1 DEF ReceiveEnds, TickerEnds, srtVars, netVars
    <3>2. recv' # "signal" => got = 0
      BY <2>1 DEF ReceiveEnds, TickerEnds, NumberInv, IdleInv
    <3>3. Steps(net') \subseteq net
      BY <3>1 DEF Steps
    <3> QED BY <3>1, <3>2, <3>3, NoRepeat, QuietStep
  <2> QED BY <1>1, <2>1, CallerNumbers, HandleNumbers, SignalNumbers, WorldNumbers
          DEF Session, Receive
<1>2. CASE UNCHANGED vars \/ Handler \/ Pump \/ Remux \/ FfmpegEnds \/ Leave
  <2>1. UNCHANGED <<dataId, peerSocket, dev, got, recv, net>> /\ (Trouble \/ Calm)
    BY <1>2 DEF vars, Handler, StartPump, SendHeaders, Serve, EndOfOutput, KillFfmpeg, Pump,
                PumpReads, PumpWrites, Remux, FfmpegEnds, Leave, RestVars, sessionVars,
                threadVars, srtVars, netVars
  <2>2. Steps(net') \subseteq net
    BY <2>1 DEF Steps
  <2> QED BY <2>1, <2>2, NoRepeat, QuietStep DEF NumberInv, IdleInv
<1> QED BY <1>1, <1>2 DEF DemoNext

\* The data session's id is the control sub-session's, for any losses, repetitions and
\* order (session.py:749-753).
THEOREM IdCorrect == Spec => []IdIsControls
<1>1. NumberInv => IdIsControls
  BY DEF NumberInv, IdInv, IdIsControls
<1> QED BY <1>1, TypeInitial, TypeInductive, LifeInitial, LifeInductive, NumberInitial,
           NumberInductive, PTL DEF Spec

\* The ACKs of a device that streams carry the video sub-session's socket, if nothing was
\* repeated, for any losses and order (session.py:740-747).
THEOREM AcksCorrect == Spec => []AcksTargetVideo
<1>1. TypeInv /\ NumberInv => AcksTargetVideo
  BY Counts DEF NumberInv, SoloInv, AcksTargetVideo
<1> QED BY <1>1, TypeInitial, TypeInductive, LifeInitial, LifeInductive, NumberInitial,
           NumberInductive, PTL DEF Spec
=============================================================================
