-------------------------- MODULE LoginSession_proof --------------------------
(***************************************************************************)
(* For any finite set of handlers and any bounds, in four parts:           *)
(* - _login_lock is held by the handler that is inside, a handler loads    *)
(*   the token only while there is no client, so one client is constructed *)
(*   (IInv);                                                               *)
(* - types and bounds, and the one late call (TypeInv);                    *)
(* - each step seen by what it does to the session (JobShape, TaskShape,   *)
(*   LoopAside, EnvironmentAside);                                         *)
(* - the thread that works alone on the session, place by place, the token *)
(*   it carries and the file, and a save nobody meddles with (SessionInv). *)
(***************************************************************************)
EXTENDS LoginSession, SequenceTheorems, FiniteSetTheorems, TLAPS

Places == {"idle", "waiting", "loading", "login", "saving"}
Inside == {"loading", "login", "saving"}

TaskTypeOK ==
    /\ task \in [Handlers -> Places]
    /\ lock \in Handlers \cup {NoOne}
    /\ clients \in Nat

\* The lock's holder is the one handler between acquire and release.
HolderIsInside == \A h \in Handlers : task[h] \in Inside <=> lock = h

\* The client is constructed by a handler that found none.
LoadingFoundNone == \A h \in Handlers : task[h] = "loading" => clients = 0

IInv == TaskTypeOK /\ HolderIsInside /\ LoadingFoundNone /\ OneClient

USE DEF Places, Inside

lockVars == <<task, lock, clients>>

\* A step that leaves the tasks, the lock and the client alone.
LEMMA Untouched == IInv /\ UNCHANGED lockVars => IInv'
BY DEF IInv, TaskTypeOK, HolderIsInside, LoadingFoundNone, OneClient, lockVars

\* A job, the keep-alive loop and the cloud do not touch them.
LEMMA Others ==
    ASSUME \/ \E t \in Threads : JobStep(t)
           \/ LoopStep \/ StreamOpensOrEnds \/ KeepaliveCancelled \/ Expire
    PROVE  UNCHANGED lockVars
<1>1. CASE \E t \in Threads : JobStep(t)
  BY <1>1 DEF lockVars, taskVars, JobStep, JobAlone, TokenAlone, Refreshed,
     PasswordAccepted, RegionMoved, OpenFile, WriteFile, SaveFails
<1>2. CASE LoopStep
  BY <1>2 DEF lockVars, taskVars, LoopStep, LoopAlone, LoopCalls
<1>3. CASE StreamOpensOrEnds \/ KeepaliveCancelled \/ Expire
  BY <1>3 DEF lockVars, taskVars, StreamOpensOrEnds, KeepaliveCancelled, Expire
<1> QED BY <1>1, <1>2, <1>3

\* A handler that leaves gives back the lock if it held it.
LEMMA Leaving ==
    ASSUME IInv, NEW h \in Handlers, Leave(h), clients' = clients
    PROVE  IInv'
<1>1. /\ task' \in [Handlers -> Places] /\ task'[h] = "idle"
      /\ \A g \in Handlers \ {h} : task'[g] = task[g]
  BY DEF IInv, TaskTypeOK, Leave
<1>2. lock' = IF lock = h THEN NoOne ELSE lock
  BY DEF Leave, Release
<1>3. h # NoOne /\ \A g \in Handlers : g # NoOne
  BY LoginAssumption DEF LoginAssumption
<1>4. HolderIsInside'
  <2> SUFFICES ASSUME NEW g \in Handlers PROVE (task[g] \in Inside <=> lock = g)'
    BY DEF HolderIsInside
  <2>1. CASE g = h
    BY <1>1, <1>2, <1>3, <2>1
  <2>2. CASE g # h
    BY <1>1, <1>2, <1>3, <2>2 DEF IInv, HolderIsInside
  <2> QED BY <2>1, <2>2
<1>5. LoadingFoundNone'
  <2> SUFFICES ASSUME NEW g \in Handlers, task'[g] = "loading" PROVE clients = 0
    BY DEF LoadingFoundNone
  <2> QED BY <1>1 DEF IInv, LoadingFoundNone
<1> QED
  BY <1>1, <1>2, <1>4, <1>5 DEF IInv, TaskTypeOK, OneClient

\* The three steps of a handler that holds, or takes, the lock.
LEMMA Holding ==
    ASSUME IInv, NEW h \in Handlers, Acquire(h) \/ Loaded(h) \/ LoggedIn(h)
    PROVE  IInv'
<1>1. CASE Acquire(h)
  <2>1. lock = NoOne /\ lock' = h /\ clients' = clients
    BY <1>1 DEF Acquire, Granted
  <2>2. /\ task' = [task EXCEPT ![h] = IF clients = 0 THEN "loading" ELSE "login"]
        /\ task' \in [Handlers -> Places]
    BY <1>1 DEF Acquire, IInv, TaskTypeOK
  <2>3. \A g \in Handlers : task[g] \notin Inside
    BY <2>1, LoginAssumption DEF IInv, HolderIsInside, LoginAssumption
  <2>4. HolderIsInside' /\ LoadingFoundNone'
    BY <2>1, <2>2, <2>3 DEF IInv, TaskTypeOK, HolderIsInside, LoadingFoundNone
  <2> QED BY <2>1, <2>2, <2>4 DEF IInv, TaskTypeOK, OneClient
<1>2. CASE Loaded(h)
  <2>1. /\ task[h] = "loading" /\ lock = h /\ clients = 0
        /\ lock' = lock /\ clients' = 1
    BY <1>2 DEF Loaded, IInv, HolderIsInside, LoadingFoundNone
  <2>2. task' = [task EXCEPT ![h] = "login"] /\ task' \in [Handlers -> Places]
    BY <1>2 DEF Loaded, IInv, TaskTypeOK
  <2>3. \A g \in Handlers \ {h} : task[g] \notin Inside
    BY <2>1 DEF IInv, HolderIsInside
  <2>4. HolderIsInside' /\ LoadingFoundNone'
    BY <2>1, <2>2, <2>3 DEF IInv, TaskTypeOK, HolderIsInside, LoadingFoundNone
  <2> QED BY <2>1, <2>2, <2>4 DEF IInv, TaskTypeOK, OneClient
<1>3. CASE LoggedIn(h)
  <2>1. /\ task[h] = "login" /\ lock' = lock /\ clients' = clients
        /\ task' = [task EXCEPT ![h] = "saving"] /\ task' \in [Handlers -> Places]
    BY <1>3 DEF LoggedIn, IInv, TaskTypeOK
  <2>2. HolderIsInside' /\ LoadingFoundNone'
    BY <2>1 DEF IInv, TaskTypeOK, HolderIsInside, LoadingFoundNone
  <2> QED BY <2>1, <2>2 DEF IInv, TaskTypeOK, OneClient
<1> QED BY <1>1, <1>2, <1>3

\* A new call waits, and a restart starts over.
LEMMA Arriving ==
    ASSUME IInv, (\E h \in Handlers : Call(h)) \/ Crash
    PROVE  IInv'
<1>1. CASE \E h \in Handlers : Call(h)
  <2>1. PICK h \in Handlers : Call(h)
    BY <1>1
  <2>2. /\ task[h] = "idle" /\ task' = [task EXCEPT ![h] = "waiting"]
        /\ lock' = lock /\ clients' = clients /\ task' \in [Handlers -> Places]
    BY <2>1 DEF Call, IInv, TaskTypeOK
  <2>3. HolderIsInside' /\ LoadingFoundNone'
    BY <2>2 DEF IInv, TaskTypeOK, HolderIsInside, LoadingFoundNone
  <2> QED BY <2>2, <2>3 DEF IInv, TaskTypeOK, OneClient
<1>2. CASE Crash
  <2>1. task' = [h \in Handlers |-> "idle"] /\ lock' = NoOne /\ clients' = 0
    BY <1>2 DEF Crash
  <2>2. \A h \in Handlers : h # NoOne
    BY LoginAssumption DEF LoginAssumption
  <2> QED BY <2>1, <2>2 DEF IInv, TaskTypeOK, HolderIsInside, LoadingFoundNone, OneClient
<1> QED BY <1>1, <1>2

LEMMA Initial == Init => IInv
BY LoginAssumption DEF Init, IInv, TaskTypeOK, HolderIsInside, LoadingFoundNone, OneClient,
   LoginAssumption

LEMMA Inductive == IInv /\ [Next]_vars => IInv'
<1> SUFFICES ASSUME IInv, [Next]_vars PROVE IInv'
  OBVIOUS
<1>1. CASE UNCHANGED vars
  BY <1>1, Untouched DEF vars, taskVars, lockVars
<1>2. CASE \E t \in Threads : JobStep(t)
  BY <1>2, Others, Untouched
<1>3. CASE \E h \in Handlers : TaskStep(h)
  <2>1. PICK h \in Handlers : TaskStep(h)
    BY <1>3
  <2>2. CASE Acquire(h) \/ Loaded(h) \/ LoggedIn(h)
    BY <2>2, Holding
  <2>3. CASE Returned(h) \/ Raised(h)
    <3>1. Leave(h) /\ clients' = clients
      BY <2>3 DEF Returned, Raised
    <3> QED BY <3>1, Leaving
  <2> QED BY <2>1, <2>2, <2>3 DEF TaskStep
<1>4. CASE LoopStep
  BY <1>4, Others, Untouched
<1>5. CASE Environment
  <2>1. CASE (\E h \in Handlers : Call(h)) \/ Crash
    BY <2>1, Arriving
  <2>2. CASE \E h \in Handlers : Cancelled(h)
    <3>1. PICK h \in Handlers : Leave(h) /\ clients' = clients
      BY <2>2 DEF Cancelled
    <3> QED BY <3>1, Leaving
  <2>3. CASE StreamOpensOrEnds \/ KeepaliveCancelled \/ Expire
    BY <2>3, Others, Untouched
  <2> QED BY <1>5, <2>1, <2>2, <2>3 DEF Environment
<1> QED BY <1>1, <1>2, <1>3, <1>4, <1>5 DEF Next

\* At most one vendored client is constructed between two starts of Home Assistant,
\* whichever handlers are cancelled and whenever (_async_ensure_logged_in).
THEOREM ClientIsUnique == Spec => []OneClient
<1>1. IInv => OneClient
  BY DEF IInv
<1> QED BY <1>1, Initial, Inductive, PTL DEF Spec


-----------------------------------------------------------------------------
(***************************************************************************)
(* Types.                                                                  *)
(***************************************************************************)
OpenFrame == {f \in Frame : f.tries < MaxRetries}
JobType   == [at : JobAt, tries : 0 .. MaxRetries, data : Token, frames : Seq(OpenFrame)]

JobsOK  == job \in [Threads -> JobType]
QueueOK == queue \in Seq(Handlers)
DataOK  ==
    /\ token \in Token /\ header \in 0 .. MaxIssued /\ file \in File
    /\ issued \in 0 .. MaxIssued /\ live \in BOOLEAN
LoopOK  ==
    /\ loop \in {"off", "interval", "due", "calling", "backoff"}
    /\ attempt \in 0 .. MaxAttempts /\ (loop = "backoff" => attempt < MaxAttempts)
    /\ stop \in BOOLEAN
CountOK ==
    /\ troubles \in 0 .. MaxTroubles /\ served \in BOOLEAN
    /\ overlap \in BOOLEAN /\ meddled \in BOOLEAN

\* The stop event lets one call through, after which the loop waits for nothing.
LateInv == late \in 0 .. 1 /\ (late = 1 => stop /\ loop # "due")

TypeInv == JobsOK /\ QueueOK /\ DataOK /\ LoopOK /\ CountOK /\ LateInv

LEMMA Bounds ==
    /\ MaxRetries \in Nat /\ MaxIssued \in Nat /\ MaxTroubles \in Nat
    /\ MaxAttempts \in Nat \ {0}
    /\ Keeper \notin Handlers /\ NoOne \notin Handlers /\ IsFiniteSet(Handlers)
BY LoginAssumption DEF LoginAssumption

LEMMA InvIsTyped == ASSUME IInv, TypeInv PROVE TypeOK
<1>1. \A t \in Threads : JobOK(job[t])
  <2> SUFFICES ASSUME NEW t \in Threads PROVE JobOK(job[t])
    OBVIOUS
  <2>1. job[t] \in JobType /\ job[t].frames \in Seq(OpenFrame)
    BY DEF TypeInv, JobsOK, JobType
  <2>2. OpenFrame \subseteq Frame
    BY DEF OpenFrame
  <2>3. job[t].frames \in Seq(Frame)
    <3>1. Len(job[t].frames) \in Nat /\ job[t].frames \in [1 .. Len(job[t].frames) -> OpenFrame]
      BY <2>1, LenProperties
    <3>2. job[t].frames \in [1 .. Len(job[t].frames) -> Frame]
      BY <2>2, <3>1
    <3> QED BY <3>1, <3>2
  <2> QED BY <2>1, <2>3 DEF JobType, JobOK
<1>2. late \in Nat
  BY DEF TypeInv, LateInv
<1> QED BY <1>1, <1>2 DEF TypeInv, JobsOK, QueueOK, DataOK, LoopOK, CountOK, IInv, TaskTypeOK, TypeOK

\* Jobs of the kinds the steps make.
LEMMA JobAtIs ==
    {"none", "done", "failed", "request", "load", "login", "save", "call", "begin", "refresh",
     "session", "rf", "password", "token", "urls", "asking", "open", "write"} = JobAt
BY DEF JobAt, Submitted, LoggingIn, Saving

LEMMA Tokens ==
    /\ Empty \in Token /\ \A n \in 0 .. MaxIssued : Of(n) \in Token
    /\ \A tk \in Token, n \in 0 .. MaxIssued :
          /\ [tk EXCEPT !.session = n] \in Token /\ [tk EXCEPT !.refresh = n] \in Token
          /\ [tk EXCEPT !.urls = TRUE] \in Token
    /\ \A tk \in Token : tk.session \in 0 .. MaxIssued /\ tk.refresh \in 0 .. MaxIssued
    /\ \A tk \in Token, is \in {"none", "blank", "torn", "whole"} : FileOf(is, tk) \in File
    /\ \A f \in File : f.token \in Token
<1>1. Empty \in Token /\ \A n \in 0 .. MaxIssued : Of(n) \in Token
  BY Bounds DEF Empty, Of, Token
<1>2. ASSUME NEW tk \in Token, NEW n \in 0 .. MaxIssued
      PROVE  /\ [tk EXCEPT !.session = n] \in Token /\ [tk EXCEPT !.refresh = n] \in Token
             /\ [tk EXCEPT !.urls = TRUE] \in Token
  BY DEF Token
<1>3. \A tk \in Token : tk.session \in 0 .. MaxIssued /\ tk.refresh \in 0 .. MaxIssued
  BY DEF Token
<1>4. /\ \A tk \in Token, is \in {"none", "blank", "torn", "whole"} : FileOf(is, tk) \in File
      /\ \A f \in File : f.token \in Token
  BY DEF FileOf, File
<1> QED BY <1>1, <1>2, <1>3, <1>4

LEMMA JobsMade ==
    /\ NoJob \in JobType /\ \A at \in JobAt : Job(at) \in JobType
    /\ \A j \in JobType : /\ j.at \in JobAt /\ j.tries \in 0 .. MaxRetries /\ j.data \in Token
                          /\ j.frames \in Seq(OpenFrame)
    /\ \A j \in JobType, at \in JobAt : [j EXCEPT !.at = at] \in JobType
    /\ \A j \in JobType, at \in JobAt, tk \in Token : [j EXCEPT !.at = at, !.data = tk] \in JobType
    /\ \A j \in JobType, at \in JobAt : [j EXCEPT !.at = at, !.tries = 0] \in JobType
<1>1. <<>> \in Seq(OpenFrame) /\ 0 \in 0 .. MaxRetries /\ "none" \in JobAt
  BY Bounds, JobAtIs
<1>2. NoJob \in JobType
  BY <1>1, Tokens DEF NoJob, JobType
<1>3. \A j \in JobType, at \in JobAt : [j EXCEPT !.at = at] \in JobType
  BY DEF JobType
<1>4. \A j \in JobType, tk \in Token : [j EXCEPT !.data = tk] \in JobType
  BY DEF JobType
<1>5. \A j \in JobType : [j EXCEPT !.tries = 0] \in JobType
  BY <1>1 DEF JobType
<1>6. \A at \in JobAt : Job(at) \in JobType
  BY <1>2, <1>3 DEF Job
<1>7. ASSUME NEW j \in JobType, NEW at \in JobAt, NEW tk \in Token
      PROVE  /\ [j EXCEPT !.at = at, !.data = tk] \in JobType
             /\ [j EXCEPT !.at = at, !.tries = 0] \in JobType
  <2>1. [j EXCEPT !.at = at] \in JobType
    BY <1>3
  <2> QED BY <1>4, <1>5, <2>1
<1> QED BY <1>2, <1>3, <1>6, <1>7, Tokens DEF JobType

\* A job that goes to a place, or gets data.
LEMMA Moves ==
    ASSUME JobsOK, NEW t \in Threads, NEW j \in JobType, job' = [job EXCEPT ![t] = j]
    PROVE  JobsOK' /\ job'[t] = j /\ \A u \in Threads \ {t} : job'[u] = job[u]
BY DEF JobsOK

\* login() returns to the job or to the request that called it.
LEMMA Returns ==
    ASSUME JobsOK, NEW t \in Threads, LoginReturns(t)
    PROVE  \E j \in JobType : /\ job' = [job EXCEPT ![t] = j]
                              /\ j.at \in {"done", "asking", "request"}
<1>1. CASE job[t].frames = <<>>
  BY <1>1, JobsMade, JobAtIs DEF LoginReturns, End, Job, NoJob
<1>2. CASE job[t].frames # <<>>
  <2> DEFINE f == Head(job[t].frames)
             j == [at |-> f.at, tries |-> f.tries + 1, data |-> Empty,
                   frames |-> Tail(job[t].frames)]
  <2>1. job[t].frames \in Seq(OpenFrame)
    BY JobsMade DEF JobsOK
  <2>2. f \in OpenFrame /\ Tail(job[t].frames) \in Seq(OpenFrame)
    BY <1>2, <2>1, HeadTailProperties
  <2>3. f.at \in {"asking", "request"} /\ f.tries + 1 \in 0 .. MaxRetries
    <3>1. /\ f.at \in {"asking", "request"} /\ f.tries \in 0 .. MaxRetries
          /\ f.tries < MaxRetries
      <4> HIDE DEF f
      <4> QED BY <2>2 DEF OpenFrame, Frame
    <3> HIDE DEF f
    <3> QED BY <3>1, Bounds
  <2>4. j \in JobType /\ j.at \in {"done", "asking", "request"}
    BY <2>2, <2>3, Tokens, JobAtIs DEF JobType
  <2>5. job' = [job EXCEPT ![t] = j]
    BY <1>2 DEF LoginReturns
  <2> QED BY <2>4, <2>5
<1> QED BY <1>1, <1>2

\* 401: the request waits in a frame for the login.
LEMMA Denies ==
    ASSUME JobsOK, NEW t \in Threads, Denied(t)
    PROVE  \E j \in JobType : job' = [job EXCEPT ![t] = j] /\ j.at \in {"failed", "begin"}
<1>1. CASE job[t].tries >= MaxRetries
  BY <1>1, JobsMade, JobAtIs DEF Denied, End, Job, NoJob
<1>2. CASE ~(job[t].tries >= MaxRetries)
  <2> DEFINE f == [at |-> job[t].at, tries |-> job[t].tries]
             fs == <<f>> \o job[t].frames
             j == [Job("begin") EXCEPT !.frames = fs]
  <2>1. job[t].frames \in Seq(OpenFrame) /\ job[t].tries \in 0 .. MaxRetries
        /\ job[t].at \in {"asking", "request"}
    BY JobsMade DEF JobsOK, Denied
  <2>2. f \in OpenFrame
    BY <1>2, <2>1, Bounds DEF OpenFrame, Frame
  <2>3. fs \in Seq(OpenFrame)
    <3> HIDE DEF f
    <3>1. <<f>> \in Seq(OpenFrame)
      BY <2>2
    <3> QED BY <2>1, <3>1, ConcatProperties
  <2>4. job' = [job EXCEPT ![t] = j]
    BY <1>2 DEF Denied
  <2> HIDE DEF fs
  <2>5. j \in JobType /\ j.at = "begin"
    <3>1. Job("begin") \in JobType /\ Job("begin").at = "begin"
      BY JobsMade, JobAtIs DEF Job, NoJob
    <3> QED BY <2>3, <3>1 DEF JobType
  <2> QED BY <2>4, <2>5
<1> QED BY <1>1, <1>2

-----------------------------------------------------------------------------
(***************************************************************************)
(* What a step of a job does: j is the job it becomes.                     *)
(***************************************************************************)
Still == UNCHANGED <<token, header, file>>

Works(t, j) ==
    /\ Still
    /\ \/ /\ job[t].at \in {"login", "begin", "urls", "refresh", "password", "asking", "request",
                            "call"}
          /\ j.at \in {"refresh", "password", "failed", "asking", "begin", "request", "done"}
       \/ job[t].at \in {"open", "write"} /\ j.at = "failed"
Loads(t, j)   == Still /\ job[t].at = "load" /\ j.at = "done" /\ j.data = file.token
Exports(t, j) == Still /\ job[t].at = "save" /\ j.at = "open" /\ j.data = token
Forgets(t, j) == /\ Still /\ job[t].at \in {"done", "failed"} /\ j.at = "none"
                 /\ t \in Handlers => task[t] = "idle"
                 /\ t = Keeper => loop # "calling"
Issues(t, j)  == /\ UNCHANGED <<token, file>> /\ header' \in 0 .. MaxIssued
                 /\ j.data = Of(header')
                 /\ \/ job[t].at = "refresh" /\ j.at = "session"
                    \/ job[t].at = "password" /\ j.at = "token"
Session(t, j) == /\ UNCHANGED <<header, file>> /\ job[t].at = "session" /\ j.at = "rf"
                 /\ j.data = job[t].data
                 /\ token' = [token EXCEPT !.session = job[t].data.session]
Refresh(t, j) == /\ UNCHANGED <<header, file>> /\ job[t].at = "rf"
                 /\ j.at \in {"urls", "done", "asking", "request"}
                 /\ token' = [token EXCEPT !.refresh = job[t].data.refresh]
Drops(t, j)   == /\ UNCHANGED <<header, file>> /\ job[t].at = "refresh" /\ j.at = "begin"
                 /\ token' = Empty
Takes(t, j)   == /\ UNCHANGED <<header, file>> /\ job[t].at = "token" /\ j.at = "urls"
                 /\ token' = job[t].data
Serves(t, j)  == /\ UNCHANGED <<header, file>> /\ job[t].at = "asking"
                 /\ j.at \in {"done", "asking", "request"}
                 /\ token' = [token EXCEPT !.urls = TRUE]
Opens(t, j)   == /\ UNCHANGED <<token, header>> /\ job[t].at = "open" /\ j.at = "write"
                 /\ j.data = job[t].data /\ file' = FileOf("blank", Empty)
Writes(t, j)  == /\ UNCHANGED <<token, header>> /\ job[t].at = "write" /\ j.at = "done"
                 /\ \/ file' = FileOf("whole", job[t].data)
                    \/ file.is # "blank" /\ file' = FileOf("torn", Empty)

Shape(t, j) ==
    \/ Works(t, j) \/ Loads(t, j) \/ Exports(t, j) \/ Forgets(t, j) \/ Issues(t, j)
    \/ Session(t, j) \/ Refresh(t, j) \/ Drops(t, j) \/ Takes(t, j) \/ Serves(t, j)
    \/ Opens(t, j) \/ Writes(t, j)

\* A step that only moves the job, or gives it data.
LEMMA Going ==
    ASSUME JobsOK, NEW t \in Threads, NEW at \in JobAt, Goto(t, at)
    PROVE  \E j \in JobType : job' = [job EXCEPT ![t] = j] /\ j.at = at /\ j.data = job[t].data
<1> DEFINE j == [job[t] EXCEPT !.at = at]
<1>1. job[t] \in JobType /\ j \in JobType
  BY JobsMade DEF JobsOK
<1>2. j.at = at /\ j.data = job[t].data
  BY <1>1 DEF JobType
<1>3. job' = [job EXCEPT ![t] = j]
  BY DEF Goto, JobsOK
<1> QED BY <1>1, <1>2, <1>3

LEMMA Ending ==
    ASSUME NEW t \in Threads, NEW at \in JobAt, End(t, at)
    PROVE  \E j \in JobType : job' = [job EXCEPT ![t] = j] /\ j.at = at
BY JobsMade DEF End, Job, NoJob

LEMMA AloneShape ==
    ASSUME TypeInv, NEW t \in Threads, JobAlone(t)
    PROVE  \E j \in JobType : job' = [job EXCEPT ![t] = j] /\ Shape(t, j)
<1> USE JobAtIs DEF TypeInv, At
<1>0. Still /\ JobsOK
  BY DEF JobAlone, dataVars, Still
<1>1. CASE LoginStart(t)
  BY <1>0, <1>1, Going DEF LoginStart, Shape, Works
<1>2. CASE AskUrls(t)
  <2>1. CASE token.session = 0
    BY <1>0, <1>2, <2>1, Ending DEF AskUrls, Shape, Works
  <2>2. CASE token.session # 0
    <3> DEFINE j == [job[t] EXCEPT !.at = "asking", !.tries = 0]
    <3>1. job[t] \in JobType /\ j \in JobType
      BY <1>0, JobsMade DEF JobsOK
    <3>2. job' = [job EXCEPT ![t] = j]
      BY <1>2, <2>2, <3>1 DEF AskUrls, JobsOK
    <3>3. j.at = "asking" /\ job[t].at = "urls"
      BY <1>2, <3>1 DEF AskUrls, JobType
    <3> HIDE DEF j
    <3> QED BY <1>0, <3>1, <3>2, <3>3 DEF Shape, Works
  <2> QED BY <2>1, <2>2
<1>3. CASE Refused(t)
  BY <1>0, <1>3, Ending DEF Refused, Shape, Works
<1>4. CASE Denied(t)
  <2>1. job[t].at \in {"asking", "request"}
    BY <1>4 DEF Denied
  <2> QED BY <1>0, <1>4, <2>1, Denies DEF Shape, Works
<1>5. CASE CallStart(t)
  BY <1>0, <1>5, Going DEF CallStart, Shape, Works
<1>6. CASE RequestAnswered(t)
  BY <1>0, <1>6, Ending DEF RequestAnswered, Shape, Works
<1>7. CASE LoadToken(t)
  <2>1. file.token \in Token
    BY Tokens DEF DataOK
  <2>2. /\ job[t].at = "load"
        /\ job' = [job EXCEPT ![t].at = "done", ![t].data = file.token]
    BY <1>7 DEF LoadToken
  <2> DEFINE j == [job[t] EXCEPT !.at = "done", !.data = file.token]
  <2>3. j \in JobType /\ j.at = "done" /\ j.data = file.token /\ job' = [job EXCEPT ![t] = j]
    <3>1. job[t] \in JobType /\ j \in JobType
      BY <1>0, <2>1, JobsMade DEF JobsOK
    <3>2. job' = [job EXCEPT ![t] = j]
      BY <1>0, <2>2, <3>1 DEF JobsOK
    <3> QED BY <3>1, <3>2 DEF JobType
  <2> HIDE DEF j
  <2> QED BY <1>0, <2>2, <2>3 DEF Shape, Loads
<1>8. CASE ExportToken(t)
  <2>1. token \in Token
    BY DEF DataOK
  <2>2. /\ job[t].at = "save"
        /\ job' = [job EXCEPT ![t].at = "open", ![t].data = token]
    BY <1>8 DEF ExportToken
  <2> DEFINE j == [job[t] EXCEPT !.at = "open", !.data = token]
  <2>3. j \in JobType /\ j.at = "open" /\ j.data = token /\ job' = [job EXCEPT ![t] = j]
    <3>1. job[t] \in JobType /\ j \in JobType
      BY <1>0, <2>1, JobsMade DEF JobsOK
    <3>2. job' = [job EXCEPT ![t] = j]
      BY <1>0, <2>2, <3>1 DEF JobsOK
    <3> QED BY <3>1, <3>2 DEF JobType
  <2> HIDE DEF j
  <2> QED BY <1>0, <2>2, <2>3 DEF Shape, Exports
<1>9. CASE JobForgotten(t)
  <2>1. NoJob \in JobType /\ NoJob.at = "none" /\ job' = [job EXCEPT ![t] = NoJob]
    BY <1>9, JobsMade DEF JobForgotten, NoJob
  <2>2. Forgets(t, NoJob)
    BY <1>0, <1>9, <2>1, Bounds DEF JobForgotten, Forgets
  <2> QED BY <2>1, <2>2 DEF Shape
<1> QED BY <1>1, <1>2, <1>3, <1>4, <1>5, <1>6, <1>7, <1>8, <1>9 DEF JobAlone

LEMMA TokenShape ==
    ASSUME TypeInv, NEW t \in Threads, TokenAlone(t)
    PROVE  \E j \in JobType : job' = [job EXCEPT ![t] = j] /\ Shape(t, j)
<1> USE JobAtIs DEF TypeInv, At
<1>0. JobsOK /\ UNCHANGED <<header, file>>
  BY DEF TokenAlone
<1>1. CASE SetSession(t)
  BY <1>0, <1>1, Going DEF SetSession, Shape, Session
<1>2. CASE SetRefresh(t)
  <2>1. \E j \in JobType : /\ job' = [job EXCEPT ![t] = j]
                           /\ j.at \in {"urls", "done", "asking", "request"}
    BY <1>0, <1>2, Going, Returns DEF SetRefresh
  <2> QED BY <1>0, <1>2, <2>1 DEF SetRefresh, Shape, Refresh
<1>3. CASE RefreshExpired(t)
  BY <1>0, <1>3, Going DEF RefreshExpired, Shape, Drops
<1>4. CASE SetToken(t)
  BY <1>0, <1>4, Going DEF SetToken, Shape, Takes
<1>5. CASE UrlsAnswered(t)
  BY <1>0, <1>5, Returns DEF UrlsAnswered, Shape, Serves
<1> QED BY <1>1, <1>2, <1>3, <1>4, <1>5 DEF TokenAlone

LEMMA IssueShape ==
    ASSUME TypeInv, NEW t \in Threads, NEW next \in JobAt, Issue(t, next)
    PROVE  /\ header' \in 0 .. MaxIssued /\ issued' \in 0 .. MaxIssued /\ live' \in BOOLEAN
           /\ \E j \in JobType : /\ job' = [job EXCEPT ![t] = j]
                                 /\ j.at = next /\ j.data = Of(header')
<1>1. issued' \in 0 .. MaxIssued /\ header' = issued' /\ live' = TRUE
  BY Bounds DEF Issue, TypeInv, DataOK
<1>2. job' = [job EXCEPT ![t].at = next, ![t].data = Of(header')]
  BY DEF Issue
<1>3. Of(header') \in Token
  BY <1>1, Tokens
<1>4. \E j \in JobType : job' = [job EXCEPT ![t] = j] /\ j.at = next /\ j.data = Of(header')
  <2> DEFINE j == [job[t] EXCEPT !.at = next, !.data = Of(header')]
  <2>1. j \in JobType /\ j.at = next /\ j.data = Of(header') /\ job' = [job EXCEPT ![t] = j]
    <3>1. job[t] \in JobType /\ j \in JobType
      BY <1>3, JobsMade DEF TypeInv, JobsOK
    <3>2. job' = [job EXCEPT ![t] = j]
      BY <1>2, <3>1 DEF TypeInv, JobsOK
    <3> QED BY <3>1, <3>2 DEF JobType
  <2> HIDE DEF j
  <2> QED BY <2>1
<1> QED BY <1>1, <1>4

LEMMA JobShape ==
    ASSUME TypeInv, NEW t \in Threads, JobStep(t)
    PROVE  /\ \E j \in JobType : job' = [job EXCEPT ![t] = j] /\ Shape(t, j)
           /\ UNCHANGED <<taskVars, loopVars>>
           /\ issued' \in 0 .. MaxIssued /\ live' \in BOOLEAN
           /\ troubles' \in 0 .. MaxTroubles
<1> USE JobAtIs DEF At
<1>0. JobsOK /\ issued \in 0 .. MaxIssued /\ live \in BOOLEAN /\ troubles \in 0 .. MaxTroubles
  BY DEF TypeInv, DataOK, CountOK
<1>1. CASE JobAlone(t)
  BY <1>0, <1>1, AloneShape DEF JobAlone, taskVars, loopVars, cloudVars
<1>2. CASE TokenAlone(t)
  BY <1>0, <1>2, TokenShape DEF TokenAlone, taskVars, loopVars, cloudVars
<1>3. CASE Refreshed(t) \/ PasswordAccepted(t)
  <2>1. UNCHANGED <<taskVars, token, file, loopVars, troubles>>
    BY <1>3 DEF Refreshed, PasswordAccepted
  <2>2. CASE Refreshed(t)
    <3>1. Issue(t, "session") /\ job[t].at = "refresh"
      BY <2>2 DEF Refreshed
    <3> QED BY <1>0, <2>1, <3>1, IssueShape DEF Shape, Issues, taskVars, loopVars
  <2>3. CASE PasswordAccepted(t)
    <3>1. Issue(t, "token") /\ job[t].at = "password"
      BY <2>3 DEF PasswordAccepted
    <3> QED BY <1>0, <2>1, <3>1, IssueShape DEF Shape, Issues, taskVars, loopVars
  <2> QED BY <1>3, <2>2, <2>3
<1>4. CASE RegionMoved(t) \/ SaveFails(t)
  <2>1. /\ UNCHANGED <<taskVars, dataVars, cloudVars, loopVars>> /\ Still
        /\ troubles' \in 0 .. MaxTroubles
    BY <1>0, <1>4, Bounds DEF RegionMoved, SaveFails, Trouble, dataVars, Still
  <2>2. CASE RegionMoved(t)
    BY <1>0, <2>1, <2>2, Going DEF RegionMoved, Shape, Works, cloudVars
  <2>3. CASE SaveFails(t)
    BY <1>0, <2>1, <2>3, Ending DEF SaveFails, Shape, Works, cloudVars
  <2> QED BY <1>4, <2>2, <2>3
<1>5. CASE OpenFile(t)
  BY <1>0, <1>5, Going DEF OpenFile, Shape, Opens, taskVars, loopVars, cloudVars
<1>6. CASE WriteFile(t)
  BY <1>0, <1>6, Ending DEF WriteFile, Shape, Writes, taskVars, loopVars, cloudVars
<1> QED BY <1>1, <1>2, <1>3, <1>4, <1>5, <1>6 DEF JobStep

-----------------------------------------------------------------------------
(***************************************************************************)
(* Every step keeps the types and lets at most one call through.           *)
(***************************************************************************)
LEMMA HistoryTyped == CountOK /\ History => overlap' \in BOOLEAN /\ meddled' \in BOOLEAN
<1> DEFINE busy == Cardinality({t \in Threads : Busy(t)'}) > 1
           past == \E h \in Handlers : Saves(h) /\ (meddled \/ Meddles(h))
<1> SUFFICES ASSUME overlap \in BOOLEAN, overlap' = (overlap \/ busy), meddled' = past
             PROVE  overlap' \in BOOLEAN /\ meddled' \in BOOLEAN
  BY DEF CountOK, History
<1> HIDE DEF busy, past
<1>1. overlap' \in BOOLEAN
  BY Zenon
<1>2. past \in BOOLEAN
  BY Zenon DEF past
<1> QED BY <1>1, <1>2

LEMMA JobStepTyped ==
    ASSUME TypeInv, NEW t \in Threads, JobStep(t)
    PROVE  TypeInv'
<1>1. PICK j \in JobType : job' = [job EXCEPT ![t] = j] /\ Shape(t, j)
  BY JobShape
<1>2. /\ UNCHANGED <<taskVars, loopVars>> /\ troubles' \in 0 .. MaxTroubles
      /\ issued' \in 0 .. MaxIssued /\ live' \in BOOLEAN
  BY JobShape
<1>3. job[t] \in JobType /\ job[t].data \in Token /\ job[t].data.session \in 0 .. MaxIssued
      /\ job[t].data.refresh \in 0 .. MaxIssued
  BY JobsMade, Tokens DEF TypeInv, JobsOK
<1>4. token \in Token /\ header \in 0 .. MaxIssued /\ file \in File /\ 0 \in 0 .. MaxIssued
  BY Bounds DEF TypeInv, DataOK
<1>5. token' \in Token
  BY <1>1, <1>3, <1>4, Tokens DEF Shape, Works, Loads, Exports, Forgets, Issues, Session, Refresh,
     Drops, Takes, Serves, Opens, Writes, Still
<1>6. header' \in 0 .. MaxIssued
  BY <1>1, <1>4 DEF Shape, Works, Loads, Exports, Forgets, Issues, Session, Refresh,
     Drops, Takes, Serves, Opens, Writes, Still
<1>7. file' \in File
  <2>1. file' \in {file, FileOf("blank", Empty), FileOf("torn", Empty), FileOf("whole", job[t].data)}
    BY <1>1 DEF Shape, Works, Loads, Exports, Forgets, Issues, Session, Refresh,
       Drops, Takes, Serves, Opens, Writes, Still
  <2> QED BY <1>3, <1>4, <2>1, Tokens
<1>8. JobsOK'
  BY <1>1 DEF TypeInv, JobsOK
<1>9. overlap' \in BOOLEAN /\ meddled' \in BOOLEAN
  BY HistoryTyped DEF TypeInv, JobStep
<1> QED
  BY <1>2, <1>5, <1>6, <1>7, <1>8, <1>9
  DEF TypeInv, QueueOK, DataOK, LoopOK, CountOK, LateInv, taskVars, loopVars

\* The queue of the lock.
LEMMA Queued ==
    ASSUME QueueOK, NEW h \in Handlers
    PROVE  /\ Append(queue, h) \in Seq(Handlers) /\ Without(h) \in Seq(Handlers)
           /\ queue # <<>> => Tail(queue) \in Seq(Handlers) /\ Head(queue) \in Handlers
<1>1. queue \in Seq(Handlers) /\ Len(queue) \in Nat /\ DOMAIN queue = 1 .. Len(queue)
      /\ \A i \in 1 .. Len(queue) : queue[i] \in Handlers
  BY DEF QueueOK
<1>2. Append(queue, h) \in Seq(Handlers)
  BY <1>1
<1>3. queue # <<>> => Tail(queue) \in Seq(Handlers) /\ Head(queue) \in Handlers
  BY <1>1, HeadTailProperties
<1>4. CASE h \notin ToSet(queue)
  BY <1>1, <1>2, <1>3, <1>4 DEF Without
<1>5. CASE h \in ToSet(queue)
  <2> DEFINE i == CHOOSE i \in DOMAIN queue : queue[i] = h
  <2>1. i \in 1 .. Len(queue)
    BY <1>1, <1>5 DEF ToSet
  <2>2. Without(h) = RemoveAt(queue, i)
    BY <1>5 DEF Without
  <2> HIDE DEF i
  <2>3. SubSeq(queue, 1, i - 1) \in Seq(Handlers)
    BY <1>1, <2>1, SubSeqProperties
  <2>4. SubSeq(queue, i + 1, Len(queue)) \in Seq(Handlers)
    BY <1>1, <2>1, SubSeqProperties
  <2>5. Without(h) \in Seq(Handlers)
    BY <2>2, <2>3, <2>4, ConcatProperties DEF RemoveAt
  <2> QED BY <1>2, <1>3, <2>5
<1> QED BY <1>4, <1>5

\* A job that is submitted, or cleared.
LEMMA Submits ==
    ASSUME TypeInv, NEW t \in Threads, NEW at \in JobAt
    PROVE  /\ [job EXCEPT ![t] = Job(at)] \in [Threads -> JobType]
           /\ [job EXCEPT ![t] = NoJob] \in [Threads -> JobType]
BY JobsMade DEF TypeInv, JobsOK

LEMMA TaskStepTyped ==
    ASSUME TypeInv, NEW h \in Handlers, TaskStep(h)
    PROVE  TypeInv'
<1> USE JobAtIs
<1>0. h \in Threads /\ overlap' \in BOOLEAN /\ meddled' \in BOOLEAN
  BY HistoryTyped DEF Threads, TaskStep, TypeInv
<1>1. CASE Acquire(h)
  <2>1. QueueOK'
    BY <1>1, Queued DEF Acquire, Granted, QueueOK, TypeInv
  <2>2. JobsOK'
    BY <1>0, <1>1, Submits DEF Acquire, JobsOK
  <2> QED BY <1>0, <1>1, <2>1, <2>2
          DEF Acquire, TypeInv, DataOK, LoopOK, CountOK, LateInv, dataVars, cloudVars, loopVars
<1>2. CASE Loaded(h)
  <2>1. job[h].data \in Token /\ job[h].data.session \in 0 .. MaxIssued
    BY <1>0, JobsMade, Tokens DEF TypeInv, JobsOK
  <2>2. JobsOK'
    BY <1>0, <1>2, Submits DEF Loaded, JobsOK
  <2> QED BY <1>0, <1>2, <2>1, <2>2
          DEF Loaded, TypeInv, QueueOK, DataOK, LoopOK, CountOK, LateInv, cloudVars, loopVars
<1>3. CASE LoggedIn(h)
  <2>2. JobsOK'
    BY <1>0, <1>3, Submits DEF LoggedIn, JobsOK
  <2> QED BY <1>0, <1>3, <2>2
          DEF LoggedIn, TypeInv, QueueOK, DataOK, LoopOK, CountOK, LateInv, dataVars, cloudVars, loopVars
<1>4. CASE Returned(h) \/ Raised(h)
  <2>1. QueueOK'
    BY <1>4, Queued DEF Returned, Raised, Leave, QueueOK, TypeInv
  <2>2. JobsOK'
    BY <1>0, <1>4, Submits DEF Returned, Raised, JobsOK
  <2>3. served' \in BOOLEAN /\ UNCHANGED <<dataVars, cloudVars, loopVars, troubles>>
    BY <1>4 DEF Returned, Raised, TypeInv, CountOK
  <2> QED BY <1>0, <2>1, <2>2, <2>3
          DEF TypeInv, DataOK, LoopOK, CountOK, LateInv, dataVars, cloudVars, loopVars
<1> QED BY <1>1, <1>2, <1>3, <1>4 DEF TaskStep

LEMMA Abandons ==
    ASSUME TypeInv, NEW t \in Threads, Abandon(t)
    PROVE  JobsOK'
BY Submits, JobAtIs DEF Abandon, TypeInv, JobsOK

LEMMA LoopStepTyped ==
    ASSUME TypeInv, LoopStep
    PROVE  TypeInv'
<1> USE JobAtIs
<1>0. Keeper \in Threads /\ overlap' \in BOOLEAN /\ meddled' \in BOOLEAN
  BY HistoryTyped DEF Threads, LoopStep, TypeInv
<1>1. UNCHANGED <<taskVars, dataVars, cloudVars, troubles>>
  BY DEF LoopStep, LoopAlone, LoopCalls
<1>2. JobsOK'
  BY <1>0, Submits DEF LoopStep, LoopAlone, LoopCalls, KeepaliveCalls, KeepaliveAnswered, TypeInv,
     JobsOK
<1>3. LoopOK' /\ LateInv'
  <2> USE DEF TypeInv, LoopOK, LateInv
  <2>1. CASE KeepaliveDue
    BY <2>1, Bounds DEF KeepaliveDue, TimesOut
  <2>2. CASE KeepaliveSeesStop
    BY <2>2 DEF KeepaliveSeesStop
  <2>3. CASE KeepaliveCalls
    BY <2>3 DEF KeepaliveCalls
  <2>4. CASE KeepaliveAnswered
    BY <2>4, Bounds DEF KeepaliveAnswered, Retries
  <2> QED BY <2>1, <2>2, <2>3, <2>4 DEF LoopStep, LoopAlone, LoopCalls
<1> QED
  BY <1>0, <1>1, <1>2, <1>3
  DEF TypeInv, QueueOK, DataOK, CountOK, taskVars, dataVars, cloudVars

LEMMA EnvironmentTyped ==
    ASSUME TypeInv, Environment
    PROVE  TypeInv'
<1> USE JobAtIs
<1>0. Keeper \in Threads /\ overlap' \in BOOLEAN /\ meddled' \in BOOLEAN
      /\ Handlers \subseteq Threads
  BY HistoryTyped DEF Threads, Environment, TypeInv
<1>1. ASSUME NEW h \in Handlers, Call(h)
      PROVE  TypeInv'
  BY <1>0, <1>1, Queued
  DEF Call, TypeInv, JobsOK, QueueOK, DataOK, LoopOK, CountOK, LateInv, dataVars, cloudVars, loopVars
<1>2. ASSUME NEW h \in Handlers, Cancelled(h)
      PROVE  TypeInv'
  <2>1. QueueOK'
    BY <1>2, Queued DEF Cancelled, Leave, QueueOK, TypeInv
  <2>2. JobsOK'
    BY <1>0, <1>2, Abandons DEF Cancelled
  <2>3. troubles' \in 0 .. MaxTroubles
    BY <1>2, Bounds DEF Cancelled, Trouble, TypeInv, CountOK
  <2> QED BY <1>0, <1>2, <2>1, <2>2, <2>3
          DEF Cancelled, TypeInv, DataOK, LoopOK, CountOK, LateInv, dataVars, cloudVars, loopVars
<1>3. CASE StreamOpensOrEnds
  <2>1. LoopOK' /\ LateInv'
    <3>1. 0 \in 0 .. MaxAttempts /\ 0 \in 0 .. 1
      BY Bounds
    <3>2. CASE KeepaliveStarted
      <4>1. /\ loop' = "interval" /\ attempt' = 0 /\ stop' = FALSE /\ late' = 0
        BY <3>2 DEF KeepaliveStarted
      <4>2. LoopOK'
        BY <3>1, <4>1 DEF LoopOK
      <4>3. LateInv'
        BY <4>1 DEF LateInv
      <4> QED BY <4>2, <4>3
    <3>3. CASE KeepaliveStopped
      BY <3>3 DEF KeepaliveStopped, TypeInv, LoopOK, LateInv
    <3> QED BY <1>3, <3>2, <3>3 DEF StreamOpensOrEnds
  <2>2. UNCHANGED <<taskVars, job, dataVars, cloudVars, troubles>>
    BY <1>3 DEF StreamOpensOrEnds
  <2> QED BY <1>0, <2>1, <2>2
          DEF TypeInv, JobsOK, QueueOK, DataOK, CountOK, taskVars, dataVars, cloudVars
<1>4. CASE KeepaliveCancelled
  <2>1. JobsOK'
    BY <1>0, <1>4, Abandons DEF KeepaliveCancelled
  <2>2. troubles' \in 0 .. MaxTroubles
    BY <1>4, Bounds DEF KeepaliveCancelled, Trouble, TypeInv, CountOK
  <2>3. LoopOK' /\ LateInv'
    BY <1>4 DEF KeepaliveCancelled, TypeInv, LoopOK, LateInv
  <2>4. UNCHANGED <<taskVars, dataVars, cloudVars>>
    BY <1>4 DEF KeepaliveCancelled
  <2> QED BY <1>0, <2>1, <2>2, <2>3, <2>4
          DEF TypeInv, QueueOK, DataOK, CountOK, taskVars, dataVars, cloudVars
<1>5. CASE Expire
  BY <1>0, <1>5
  DEF Expire, TypeInv, JobsOK, QueueOK, DataOK, LoopOK, CountOK, LateInv, taskVars, dataVars, loopVars
<1>6. CASE Crash
  <2>1. JobsOK' /\ QueueOK'
    <3>1. job' = [t \in Threads |-> NoJob] /\ queue' = <<>>
      BY <1>6 DEF Crash
    <3>2. NoJob \in JobType
      BY JobsMade
    <3> QED BY <3>1, <3>2 DEF JobsOK, QueueOK
  <2>2. troubles' \in 0 .. MaxTroubles
    BY <1>6, Bounds DEF Crash, Trouble, TypeInv, CountOK
  <2>3. DataOK'
    BY <1>6, Bounds, Tokens DEF Crash, TypeInv, DataOK, cloudVars
  <2>4. LoopOK' /\ LateInv' /\ served' = FALSE
    <3>1. /\ loop' = "off" /\ attempt' = 0 /\ stop' = FALSE /\ late' = 0 /\ served' = FALSE
      BY <1>6 DEF Crash
    <3>2. 0 \in 0 .. MaxAttempts /\ 0 \in 0 .. 1
      BY Bounds
    <3>3. LoopOK'
      BY <3>1, <3>2 DEF LoopOK
    <3>4. LateInv'
      BY <3>1 DEF LateInv
    <3> QED BY <3>1, <3>3, <3>4
  <2> QED BY <1>0, <2>1, <2>2, <2>3, <2>4 DEF TypeInv, CountOK
<1> QED BY <1>1, <1>2, <1>3, <1>4, <1>5, <1>6 DEF Environment

LEMMA InitTyped == Init => TypeInv
<1> SUFFICES ASSUME Init PROVE TypeInv
  OBVIOUS
<1>1. JobsOK /\ QueueOK
  <2>1. job = [t \in Threads |-> NoJob] /\ queue = <<>>
    BY DEF Init
  <2>2. NoJob \in JobType
    BY JobsMade
  <2> QED BY <2>1, <2>2 DEF JobsOK, QueueOK
<1>2. DataOK
  <2>1. token = Empty /\ header = 0 /\ file = FileOf("none", Empty) /\ issued = 0 /\ live = FALSE
    BY DEF Init
  <2>2. Empty \in Token /\ FileOf("none", Empty) \in File /\ 0 \in 0 .. MaxIssued
    BY Bounds, Tokens
  <2> QED BY <2>1, <2>2 DEF DataOK
<1>3. LoopOK /\ CountOK /\ LateInv
  <2>1. /\ loop = "off" /\ attempt = 0 /\ stop = FALSE /\ late = 0 /\ troubles = 0
        /\ served = FALSE /\ overlap = FALSE /\ meddled = FALSE
    BY DEF Init
  <2>2. 0 \in 0 .. MaxAttempts /\ 0 \in 0 .. MaxTroubles /\ 0 \in 0 .. 1
    BY Bounds
  <2>3. LoopOK
    BY <2>1, <2>2 DEF LoopOK
  <2>4. CountOK
    BY <2>1, <2>2 DEF CountOK
  <2>5. LateInv
    BY <2>1 DEF LateInv
  <2> QED BY <2>3, <2>4, <2>5
<1> QED BY <1>1, <1>2, <1>3 DEF TypeInv

LEMMA TypedStep == TypeInv /\ [Next]_vars => TypeInv'
<1>1. ASSUME TypeInv, UNCHANGED vars PROVE TypeInv'
  BY <1>1 DEF vars, pastVars, taskVars, dataVars, cloudVars, loopVars, TypeInv, JobsOK, QueueOK, DataOK,
     LoopOK, CountOK, LateInv
<1> QED BY <1>1, JobStepTyped, TaskStepTyped, LoopStepTyped, EnvironmentTyped DEF Next

LEMMA Typed == Spec => []TypeInv
BY InitTyped, TypedStep, PTL DEF Spec

\* Every variable stays in its type: the counts within their bounds, the jobs'
\* requests within MAX_RETRIES, the attempts within _KEEPALIVE_MAX_RETRIES.
THEOREM TypeCorrect == Spec => []TypeOK
<1>1. IInv /\ TypeInv => TypeOK
  BY InvIsTyped
<1> QED BY <1>1, Initial, Inductive, Typed, PTL DEF Spec

\* The stop event lets at most one more keep-alive call through.
THEOREM AtMostOneLateCall == Spec => []OneLateCall
<1>1. TypeInv => OneLateCall
  BY DEF TypeInv, LateInv, OneLateCall
<1> QED BY <1>1, Typed, PTL

-----------------------------------------------------------------------------
(***************************************************************************)
(* Steps of the tasks, and the rest, as the session sees them.             *)
(***************************************************************************)
Starts(h) == /\ task[h] = "waiting"
             /\ task'[h] = IF clients = 0 THEN "loading" ELSE "login"
             /\ job'[h].at = IF clients = 0 THEN "load" ELSE "login"
             /\ UNCHANGED <<token, header, clients, served>>
Builds(h) == /\ task[h] = "loading" /\ job[h].at = "done" /\ task'[h] = "login"
             /\ job'[h].at = "login" /\ clients' = clients + 1 /\ served' = served
             /\ token' = job[h].data /\ header' = job[h].data.session
Keeps(h)  == /\ task[h] = "login" /\ job[h].at = "done" /\ task'[h] = "saving" /\ job'[h].at = "save"
             /\ UNCHANGED <<token, header, clients, served>>
Ends(h)   == /\ task[h] \in {"login", "saving"} /\ job[h].at \in {"done", "failed"}
             /\ task'[h] = "idle" /\ job'[h].at = "none"
             /\ UNCHANGED <<token, header, clients>>

\* A step of h's task: no other is inside.
TaskMoves(h) ==
    /\ \A g \in Handlers \ {h} : task'[g] = task[g] /\ task[g] \notin Inside
    /\ \A t \in Threads \ {h} : job'[t] = job[t]
    /\ UNCHANGED <<file, loop>>
    /\ Starts(h) \/ Builds(h) \/ Keeps(h) \/ Ends(h)

\* Steps that leave the session alone.
Waits == {"interval", "due", "backoff"}

Aside ==
    /\ UNCHANGED <<token, header, file, clients, served>>
    /\ \A h \in Handlers : \/ task'[h] = task[h] /\ job'[h] = job[h]
                           \/ task'[h] = "idle"
                           \/ task'[h] = "waiting" /\ job'[h].at = "none"
    /\ \A t \in Threads :
          \/ job'[t] = job[t]
          \/ job'[t].at = "none" /\ job[t].at \in Submitted \cup {"done", "failed"}
          \/ t = Keeper /\ job'[t].at = "call" /\ loop = "due"
    /\ \/ job'[Keeper] = job[Keeper] /\ loop \in Waits
       \/ job'[Keeper].at = "none"
       \/ loop' \notin Waits
       \/ job'[Keeper] = job[Keeper] /\ loop' = loop
    /\ loop' # "off" => loop # "off" \/ served

LEMMA JobAts == NoJob.at = "none" /\ \A at \in JobAt : Job(at).at = at
BY DEF Job, NoJob

LEMMA TaskShape ==
    ASSUME IInv, TypeInv, NEW h \in Handlers, TaskStep(h)
    PROVE  TaskMoves(h)
<1> USE JobAtIs
<1>0. /\ h \in Threads /\ job \in [Threads -> JobType] /\ task \in [Handlers -> Places]
      /\ \A g \in Handlers : g # NoOne
  BY Bounds DEF Threads, TypeInv, JobsOK, IInv, TaskTypeOK
<1>1. CASE Acquire(h)
  <2>1. lock = NoOne /\ UNCHANGED <<token, header, file, clients, served, loop>>
    BY <1>1 DEF Acquire, Granted, dataVars, loopVars
  <2>2. \A g \in Handlers \ {h} : task'[g] = task[g] /\ task[g] \notin Inside
    BY <1>0, <1>1, <2>1 DEF Acquire, IInv, HolderIsInside
  <2>3. Starts(h) /\ \A t \in Threads \ {h} : job'[t] = job[t]
    BY <1>0, <1>1, <2>1, JobAts DEF Acquire, Granted, Starts
  <2> QED BY <2>1, <2>2, <2>3 DEF TaskMoves
<1>2. CASE Loaded(h) \/ LoggedIn(h) \/ Returned(h) \/ Raised(h)
  <2>1. task[h] \in Inside /\ UNCHANGED <<file, loop>>
    BY <1>2 DEF Loaded, LoggedIn, Returned, Raised, dataVars, loopVars
  <2>2. \A g \in Handlers \ {h} : task'[g] = task[g] /\ task[g] \notin Inside
    BY <1>0, <1>2, <2>1 DEF Loaded, LoggedIn, Returned, Raised, Leave, IInv, HolderIsInside
  <2>3. \A t \in Threads \ {h} : job'[t] = job[t]
    BY <1>0, <1>2 DEF Loaded, LoggedIn, Returned, Raised
  <2>4. Loaded(h) => Builds(h)
    BY <1>0, JobAts DEF Loaded, Builds, At
  <2>5. LoggedIn(h) => Keeps(h)
    BY <1>0, JobAts DEF LoggedIn, Keeps, At, dataVars
  <2>6. Returned(h) \/ Raised(h) => Ends(h)
    BY <1>0, JobAts DEF Returned, Raised, Leave, Ends, At, dataVars
  <2> QED BY <1>2, <2>1, <2>2, <2>3, <2>4, <2>5, <2>6 DEF TaskMoves
<1> QED BY <1>1, <1>2 DEF TaskStep

LEMMA LoopAside ==
    ASSUME IInv, TypeInv, LoopStep
    PROVE  Aside
<1>0. /\ job \in [Threads -> JobType] /\ Keeper \in Threads /\ Keeper \notin Handlers
      /\ Handlers \subseteq Threads
  BY Bounds DEF TypeInv, JobsOK, Threads
<1>1. UNCHANGED <<task, token, header, file, clients, served>>
  BY DEF LoopStep, LoopAlone, LoopCalls, taskVars, dataVars
<1>2. \A t \in Threads \ {Keeper} : job'[t] = job[t]
  BY <1>0 DEF LoopStep, LoopAlone, LoopCalls, KeepaliveCalls, KeepaliveAnswered
<1>3. CASE LoopAlone
  <2>1. job' = job /\ loop \in Waits
    BY <1>3 DEF LoopAlone, KeepaliveDue, KeepaliveSeesStop, SeesStop, Waits
  <2> QED BY <1>0, <1>1, <2>1 DEF Aside, Waits
<1>4. CASE KeepaliveCalls
  <2>1. job'[Keeper].at = "call" /\ loop = "due" /\ loop' = "calling"
    BY <1>0, <1>4, JobAts, JobAtIs DEF KeepaliveCalls
  <2> QED BY <1>0, <1>1, <1>2, <2>1 DEF Aside, Waits
<1>5. CASE KeepaliveAnswered
  <2>1. job'[Keeper].at = "none" /\ job[Keeper].at \in {"done", "failed"} /\ loop = "calling"
    BY <1>0, <1>5, JobAts DEF KeepaliveAnswered
  <2> QED BY <1>0, <1>1, <1>2, <2>1 DEF Aside
<1> QED BY <1>3, <1>4, <1>5 DEF LoopStep, LoopCalls

LEMMA EnvironmentAside ==
    ASSUME IInv, TypeInv, Environment, ~Crash
    PROVE  Aside
<1>0. /\ job \in [Threads -> JobType] /\ Keeper \in Threads /\ Keeper \notin Handlers
      /\ Handlers \subseteq Threads /\ task \in [Handlers -> Places]
  BY Bounds DEF TypeInv, JobsOK, Threads, IInv, TaskTypeOK
<1>1. ASSUME NEW h \in Handlers, Call(h) PROVE Aside
  <2>1. UNCHANGED <<token, header, file, clients, served, loop, job>>
    BY <1>1 DEF Call, dataVars, loopVars
  <2>2. task' = [task EXCEPT ![h] = "waiting"] /\ job[h].at = "none"
    BY <1>1 DEF Call, At
  <2> QED BY <1>0, <2>1, <2>2 DEF Aside
<1>2. ASSUME NEW h \in Handlers, Cancelled(h) PROVE Aside
  <2>1. UNCHANGED <<token, header, file, clients, served, loop>>
    BY <1>2 DEF Cancelled, dataVars, loopVars
  <2>2. /\ task' = [task EXCEPT ![h] = "idle"]
        /\ \/ job' = job
           \/ job[h].at \in Submitted /\ job' = [job EXCEPT ![h] = NoJob]
    BY <1>2 DEF Cancelled, Leave, Abandon
  <2>3. /\ \A t \in Threads \ {h} : job'[t] = job[t]
        /\ \/ job'[h] = job[h]
           \/ job'[h].at = "none" /\ job[h].at \in Submitted
    BY <1>0, <2>2, JobAts
  <2>4. \A g \in Handlers \ {h} : task'[g] = task[g]
    BY <1>0, <2>2
  <2> QED BY <1>0, <2>1, <2>2, <2>3, <2>4 DEF Aside
<1>3. CASE StreamOpensOrEnds
  <2>1. UNCHANGED <<token, header, file, clients, served, task, job>>
    BY <1>3 DEF StreamOpensOrEnds, taskVars, dataVars
  <2>2. \/ loop' = loop
        \/ served /\ job[Keeper].at = "none"
    BY <1>3 DEF StreamOpensOrEnds, KeepaliveStarted, KeepaliveStopped, At
  <2> QED BY <1>0, <2>1, <2>2 DEF Aside
<1>4. CASE KeepaliveCancelled
  <2>1. /\ UNCHANGED <<task, token, header, file, clients, served>> /\ loop' = "off"
        /\ \/ job' = job
           \/ job[Keeper].at \in Submitted /\ job' = [job EXCEPT ![Keeper] = NoJob]
    BY <1>4 DEF KeepaliveCancelled, Abandon, taskVars, dataVars
  <2>2. \A t \in Threads \ {Keeper} : job'[t] = job[t]
    BY <1>0, <2>1
  <2>3. \/ job'[Keeper] = job[Keeper]
        \/ job'[Keeper].at = "none" /\ job[Keeper].at \in Submitted
    BY <1>0, <2>1, JobAts
  <2> QED BY <1>0, <2>1, <2>2, <2>3 DEF Aside, Waits
<1>5. CASE Expire
  BY <1>5 DEF Expire, Aside, taskVars, dataVars, loopVars
<1> QED BY <1>1, <1>2, <1>3, <1>4, <1>5 DEF Environment

-----------------------------------------------------------------------------
(***************************************************************************)
(* While no two threads have worked on the session at the same time, the   *)
(* one that works on it is followed place by place.                        *)
(***************************************************************************)
PlacesInv ==
    /\ loop \in Waits => job[Keeper].at = "none"
    /\ \A h \in Handlers :
        /\ task[h] = "waiting" => job[h].at = "none"
        /\ task[h] = "loading" => job[h].at \in {"load", "done"}
        /\ task[h] = "saving"  => job[h].at \in {"save", "open", "write", "done", "failed"}

\* Nothing runs on the session before there is a client.
ClientInv ==
    clients = 0 =>
        /\ ~served /\ loop = "off"
        /\ \A t \in Threads : job[t].at \in {"none", "load", "done", "failed"}
        /\ \A h \in Handlers : task[h] \notin {"login", "saving"}

Solo == \A t, u \in Threads : Busy(t) /\ Busy(u) => t = u

\* What a save has in hand is what the client uses, unless another thread meddled.
SaveOK(h) ==
    task[h] = "saving" /\ ~meddled =>
        /\ job[h].at = "open"  => job[h].data = token
        /\ job[h].at = "write" => job[h].data = token /\ file.is = "blank"
        /\ job[h].at = "done"  => file = FileOf("whole", token)

\* Between the header and the refresh id a login has the new session in hand.
Setting == {"session", "rf", "token"}
Sound(tk) == tk.session # 0 => tk.refresh = tk.session

SettingOK(t) ==
    /\ job[t].at \in Setting => job[t].data = Of(header)
    /\ job[t].at = "rf" => token.session = header

Agreed == token.session # 0 => header = token.session /\ token.refresh = token.session
AgreedInv  == (\A t \in Threads : job[t].at \notin Setting) => Agreed
SettingInv == \A t \in Threads : SettingOK(t)

\* A token on its way to the file, in it, or on its way back is sound.
CarriesOK(t) ==
    /\ job[t].at \in {"open", "write"} => Sound(job[t].data)
    /\ t \in Handlers => (task[t] = "loading" /\ job[t].at = "done" => Sound(job[t].data))
FileInv == Sound(file.token) /\ \A t \in Threads : CarriesOK(t)

SaveInv == \A h \in Handlers : SaveOK(h)
Alone   == Solo /\ AgreedInv /\ SettingInv /\ FileInv

SessionInv == PlacesInv /\ ClientInv /\ SaveInv /\ (~overlap => Alone)

LEMMA BusyAt ==
    ASSUME NEW t \in Threads
    PROVE  /\ job[t].at \in LoggingIn \cup Saving => Busy(t)
           /\ t \in Handlers /\ task[t] = "saving" /\ job[t].at = "done" => Busy(t)
BY DEF Busy, At

\* overlap is raised by the step after which two threads work.
LEMMA SoloNext ==
    ASSUME CountOK, History, ~overlap'
    PROVE  ~overlap /\ Solo'
<1> DEFINE B == {t \in Threads : Busy(t)'}
           two == Cardinality(B) > 1
<1>1. ~overlap /\ ~two
  <2>1. overlap \in BOOLEAN /\ overlap' = (overlap \/ two)
    BY DEF CountOK, History
  <2> HIDE DEF two
  <2> QED BY <2>1, Zenon
<1>2. IsFiniteSet(B) /\ Cardinality(B) \in Nat
  <2>1. IsFiniteSet(Threads)
    BY Bounds, FS_AddElement DEF Threads
  <2> QED BY <2>1, FS_Subset, FS_CardinalityType
<1>3. ASSUME NEW t \in Threads, NEW u \in Threads, Busy(t)', Busy(u)', t # u
      PROVE  FALSE
  <2>1. t \in B /\ u \in B
    BY <1>3
  <2> HIDE DEF B
  <2>2. IsFiniteSet(B \ {t}) /\ Cardinality(B \ {t}) = Cardinality(B) - 1
    BY <1>2, <2>1, FS_RemoveElement
  <2>3. u \in B \ {t}
    BY <1>3, <2>1
  <2>4. Cardinality(B \ {t}) # 0 /\ Cardinality(B \ {t}) \in Nat
    BY <2>2, <2>3, FS_EmptySet, FS_CardinalityType
  <2> QED BY <1>1, <1>2, <2>2, <2>4
<1> QED BY <1>1, <1>3 DEF Solo

\* A job that works alone leaves every other where it may not touch the session.
LEMMA OthersIdle ==
    ASSUME Solo, NEW t \in Threads, Busy(t), NEW u \in Threads, u # t
    PROVE  /\ job[u].at \notin LoggingIn \cup Saving
           /\ u \in Handlers => ~(task[u] = "saving" /\ job[u].at = "done")
BY BusyAt DEF Solo

LEMMA JobPlaces ==
    ASSUME TypeInv, PlacesInv, ClientInv, NEW t \in Threads, NEW j \in JobType,
           job' = [job EXCEPT ![t] = j], Shape(t, j), UNCHANGED <<taskVars, loopVars>>
    PROVE  PlacesInv' /\ ClientInv'
<1>1. /\ job \in [Threads -> JobType] /\ job'[t] = j /\ \A u \in Threads \ {t} : job'[u] = job[u]
      /\ UNCHANGED <<task, clients, served, loop>> /\ Handlers \subseteq Threads
  BY DEF TypeInv, JobsOK, taskVars, loopVars, Threads
<1>2. PlacesInv'
  <2> SUFFICES ASSUME NEW h \in Handlers
               PROVE  /\ task[h] = "waiting" => job'[h].at = "none"
                      /\ task[h] = "loading" => job'[h].at \in {"load", "done"}
                      /\ task[h] = "saving" =>
                             job'[h].at \in {"save", "open", "write", "done", "failed"}
    <3>1. loop \in Waits => job'[Keeper].at = "none"
      BY <1>1 DEF PlacesInv, Shape, Works, Loads, Exports, Forgets, Issues, Session, Refresh,
         Drops, Takes, Serves, Opens, Writes, Threads
    <3> QED BY <1>1, <3>1 DEF PlacesInv
  <2>1. CASE h # t
    BY <1>1, <2>1 DEF PlacesInv
  <2>2. CASE h = t
    BY <1>1, <2>2 DEF PlacesInv, Shape, Works, Loads, Exports, Forgets, Issues, Session, Refresh,
       Drops, Takes, Serves, Opens, Writes
  <2> QED BY <2>1, <2>2
<1>3. ClientInv'
  <2> SUFFICES ASSUME clients = 0
               PROVE  \A u \in Threads : job'[u].at \in {"none", "load", "done", "failed"}
    BY <1>1 DEF ClientInv
  <2>1. job[t].at \in {"none", "load", "done", "failed"}
    BY DEF ClientInv
  <2>2. j.at \in {"none", "done"}
    BY <2>1 DEF Shape, Works, Loads, Exports, Forgets, Issues, Session, Refresh,
       Drops, Takes, Serves, Opens, Writes
  <2> QED BY <1>1, <2>2 DEF ClientInv
<1> QED BY <1>2, <1>3

\* No thread meddled with a save that goes on, and none does in this step.
LEMMA Unmeddled ==
    ASSUME History, ~meddled', NEW h \in Handlers, task[h] = "saving", task'[h] = "saving"
    PROVE  ~meddled /\ (job'[h] = job[h] => token' = token /\ file' = file)
<1>1. meddled' = \E g \in Handlers : Saves(g) /\ (meddled \/ Meddles(g))
  BY DEF History
<1>2. ~(Saves(h) /\ (meddled \/ Meddles(h)))
  BY <1>1, Zenon
<1>3. Saves(h)
  BY DEF Saves
<1>4. ~meddled /\ ~Meddles(h)
  BY <1>2, <1>3, Zenon
<1> QED BY <1>4 DEF Meddles

LEMMA JobSaves ==
    ASSUME TypeInv, PlacesInv, SaveInv, History, NEW t \in Threads, NEW j \in JobType,
           job' = [job EXCEPT ![t] = j], Shape(t, j), UNCHANGED <<taskVars, loopVars>>
    PROVE  SaveInv'
<1>1. /\ job \in [Threads -> JobType] /\ job'[t] = j /\ \A u \in Threads \ {t} : job'[u] = job[u]
      /\ UNCHANGED task /\ Handlers \subseteq Threads
  BY DEF TypeInv, JobsOK, taskVars, Threads
<1> SUFFICES ASSUME NEW h \in Handlers, task[h] = "saving", ~meddled'
             PROVE  /\ job'[h].at = "open"  => job'[h].data = token'
                    /\ job'[h].at = "write" => job'[h].data = token' /\ file'.is = "blank"
                    /\ job'[h].at = "done"  => file' = FileOf("whole", token')
  BY <1>1 DEF SaveInv, SaveOK
<1>2. ~meddled /\ (job'[h] = job[h] => token' = token /\ file' = file)
  BY <1>1, Unmeddled
<1>3. CASE h # t
  BY <1>1, <1>2, <1>3 DEF SaveInv, SaveOK
<1>4. CASE h = t
  <2>1. job[t].at \in {"save", "open", "write", "done", "failed"}
    BY <1>4 DEF PlacesInv
  <2>2. \/ Works(t, j) /\ j.at = "failed"
        \/ Exports(t, j) \/ Opens(t, j) \/ Writes(t, j)
    BY <1>4, <2>1 DEF Shape, Works, Loads, Forgets, Issues, Session, Refresh, Drops, Takes, Serves
  <2>3. FileOf("blank", Empty).is = "blank"
    BY DEF FileOf
  <2> QED BY <1>1, <1>2, <1>4, <2>2, <2>3 DEF Exports, Opens, Writes, Still, SaveInv, SaveOK
<1> QED BY <1>3, <1>4

LEMMA SoundValues ==
    /\ Empty.session = 0 /\ Sound(Empty)
    /\ \A n \in 0 .. MaxIssued : Of(n).session = n /\ Of(n).refresh = n
    /\ \A is, tk : FileOf(is, tk).token = tk
BY DEF Empty, Sound, Of, FileOf

LEMMA JobSets ==
    ASSUME TypeInv, Solo, SettingInv, NEW t \in Threads, NEW j \in JobType,
           job' = [job EXCEPT ![t] = j], Shape(t, j)
    PROVE  SettingInv'
<1>1. /\ job \in [Threads -> JobType] /\ job'[t] = j /\ \A u \in Threads \ {t} : job'[u] = job[u]
      /\ token \in Token /\ header \in 0 .. MaxIssued
  BY DEF TypeInv, JobsOK, DataOK
<1> SUFFICES ASSUME NEW u \in Threads
             PROVE  /\ job'[u].at \in Setting => job'[u].data = Of(header')
                    /\ job'[u].at = "rf" => token'.session = header'
  BY DEF SettingInv, SettingOK
<1>2. CASE u # t
  <2>1. CASE job[u].at \in Setting
    <3>1. job[t].at \notin LoggingIn \cup Saving
      BY <1>2, <2>1, BusyAt, OthersIdle DEF Setting, LoggingIn
    <3>2. Still
      BY <3>1 DEF LoggingIn, Saving, Shape, Works, Loads, Exports, Forgets, Issues, Session, Refresh,
         Drops, Takes, Serves, Opens, Writes
    <3> QED BY <1>1, <1>2, <3>2 DEF Still, SettingInv, SettingOK
  <2>2. CASE job[u].at \notin Setting
    BY <1>1, <1>2, <2>2 DEF Setting
  <2> QED BY <2>1, <2>2
<1>3. CASE u = t
  <2>1. CASE Issues(t, j)
    BY <1>1, <1>3, <2>1 DEF Issues
  <2>2. CASE Session(t, j)
    <3>1. job[t].data = Of(header) /\ header' = header /\ j.data = job[t].data
      BY <2>2 DEF Session, SettingInv, SettingOK, Setting
    <3>2. token' = [token EXCEPT !.session = job[t].data.session] /\ token'.session = header
      BY <1>1, <2>2, <3>1, SoundValues DEF Session, Token
    <3> QED BY <1>1, <1>3, <3>1, <3>2
  <2>3. CASE ~Issues(t, j) /\ ~Session(t, j)
    <3>1. j.at \notin Setting
      BY <2>3 DEF Setting, Shape, Works, Loads, Exports, Forgets, Refresh, Drops, Takes, Serves,
         Opens, Writes
    <3> QED BY <1>1, <1>3, <3>1 DEF Setting
  <2> QED BY <2>1, <2>2, <2>3
<1> QED BY <1>2, <1>3

LEMMA JobAgrees ==
    ASSUME TypeInv, Solo, SettingInv, AgreedInv, NEW t \in Threads, NEW j \in JobType,
           job' = [job EXCEPT ![t] = j], Shape(t, j)
    PROVE  AgreedInv'
<1>1. /\ job \in [Threads -> JobType] /\ job'[t] = j /\ \A u \in Threads \ {t} : job'[u] = job[u]
      /\ token \in Token /\ header \in 0 .. MaxIssued
  BY DEF TypeInv, JobsOK, DataOK
<1> SUFFICES ASSUME \A u \in Threads : job'[u].at \notin Setting
             PROVE  Agreed'
  BY DEF AgreedInv
<1>2. j.at \notin Setting
  BY <1>1
<1>3. CASE job[t].at \notin Setting
  <2>1. Agreed
    BY <1>1, <1>3 DEF AgreedInv
  <2>2. CASE Drops(t, j)
    BY <2>2, SoundValues DEF Drops, Agreed
  <2>3. CASE Serves(t, j)
    BY <1>1, <2>1, <2>3 DEF Serves, Agreed, Token
  <2>4. CASE ~Drops(t, j) /\ ~Serves(t, j)
    <3>1. token' = token /\ header' = header
      BY <1>2, <1>3, <2>4 DEF Setting, Shape, Works, Loads, Exports, Forgets, Issues, Session,
         Refresh, Takes, Opens, Writes, Still
    <3> QED BY <2>1, <3>1 DEF Agreed
  <2> QED BY <2>2, <2>3, <2>4
<1>4. CASE job[t].at \in Setting
  <2>1. job[t].data = Of(header) /\ (job[t].at = "rf" => token.session = header)
    BY <1>4 DEF SettingInv, SettingOK
  <2>2. Refresh(t, j) \/ Takes(t, j)
    BY <1>2, <1>4 DEF Setting, Shape, Works, Loads, Exports, Forgets, Issues, Session, Drops, Serves,
       Opens, Writes
  <2>3. Of(header).session = header /\ Of(header).refresh = header
    BY <1>1, SoundValues
  <2>4. CASE Refresh(t, j)
    <3>1. token' = [token EXCEPT !.refresh = header] /\ header' = header /\ token.session = header
      BY <2>1, <2>3, <2>4 DEF Refresh
    <3> QED BY <1>1, <3>1 DEF Agreed, Token
  <2>5. CASE Takes(t, j)
    BY <2>1, <2>3, <2>5 DEF Takes, Agreed
  <2> QED BY <2>2, <2>4, <2>5
<1> QED BY <1>3, <1>4

LEMMA JobCarries ==
    ASSUME TypeInv, PlacesInv, Solo', AgreedInv, FileInv, NEW t \in Threads, NEW j \in JobType,
           job' = [job EXCEPT ![t] = j], Shape(t, j), UNCHANGED <<taskVars, loopVars>>
    PROVE  FileInv'
<1>1. /\ job \in [Threads -> JobType] /\ job'[t] = j /\ \A u \in Threads \ {t} : job'[u] = job[u]
      /\ task' = task
  BY DEF TypeInv, JobsOK, taskVars
<1>2. ASSUME NEW u \in Threads, u # t PROVE CarriesOK(u)'
  BY <1>1, <1>2 DEF FileInv, CarriesOK
<1>3. CarriesOK(t)'
  <2>1. j.at = "write" => Sound(j.data)
    BY DEF FileInv, CarriesOK, Shape, Works, Loads, Exports, Forgets, Issues, Session, Refresh,
       Drops, Takes, Serves, Opens, Writes
  <2>2. ASSUME j.at = "open" PROVE Sound(j.data)
    <3>1. j.data = token /\ job[t].at = "save"
      BY <2>2 DEF Shape, Works, Loads, Exports, Forgets, Issues, Session, Refresh, Drops, Takes,
         Serves, Opens, Writes
    <3>2. Busy(t)'
      BY <1>1, <2>2 DEF Busy, At, Saving
    <3>3. ASSUME NEW u \in Threads, job[u].at \in Setting PROVE FALSE
      <4>1. u # t /\ job'[u].at \in LoggingIn
        BY <1>1, <3>1, <3>3 DEF Setting, LoggingIn
      <4>2. Busy(u)'
        BY <4>1 DEF Busy
      <4> QED BY <3>2, <4>1, <4>2 DEF Solo
    <3> QED BY <3>1, <3>3 DEF AgreedInv, Agreed, Sound
  <2>3. ASSUME t \in Handlers, task[t] = "loading", j.at = "done" PROVE Sound(j.data)
    <3>1. job[t].at \in {"load", "done"}
      BY <2>3 DEF PlacesInv
    <3>2. j.data = file.token
      BY <2>3, <3>1 DEF Shape, Works, Loads, Exports, Forgets, Issues, Session, Refresh, Drops, Takes,
         Serves, Opens, Writes
    <3> QED BY <3>2 DEF FileInv
  <2> QED BY <1>1, <2>1, <2>2, <2>3 DEF CarriesOK
<1>4. Sound(file'.token)
  <2>1. CASE Opens(t, j) \/ Writes(t, j)
    <3>1. \/ file' = FileOf("blank", Empty) \/ file' = FileOf("torn", Empty)
          \/ file' = FileOf("whole", job[t].data)
      BY <2>1 DEF Opens, Writes
    <3>2. Sound(job[t].data)
      BY <2>1 DEF Opens, Writes, FileInv, CarriesOK
    <3> QED BY <3>1, <3>2, SoundValues
  <2>2. CASE ~Opens(t, j) /\ ~Writes(t, j)
    <3>1. file' = file
      BY <2>2 DEF Shape, Works, Loads, Exports, Forgets, Issues, Session, Refresh, Drops, Takes, Serves,
         Still
    <3> QED BY <3>1 DEF FileInv
  <2> QED BY <2>1, <2>2
<1> QED BY <1>2, <1>3, <1>4 DEF FileInv

\* A step of a job.
LEMMA JobKeepsSession ==
    ASSUME TypeInv, SessionInv, NEW t \in Threads, JobStep(t)
    PROVE  SessionInv'
<1>1. PICK j \in JobType : job' = [job EXCEPT ![t] = j] /\ Shape(t, j)
  BY JobShape
<1>2. UNCHANGED <<taskVars, loopVars>>
  BY JobShape
<1>3. PlacesInv' /\ ClientInv'
  BY <1>1, <1>2, JobPlaces DEF SessionInv
<1>4. SaveInv'
  BY <1>1, <1>2, JobSaves DEF SessionInv, JobStep
<1>5. ASSUME ~overlap' PROVE Alone'
  <2>1. ~overlap /\ Solo'
    BY <1>5, SoloNext DEF JobStep, TypeInv
  <2>2. Alone /\ PlacesInv
    BY <2>1 DEF SessionInv
  <2>4. SettingInv'
    BY <1>1, <2>2, JobSets DEF Alone
  <2>5. AgreedInv'
    BY <1>1, <2>2, JobAgrees DEF Alone
  <2>6. FileInv'
    BY <1>1, <1>2, <2>1, <2>2, JobCarries DEF Alone
  <2> QED BY <2>1, <2>4, <2>5, <2>6 DEF Alone
<1> QED BY <1>3, <1>5, <1>4 DEF SessionInv

\* A step of a task.
LEMMA TaskKeepsSession ==
    ASSUME IInv, TypeInv, SessionInv, NEW h \in Handlers, TaskStep(h)
    PROVE  SessionInv'
<1>0. /\ TaskMoves(h) /\ Handlers \subseteq Threads /\ h # Keeper /\ Keeper \in Threads
      /\ clients \in Nat /\ (task[h] = "loading" => clients = 0)
  BY TaskShape, Bounds DEF Threads, IInv, TaskTypeOK, LoadingFoundNone
<1>1. /\ \A g \in Handlers \ {h} : task'[g] = task[g] /\ task[g] \notin Inside
      /\ \A t \in Threads \ {h} : job'[t] = job[t]
      /\ file' = file /\ loop' = loop
  BY <1>0 DEF TaskMoves
<1>2. PlacesInv /\ ClientInv
  BY DEF SessionInv
<1>3. job[h].at \notin Setting
  BY <1>0, <1>2 DEF TaskMoves, Starts, Builds, Keeps, Ends, PlacesInv, Setting
<1>4. job'[h].at \in {"load", "login", "save", "none"}
  BY <1>0 DEF TaskMoves, Starts, Builds, Keeps, Ends
<1>5. PlacesInv'
  <2>1. /\ task'[h] # "waiting"
        /\ task'[h] = "loading" => job'[h].at = "load"
        /\ task'[h] = "saving" => job'[h].at = "save"
    BY <1>0 DEF TaskMoves, Starts, Builds, Keeps, Ends
  <2> QED BY <1>0, <1>1, <1>2, <2>1 DEF PlacesInv
<1>6. ClientInv'
  <2> SUFFICES ASSUME clients' = 0 PROVE ClientInv'
    BY DEF ClientInv
  <2>1. Starts(h) /\ clients = 0
    BY <1>0, <1>2 DEF TaskMoves, Starts, Builds, Keeps, Ends, ClientInv
  <2> QED BY <1>0, <1>1, <1>2, <2>1 DEF ClientInv, Starts
<1>7. SaveInv'
  BY <1>1, <1>4 DEF SaveInv, SaveOK
<1>8. ASSUME ~overlap' PROVE Alone'
  <2>1. ~overlap /\ Solo'
    BY <1>8, SoloNext DEF TaskStep, TypeInv
  <2>2. Alone
    BY <2>1 DEF SessionInv
  <2>4. SettingInv'
    <3> SUFFICES ASSUME NEW t \in Threads, job'[t].at \in Setting PROVE SettingOK(t)'
      BY DEF SettingInv, SettingOK, Setting
    <3>1. t # h /\ job'[t] = job[t]
      BY <1>1, <1>4 DEF Setting
    <3>2. clients # 0
      BY <1>2, <3>1 DEF ClientInv, Setting
    <3>3. token' = token /\ header' = header
      BY <1>0, <3>2 DEF TaskMoves, Starts, Builds, Keeps, Ends
    <3> QED BY <2>2, <3>1, <3>3 DEF Alone, SettingInv, SettingOK
  <2>5. AgreedInv'
    <3>1. CASE Builds(h)
      <4>1. Sound(job[h].data)
        BY <1>0, <2>2, <3>1 DEF Builds, Alone, FileInv, CarriesOK
      <4> QED BY <3>1, <4>1 DEF Builds, AgreedInv, Agreed, Sound
    <3>2. CASE ~Builds(h)
      <4>1. token' = token /\ header' = header
        BY <1>0, <3>2 DEF TaskMoves, Starts, Keeps, Ends
      <4> QED BY <1>1, <1>3, <2>2, <4>1 DEF Alone, AgreedInv, Agreed
    <3> QED BY <3>1, <3>2
  <2>6. FileInv'
    <3>1. ASSUME NEW t \in Threads PROVE CarriesOK(t)'
      <4>1. CASE t = h
        BY <1>4, <4>1 DEF CarriesOK
      <4>2. CASE t # h
        BY <1>1, <2>2, <4>2 DEF Alone, FileInv, CarriesOK
      <4> QED BY <4>1, <4>2
    <3> QED BY <1>1, <2>2, <3>1 DEF Alone, FileInv
  <2> QED BY <2>1, <2>4, <2>5, <2>6 DEF Alone
<1> QED BY <1>5, <1>6, <1>8, <1>7 DEF SessionInv

\* The keep-alive loop, new calls and cancellations.
LEMMA AsideKeepsSession ==
    ASSUME IInv, TypeInv, SessionInv, Aside, History
    PROVE  SessionInv'
<1>0. Handlers \subseteq Threads /\ Keeper \in Threads /\ Keeper \notin Handlers
  BY Bounds DEF Threads
<1>1. /\ UNCHANGED <<token, header, file, clients, served>>
      /\ \A h \in Handlers : \/ task'[h] = task[h] /\ job'[h] = job[h]
                             \/ task'[h] = "idle"
                             \/ task'[h] = "waiting" /\ job'[h].at = "none"
      /\ \A t \in Threads :
            \/ job'[t] = job[t]
            \/ job'[t].at = "none" /\ job[t].at \in Submitted \cup {"done", "failed"}
            \/ t = Keeper /\ job'[t].at = "call" /\ loop = "due"
  BY DEF Aside
<1>2. PlacesInv /\ ClientInv
  BY DEF SessionInv
<1>3. PlacesInv'
  <2>1. loop' \in Waits => job'[Keeper].at = "none"
    BY <1>2 DEF Aside, PlacesInv
  <2> QED BY <1>1, <1>2, <2>1 DEF PlacesInv
<1>4. ClientInv'
  <2> SUFFICES ASSUME clients = 0 PROVE ClientInv'
    BY <1>1 DEF ClientInv
  <2>1. loop = "off" /\ ~served /\ loop' = "off"
    BY <1>2 DEF ClientInv, Aside
  <2> QED BY <1>1, <1>2, <2>1 DEF ClientInv
<1>5. SaveInv'
  <2> SUFFICES ASSUME NEW h \in Handlers, task'[h] = "saving", ~meddled' PROVE SaveOK(h)'
    BY DEF SaveInv, SaveOK
  <2>1. task[h] = "saving" /\ job'[h] = job[h]
    BY <1>1
  <2>2. ~meddled
    BY <2>1, Unmeddled
  <2> QED BY <1>1, <2>1, <2>2 DEF SessionInv, SaveInv, SaveOK
<1>6. ASSUME ~overlap' PROVE Alone'
  <2>1. ~overlap /\ Solo'
    BY <1>6, SoloNext DEF TypeInv
  <2>2. Alone
    BY <2>1 DEF SessionInv
  <2>4. \A t \in Threads : /\ job'[t].at \in Setting => job'[t] = job[t]
                           /\ job[t].at \in Setting => job'[t] = job[t]
    BY <1>0, <1>1, <1>2 DEF Setting, Submitted, PlacesInv, Waits
  <2>5. SettingInv'
    BY <1>1, <2>2, <2>4 DEF Alone, SettingInv, SettingOK, Setting
  <2>6. AgreedInv'
    BY <1>1, <2>2, <2>4 DEF Alone, AgreedInv, Agreed
  <2>7. FileInv'
    BY <1>1, <2>2 DEF Alone, FileInv, CarriesOK
  <2> QED BY <2>1, <2>5, <2>6, <2>7 DEF Alone
<1> QED BY <1>3, <1>4, <1>6, <1>5 DEF SessionInv

\* A restart finds the file as it was left.
LEMMA CrashKeepsSession ==
    ASSUME TypeInv, SessionInv, Crash, History
    PROVE  SessionInv'
<1>1. /\ \A t \in Threads : job'[t].at = "none"
      /\ \A h \in Handlers : task'[h] = "idle"
      /\ token' = Empty /\ file' = file /\ loop' = "off" /\ served' = FALSE
  BY JobAts DEF Crash
<1>2. PlacesInv' /\ ClientInv'
  BY <1>1, Bounds DEF PlacesInv, ClientInv, Waits, Threads
<1>3. SaveInv'
  BY <1>1 DEF SaveInv, SaveOK
<1>4. ASSUME ~overlap' PROVE Alone'
  <2>1. ~overlap /\ Solo'
    BY <1>4, SoloNext DEF TypeInv
  <2>2. Alone
    BY <2>1 DEF SessionInv
  <2>3. SettingInv'
    BY <1>1 DEF SettingInv, SettingOK, Setting
  <2>4. AgreedInv'
    BY <1>1, SoundValues DEF AgreedInv, Agreed
  <2>5. FileInv'
    BY <1>1, <2>2 DEF Alone, FileInv, CarriesOK
  <2> QED BY <2>1, <2>3, <2>4, <2>5 DEF Alone
<1> QED BY <1>2, <1>4, <1>3 DEF SessionInv

LEMMA SessionInit == Init => SessionInv
<1> SUFFICES ASSUME Init PROVE SessionInv
  OBVIOUS
<1>1. /\ \A t \in Threads : job[t].at = "none"
      /\ \A h \in Handlers : task[h] = "idle"
      /\ token = Empty /\ file.token = Empty /\ loop = "off" /\ served = FALSE
  BY JobAts, SoundValues DEF Init
<1>2. PlacesInv /\ ClientInv
  BY <1>1, Bounds DEF PlacesInv, ClientInv, Waits, Threads
<1>3. Solo
  BY <1>1 DEF Solo, Busy, At, LoggingIn, Saving
<1>4. SaveInv /\ SettingInv
  BY <1>1 DEF SaveInv, SaveOK, SettingInv, SettingOK, Setting
<1>5. AgreedInv /\ FileInv
  BY <1>1, SoundValues DEF AgreedInv, Agreed, FileInv, CarriesOK
<1> QED BY <1>2, <1>3, <1>4, <1>5 DEF SessionInv, Alone

LEMMA SessionStep == IInv /\ TypeInv /\ SessionInv /\ [Next]_vars => SessionInv'
<1>1. ASSUME SessionInv, UNCHANGED vars PROVE SessionInv'
  BY <1>1 DEF vars, pastVars, taskVars, dataVars, loopVars, SessionInv, PlacesInv, ClientInv, Alone, Solo, Busy,
     At, SaveInv, SaveOK, AgreedInv, Agreed, SettingInv, SettingOK, FileInv, CarriesOK
<1>2. ASSUME IInv, TypeInv, SessionInv, LoopStep \/ Environment PROVE SessionInv'
  <2>1. History
    BY <1>2 DEF LoopStep, Environment
  <2>2. CASE LoopStep
    BY <1>2, <2>1, <2>2, LoopAside, AsideKeepsSession
  <2>3. CASE Environment /\ ~Crash
    BY <1>2, <2>1, <2>3, EnvironmentAside, AsideKeepsSession
  <2>4. CASE Crash
    BY <1>2, <2>1, <2>4, CrashKeepsSession
  <2> QED BY <1>2, <2>2, <2>3, <2>4
<1> QED BY <1>1, <1>2, JobKeepsSession, TaskKeepsSession DEF Next

LEMMA SessionKept == Spec => []SessionInv
BY Initial, Inductive, InitTyped, TypedStep, SessionInit, SessionStep, PTL DEF Spec

\* A handler about to return has left its client's token in a whole file, unless
\* another thread changed one of the two while it saved (_save_token).
THEOREM SavedFirst == Spec => []SavedBeforeReturn
<1>1. SessionInv => SavedBeforeReturn
  BY DEF SessionInv, SaveInv, SaveOK, SavedBeforeReturn, At
<1> QED BY <1>1, SessionKept, PTL

\* The header, the session id and the refresh id are of one session once no login
\* is under way, unless two threads worked on it at the same time (login()).
THEOREM OneSession == Spec => []SettledIsOneSession
<1>1. ASSUME SessionInv, ~overlap, \A t \in Threads : ~Busy(t) PROVE Agreed
  <2>1. \A t \in Threads : job[t].at \notin Setting
    BY <1>1, BusyAt DEF Setting, LoggingIn
  <2> QED BY <1>1, <2>1 DEF SessionInv, Alone, AgreedInv
<1>2. SessionInv => SettledIsOneSession
  BY <1>1 DEF SettledIsOneSession, Agreed
<1> QED BY <1>2, SessionKept, PTL
=============================================================================
