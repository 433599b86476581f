---------------------------- MODULE LoginSession ----------------------------
(***************************************************************************)
(* The login session of a config entry (ezviz_client.py, EzvizClient) over *)
(* the vendored client's login(), and the keep-alive loop of a stream,     *)
(* whose requests log in again on HTTP 401.                                *)
(*                                                                         *)
(* A handler is a task of the event loop inside _async_ensure_logged_in.   *)
(* It does not log in itself: the load, the login and the save are jobs of *)
(* the executor, which run on when the handler is cancelled.  The          *)
(* keep-alive's request is a job too, and takes no lock to log in.         *)
(*                                                                         *)
(* The cloud issues sessions 1, 2, ...  A token is what _token keeps of    *)
(* one: the session id, the refresh id, whether service_urls is there.     *)
(***************************************************************************)
EXTENDS Naturals, Sequences, FiniteSets, SequencesExt

CONSTANTS
    Handlers,    \* calls of _async_ensure_logged_in alive at a time, at most
    Keeper,      \* the keep-alive loop of the stream being watched
    NoOne,
    MaxRetries,  \* MAX_RETRIES of the vendored client
    MaxAttempts, \* _KEEPALIVE_MAX_RETRIES
    MaxIssued,   \* bound: sessions the cloud issues
    MaxTroubles  \* bound: cancelled tasks, restarts, failed writes of the file and
                 \* answers that send the login to another region, together

ASSUME LoginAssumption ==
    /\ Keeper \notin Handlers
    /\ NoOne \notin Handlers
    /\ {MaxRetries, MaxIssued, MaxTroubles} \subseteq Nat /\ MaxAttempts \in Nat \ {0}
    /\ IsFiniteSet(Handlers)

Threads == Handlers \cup {Keeper}

Token == [session : 0 .. MaxIssued, refresh : 0 .. MaxIssued, urls : BOOLEAN]
Empty == [session |-> 0, refresh |-> 0, urls |-> FALSE]
Of(n) == [session |-> n, refresh |-> n, urls |-> FALSE]

\* The token file: absent, emptied by a writer, damaged, or a token.
File   == [is : {"none", "blank", "torn", "whole"}, token : Token]
FileOf(is, tk) == [is |-> is, token |-> tk]

VARIABLES
    task,     \* per handler: where it is
    queue,    \* waiters of _login_lock, in order
    lock,     \* its holder
    clients,  \* vendored clients constructed since the start (0: _client is None)
    served,   \* a handler has returned since the start
    job,      \* per thread: its executor job
    token,    \* _token
    header,   \* the sessionId header of the requests session
    file,     \* the token file
    issued,   \* sessions the cloud has issued
    live,     \* the cloud honours what it has issued
    loop,     \* where the keep-alive loop is
    attempt,  \* its attempt
    stop,     \* its stop event
    late,     \* calls it made after the stop event
    troubles, \* how many there have been
    overlap,  \* two threads have worked on the session at the same time
    meddled   \* another thread has changed token or file while a handler saves

cloudVars == <<issued, live>>
taskVars  == <<task, queue, lock, clients, served>>
loopVars  == <<loop, attempt, stop, late>>
dataVars  == <<token, header, file>>
pastVars  == <<overlap, meddled>>
vars == <<taskVars, job, dataVars, cloudVars, loopVars, troubles, pastVars>>

-----------------------------------------------------------------------------
(***************************************************************************)
(* Jobs.  frames are the requests that wait for a login to return: what    *)
(* each is, and how often it has been repeated.                            *)
(***************************************************************************)
Frame == [at : {"asking", "request"}, tries : 0 .. MaxRetries]

NoJob   == [at |-> "none", tries |-> 0, data |-> Empty, frames |-> <<>>]
Job(at) == [NoJob EXCEPT !.at = at]

Submitted == {"load", "login", "save", "call"}
LoggingIn == {"begin", "refresh", "session", "rf", "password", "token", "urls", "asking"}
Saving    == {"open", "write"}
JobAt     == {"none", "done", "failed", "request"} \cup Submitted \cup LoggingIn \cup Saving

JobOK(j) ==
    /\ j.at \in JobAt
    /\ j.tries \in 0 .. MaxRetries
    /\ j.data \in Token
    /\ j.frames \in Seq(Frame)

At(t, at)   == job[t].at = at
Goto(t, at) == job' = [job EXCEPT ![t].at = at]
End(t, at)  == job' = [job EXCEPT ![t] = Job(at)]

\* login() returns: to the job, or to the request that called it.
LoginReturns(t) ==
    IF job[t].frames = <<>>
      THEN End(t, "done")
      ELSE LET f == Head(job[t].frames) IN
           job' = [job EXCEPT ![t] = [at |-> f.at, tries |-> f.tries + 1,
                                      data |-> Empty, frames |-> Tail(job[t].frames)]]

Busy(t) ==
    \/ job[t].at \in LoggingIn \cup Saving
    \/ t \in Handlers /\ task[t] = "saving" /\ At(t, "done")

Trouble == troubles < MaxTroubles /\ troubles' = troubles + 1

-----------------------------------------------------------------------------
Init ==
    /\ task = [h \in Handlers |-> "idle"]
    /\ queue = <<>> /\ lock = NoOne /\ clients = 0 /\ served = FALSE
    /\ job = [t \in Threads |-> NoJob]
    /\ token = Empty /\ header = 0 /\ file = FileOf("none", Empty)
    /\ issued = 0 /\ live = FALSE
    /\ loop = "off" /\ attempt = 0 /\ stop = FALSE /\ late = 0
    /\ troubles = 0
    /\ overlap = FALSE /\ meddled = FALSE

-----------------------------------------------------------------------------
(***************************************************************************)
(* The vendored login(), one step per read or write of the shared client.  *)
(***************************************************************************)
LoginStart(t) ==
    /\ job[t].at \in {"login", "begin"}
    /\ Goto(t, IF token.session # 0 /\ token.refresh # 0 THEN "refresh" ELSE "password")

\* Mutant: the header keeps the old session.
IssueNoHeader(t, next) ==
    /\ issued < MaxIssued
    /\ issued' = issued + 1 /\ live' = TRUE /\ header' = header
    /\ job' = [job EXCEPT ![t].at = next, ![t].data = Of(issued')]

\* The cloud answers with a new session; the header takes it first.
Issue(t, next) ==
    /\ issued < MaxIssued
    /\ issued' = issued + 1 /\ live' = TRUE /\ header' = issued'
    /\ job' = [job EXCEPT ![t].at = next, ![t].data = Of(issued')]

Refreshed(t) ==
    /\ At(t, "refresh")
    /\ Issue(t, "session")
    /\ UNCHANGED <<taskVars, token, file, loopVars, troubles>>

SetSession(t) ==
    /\ At(t, "session")
    /\ token' = [token EXCEPT !.session = job[t].data.session]
    /\ Goto(t, "rf")

SetRefresh(t) ==
    /\ At(t, "rf")
    /\ token' = [token EXCEPT !.refresh = job[t].data.refresh]
    /\ IF token.urls THEN LoginReturns(t) ELSE Goto(t, "urls")

\* 403: the token is dropped and login() starts over, with the password.
RefreshExpired(t) ==
    /\ At(t, "refresh")
    /\ token' = Empty
    /\ Goto(t, "begin")

PasswordAccepted(t) ==
    /\ At(t, "password")
    /\ Issue(t, "token")
    /\ UNCHANGED <<taskVars, token, file, loopVars, troubles>>

SetToken(t) ==
    /\ At(t, "token")
    /\ token' = job[t].data
    /\ Goto(t, "urls")

\* 1100: wrong region, login() starts over there.
RegionMoved(t) ==
    /\ At(t, "password")
    /\ Trouble
    /\ Goto(t, "begin")
    /\ UNCHANGED <<taskVars, dataVars, cloudVars, loopVars>>

\* get_service_urls needs a session id before it asks.
AskUrls(t) ==
    /\ At(t, "urls")
    /\ IF token.session = 0 THEN End(t, "failed")
       ELSE job' = [job EXCEPT ![t].at = "asking", ![t].tries = 0]

UrlsAnswered(t) ==
    /\ At(t, "asking")
    /\ token' = [token EXCEPT !.urls = TRUE]
    /\ LoginReturns(t)

\* An error answer, a lost connection or a timeout: the exception leaves the job.
Refused(t) ==
    /\ job[t].at \in {"refresh", "password", "asking", "request"}
    /\ End(t, "failed")

-----------------------------------------------------------------------------
(***************************************************************************)
(* _http_request: 401, which the cloud answers once it no longer honours   *)
(* the session, logs in again and repeats the request.                     *)
(***************************************************************************)
Denied(t) ==
    /\ job[t].at \in {"asking", "request"}
    /\ ~live
    /\ IF job[t].tries >= MaxRetries
         THEN End(t, "failed")
         ELSE job' = [job EXCEPT ![t] =
                [Job("begin") EXCEPT !.frames =
                    <<[at |-> job[t].at, tries |-> job[t].tries]>> \o job[t].frames]]

CallStart(t) ==
    /\ At(t, "call")
    /\ Goto(t, "request")

RequestAnswered(t) ==
    /\ At(t, "request")
    /\ End(t, "done")

Expire ==
    /\ live
    /\ live' = FALSE
    /\ UNCHANGED <<taskVars, job, dataVars, issued, loopVars, troubles>>

-----------------------------------------------------------------------------
(***************************************************************************)
(* _load_token and _save_token.  write_text opens the file, which empties  *)
(* it, and then writes; over what another writer has put there in between  *)
(* the result is this token, or this token and the tail of a longer one.   *)
(***************************************************************************)
LoadToken(t) ==
    /\ At(t, "load")
    /\ job' = [job EXCEPT ![t].at = "done", ![t].data = file.token]

\* Mutant: a file that is there is kept.
ExportOnce(t) ==
    /\ At(t, "save")
    /\ IF file.is # "whole"
         THEN job' = [job EXCEPT ![t].at = "open", ![t].data = token]
         ELSE End(t, "done")

ExportToken(t) ==
    /\ At(t, "save")
    /\ job' = [job EXCEPT ![t].at = "open", ![t].data = token]

OpenFile(t) ==
    /\ At(t, "open")
    /\ file' = FileOf("blank", Empty)
    /\ Goto(t, "write")
    /\ UNCHANGED <<taskVars, token, header, cloudVars, loopVars, troubles>>

WriteFile(t) ==
    /\ At(t, "write")
    /\ \/ file' = FileOf("whole", job[t].data)
       \/ file.is # "blank" /\ file' = FileOf("torn", Empty)
    /\ End(t, "done")
    /\ UNCHANGED <<taskVars, token, header, cloudVars, loopVars, troubles>>

SaveFails(t) ==
    /\ job[t].at \in {"open", "write"}
    /\ Trouble
    /\ End(t, "failed")
    /\ UNCHANGED <<taskVars, dataVars, cloudVars, loopVars>>

-----------------------------------------------------------------------------
(***************************************************************************)
(* _async_ensure_logged_in.                                                *)
(***************************************************************************)
Call(h) ==
    /\ task[h] = "idle" /\ At(h, "none")
    /\ task' = [task EXCEPT ![h] = "waiting"]
    /\ queue' = Append(queue, h)
    /\ UNCHANGED <<lock, clients, served, job, dataVars, cloudVars, loopVars, troubles>>

\* Mutant: no lock.
GrantedAtOnce(h) == task[h] = "waiting"

\* asyncio.Lock serves its waiters in order.
Granted(h) == task[h] = "waiting" /\ lock = NoOne /\ queue # <<>> /\ h = Head(queue)

\* The queue without the waiter h.
Without(h) == IF h \in ToSet(queue) THEN RemoveAt(queue, CHOOSE i \in DOMAIN queue : queue[i] = h)
                                    ELSE queue

Acquire(h) ==
    /\ Granted(h)
    /\ lock' = h
    /\ queue' = Without(h)
    /\ IF clients = 0
         THEN task' = [task EXCEPT ![h] = "loading"] /\ job' = [job EXCEPT ![h] = Job("load")]
         ELSE task' = [task EXCEPT ![h] = "login"] /\ job' = [job EXCEPT ![h] = Job("login")]
    /\ UNCHANGED <<clients, served, dataVars, cloudVars, loopVars, troubles>>

Loaded(h) ==
    /\ task[h] = "loading" /\ At(h, "done")
    /\ clients' = clients + 1
    /\ token' = job[h].data
    /\ header' = job[h].data.session
    /\ task' = [task EXCEPT ![h] = "login"]
    /\ job' = [job EXCEPT ![h] = Job("login")]
    /\ UNCHANGED <<queue, lock, served, file, cloudVars, loopVars, troubles>>

LoggedIn(h) ==
    /\ task[h] = "login" /\ At(h, "done")
    /\ task' = [task EXCEPT ![h] = "saving"]
    /\ job' = [job EXCEPT ![h] = Job("save")]
    /\ UNCHANGED <<queue, lock, clients, served, dataVars, cloudVars, loopVars, troubles>>

\* Mutant: the lock is released on success only.
ReleaseOnSuccess(h) == lock' = IF lock = h /\ At(h, "done") THEN NoOne ELSE lock

Release(h) == lock' = IF lock = h THEN NoOne ELSE lock

Leave(h) ==
    /\ task' = [task EXCEPT ![h] = "idle"]
    /\ queue' = Without(h)
    /\ Release(h)

Returned(h) ==
    /\ task[h] = "saving" /\ At(h, "done")
    /\ Leave(h)
    /\ served' = TRUE
    /\ job' = [job EXCEPT ![h] = NoJob]
    /\ UNCHANGED <<clients, dataVars, cloudVars, loopVars, troubles>>

Raised(h) ==
    /\ task[h] \in {"login", "saving"} /\ At(h, "failed")
    /\ Leave(h)
    /\ job' = [job EXCEPT ![h] = NoJob]
    /\ UNCHANGED <<clients, served, dataVars, cloudVars, loopVars, troubles>>

\* A cancelled task takes a job that has not started with it, no other.
Abandon(t) ==
    \/ job' = job
    \/ job[t].at \in Submitted /\ job' = [job EXCEPT ![t] = NoJob]

\* The view's handler may be cancelled at any await.
Cancelled(h) ==
    /\ task[h] # "idle"
    /\ Trouble
    /\ Leave(h)
    /\ Abandon(h)
    /\ UNCHANGED <<clients, served, dataVars, cloudVars, loopVars>>

\* An abandoned job ends, and nobody looks at its result.
JobForgotten(t) ==
    /\ job[t].at \in {"done", "failed"}
    /\ IF t \in Handlers THEN task[t] = "idle" ELSE loop # "calling"
    /\ job' = [job EXCEPT ![t] = NoJob]

-----------------------------------------------------------------------------
(***************************************************************************)
(* _keepalive_loop.  A wait that times out ends in "due"; the call is      *)
(* submitted when the task next runs, and the stop event may come between. *)
(***************************************************************************)
KeepaliveStarted ==
    /\ served /\ loop = "off" /\ At(Keeper, "none")
    /\ loop' = "interval" /\ attempt' = 0 /\ stop' = FALSE /\ late' = 0

KeepaliveStopped ==
    /\ loop # "off" /\ ~stop
    /\ stop' = TRUE
    /\ UNCHANGED <<loop, attempt, late>>

\* Mutant: the backoff does not look at the stop event.
BackoffDeaf == ~stop \/ loop = "backoff"

TimesOut == ~stop

KeepaliveDue ==
    /\ loop \in {"interval", "backoff"} /\ TimesOut
    /\ attempt' = IF loop = "interval" THEN 1 ELSE attempt + 1
    /\ loop' = "due"
    /\ UNCHANGED <<stop, late>>

\* Mutant: the interval does not.
IntervalDeaf == stop /\ loop = "backoff"

SeesStop == stop /\ loop \in {"interval", "backoff"}

KeepaliveSeesStop ==
    /\ SeesStop
    /\ loop' = "off"
    /\ UNCHANGED <<attempt, stop, late>>

KeepaliveCalls ==
    /\ loop = "due"
    /\ loop' = "calling"
    /\ job' = [job EXCEPT ![Keeper] = Job("call")]
    /\ late' = IF stop THEN late + 1 ELSE late
    /\ UNCHANGED <<attempt, stop>>

\* Mutant: one attempt too many.
OnceMore == attempt <= MaxAttempts

Retries == attempt < MaxAttempts

KeepaliveAnswered ==
    /\ loop = "calling" /\ job[Keeper].at \in {"done", "failed"}
    /\ job' = [job EXCEPT ![Keeper] = NoJob]
    /\ IF At(Keeper, "failed") /\ Retries
         THEN loop' = "backoff" /\ attempt' = attempt
         ELSE loop' = "interval" /\ attempt' = 0
    /\ UNCHANGED <<stop, late>>

\* The handler that awaits the loop in close() is cancelled, and cancels it.
KeepaliveCancelled ==
    /\ loop # "off" /\ stop
    /\ Trouble
    /\ loop' = "off"
    /\ Abandon(Keeper)
    /\ UNCHANGED <<taskVars, dataVars, cloudVars, attempt, stop, late>>

-----------------------------------------------------------------------------
\* Home Assistant dies and starts again: what is left is the token file.
Crash ==
    /\ Trouble
    /\ task' = [h \in Handlers |-> "idle"]
    /\ queue' = <<>> /\ lock' = NoOne /\ clients' = 0 /\ served' = FALSE
    /\ job' = [t \in Threads |-> NoJob]
    /\ token' = Empty /\ header' = 0
    /\ loop' = "off" /\ attempt' = 0 /\ stop' = FALSE /\ late' = 0
    /\ UNCHANGED <<file, cloudVars>>

-----------------------------------------------------------------------------
\* While h saves, a step other than its own changes what it saves or where.
Saves(h)   == task[h] = "saving" /\ task'[h] = "saving"
Meddles(h) == job'[h] = job[h] /\ (token' # token \/ file' # file)

\* overlap and meddled are history variables; meddled is of the save under way.
History ==
    /\ overlap' = (overlap \/ Cardinality({t \in Threads : Busy(t)'}) > 1)
    /\ meddled' = \E h \in Handlers : Saves(h) /\ (meddled \/ Meddles(h))

\* Steps of a job that change the job only, and the token only.
JobAlone(t) ==
    /\ \/ LoginStart(t) \/ AskUrls(t) \/ Refused(t) \/ Denied(t) \/ CallStart(t)
       \/ RequestAnswered(t) \/ LoadToken(t) \/ ExportToken(t) \/ JobForgotten(t)
    /\ UNCHANGED <<taskVars, dataVars, cloudVars, loopVars, troubles>>

TokenAlone(t) ==
    /\ SetSession(t) \/ SetRefresh(t) \/ RefreshExpired(t) \/ SetToken(t) \/ UrlsAnswered(t)
    /\ UNCHANGED <<taskVars, header, file, cloudVars, loopVars, troubles>>

JobStep(t) ==
    /\ \/ JobAlone(t) \/ TokenAlone(t) \/ Refreshed(t) \/ PasswordAccepted(t) \/ RegionMoved(t)
       \/ OpenFile(t) \/ WriteFile(t) \/ SaveFails(t)
    /\ History

TaskStep(h) ==
    /\ Acquire(h) \/ Loaded(h) \/ LoggedIn(h) \/ Returned(h) \/ Raised(h)
    /\ History

LoopAlone ==
    /\ KeepaliveDue \/ KeepaliveSeesStop
    /\ UNCHANGED <<taskVars, job, dataVars, cloudVars, troubles>>

LoopCalls ==
    /\ KeepaliveCalls \/ KeepaliveAnswered
    /\ UNCHANGED <<taskVars, dataVars, cloudVars, troubles>>

LoopStep == (LoopAlone \/ LoopCalls) /\ History

StreamOpensOrEnds ==
    /\ KeepaliveStarted \/ KeepaliveStopped
    /\ UNCHANGED <<taskVars, job, dataVars, cloudVars, troubles>>

Environment ==
    /\ \/ \E h \in Handlers : Call(h) \/ Cancelled(h)
       \/ StreamOpensOrEnds \/ KeepaliveCancelled \/ Expire \/ Crash
    /\ History

Next ==
    \/ \E t \in Threads : JobStep(t)
    \/ \E h \in Handlers : TaskStep(h)
    \/ LoopStep
    \/ Environment

Spec == Init /\ [][Next]_vars

\* Executor threads, the event loop and the timers run; the cloud's answer, or
\* the timeout every request carries, comes.  Nothing is asked of the viewers.
FairSpec ==
    /\ Spec
    /\ \A t \in Threads : WF_vars(JobStep(t))
    /\ \A h \in Handlers : WF_vars(TaskStep(h))
    /\ WF_vars(LoopStep)

-----------------------------------------------------------------------------
TypeOK ==
    /\ task \in [Handlers -> {"idle", "waiting", "loading", "login", "saving"}]
    /\ queue \in Seq(Handlers) /\ lock \in Handlers \cup {NoOne}
    /\ clients \in Nat /\ served \in BOOLEAN
    /\ DOMAIN job = Threads /\ \A t \in Threads : JobOK(job[t])
    /\ token \in Token /\ header \in 0 .. MaxIssued
    /\ file \in File
    /\ issued \in 0 .. MaxIssued /\ live \in BOOLEAN
    /\ loop \in {"off", "interval", "due", "calling", "backoff"}
    /\ attempt \in 0 .. MaxAttempts /\ stop \in BOOLEAN /\ late \in Nat
    /\ troubles \in 0 .. MaxTroubles /\ {overlap, meddled} \subseteq BOOLEAN

\* One vendored client, one token, per config entry: no two handlers load the
\* token and construct a client, whatever is cancelled while it loads
\* (the `_client is None` test and the await under _login_lock).
OneClient == clients <= 1

\* Once no login is under way the request header, the session id and the refresh
\* id belong to one session, unless two threads logged in at the same time (the
\* separate assignments of login()); a 403 leaves no token.
SettledIsOneSession ==
    (~overlap /\ token.session # 0 /\ \A t \in Threads : ~Busy(t)) =>
        header = token.session /\ token.refresh = token.session

\* When a handler is about to return, the file is whole and holds the token the
\* client uses, so that a restart finds it (_save_token), except when another thread
\* changed one of the two since the save began: the lock excludes neither the jobs
\* of a cancelled handler nor the keep-alive's login on 401, and the file may then be
\* behind the client, or damaged.  What happened before the save makes no difference.
SavedBeforeReturn ==
    \A h \in Handlers :
        (task[h] = "saving" /\ At(h, "done") /\ ~meddled) =>
            file = FileOf("whole", token)

\* The stop event lets at most one more keep-alive call through: the one whose
\* wait had just timed out (_keepalive_loop looks at it before every other).
OneLateCall == late <= 1

\* Every _async_ensure_logged_in returns, raises or is cancelled: no handler is
\* left waiting for a lock that a cancelled one holds.
EveryCallEnds == \A h \in Handlers : task[h] # "idle" ~> task[h] = "idle"

\* The keep-alive loop ends after its stop event, whatever the cloud answers.
KeepaliveEnds == stop ~> loop = "off"
=============================================================================
