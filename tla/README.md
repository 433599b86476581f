# Verification of the EZVIZ stream integration

TLA+ models, TLC runs and TLAPS proofs for the Home Assistant integration in
`custom_components/ezviz_stream` and for the experimental P2P client in `p2p`.

## 1. The system

| Component | Source | State | Operations | Interacts with |
|---|---|---|---|---|
| Entry set-up | `__init__.py` | `hass.data[DOMAIN][entry_id]` | set-up creates a client, unload pops it | the view looks the client up |
| Stream view | `ezviz_client.py:482-580` | one handler task per HTTP request: response, placeholder task, `real_data_ready`, queue | get | attach, detach, placeholder, aiohttp |
| Placeholder | `ezviz_client.py:366-433` | an ffmpeg process, the stop event | start, write, stop, reap | writes to the same response as the view |
| Registry of shared streams | `ezviz_client.py:112-159` | `_shared_streams`, per client | attach, detach | the view, `_SharedStream` |
| Shared stream | `ezviz_client.py:231-348` | subscriber set, closed flag, started flag, copy job, keep-alive task and stop event | ensure_started, write, close | executor threads, the event loop, subscriber queues |
| Keep-alive | `ezviz_client.py:436-479` | attempt counter, stop event | wait, call, retry | the cloud |
| Login session | `ezviz_client.py:160-228`, `vendor/pyezvizapi/client.py` | `_client`, `_token`, the token file, `_login_lock` | login, refresh, save; 401 retries | handlers, copy and keep-alive threads |
| VTM cloud copy | `vendor/pyezvizapi/cloud_stream.py`, `stream.py` | reader and writer threads, ffmpeg, socket | start, redirect, read, write, terminate | the shared stream's output |
| P2P session | `p2p/session.py` | bring-up events, session ids, receive thread, tickers | punch, set-up, data, close | UDP peer, cloud relay |
| SRT receive window | `p2p/session.py:781-912` | next sequence, reorder buffer, flush timer, last acknowledged | receive, flush, acknowledge | receive thread, timer thread, depacketizer |
| HIK-RTP depacketizer | `p2p/hikrtp.py` | fragment buffer | feed | P2P session |
| Codecs and cloud API | `p2p/v3.py`, `p2p/api.py`, `p2p/client.py` | none | encode, decode, list devices | P2P session |
| Demo servers | `scripts/vtm_demo.py`, `p2p/demo.py` | a blocking queue per viewer, threads | GET | VTM copy, P2P session |
| Vendored rest of pyezvizapi | `vendor/pyezvizapi/*` | - | - | not used by the stream path |

What makes the system hard: event-loop tasks that suspend between looking
something up and using it, executor threads that post to the loop, handlers the
server may cancel at any await, a clean-up that itself awaits, bounded queues
that drop, UDP packets lost and reordered with timers that race the receiver.

What makes each part correct:

- Registry and shared streams: no two live connections per client; a stream is
  registered exactly while it has viewers; the last viewer out stops everything,
  nobody else stops anything.
- View and placeholder: placeholder and real data never interleave; a lost
  viewer's handler returns and leaves nothing behind; every viewer learns of the
  end of the stream.
- Keep-alive: only while somebody watches, bounded attempts.
- Login: one login at a time, a usable token, a file that survives a crash.
- Receive window: packets reach the depacketizer in order and once, a lost one is
  skipped in bounded time.
- Depacketizer: what it emits is made of the fragments of one unit.
- Session: bring-up and close end, in every order of answers and timeouts.

The hazards, each at its line and with the properties aimed at it, are listed in
`PROJECT.json`.

## 2. Plan

Most important first: what a viewer of the camera depends on, then the login it
goes through, then the experimental P2P client and the demo servers.

| | Modules | State |
|---|---|---|
| 1 | `StreamFanOut`, the abstract `SharedSession` it implements, `StreamFanOut_proof` | done |
| 2 | `SrtReorder`, `SrtReorder_proof`, `HikRtp`, `HikRtp_proof` | done |
| 3 | `LoginSession` with the keep-alive loop, `LoginSession_proof` | done, every safety property proved |
| 4 | `P2PSession` and `P2PDemo`, which composes it with the demo server, `P2PDemo_proof` | done |
| 5 | `VtmDemo`, `VtmDemo_proof` | done |
| 6 | `P2PWire`, the codec and the routing of datagrams, `P2PWire_proof` | done, every property proved |

Every invariant of a passing run is a theorem for every value of the constants.
Left to prove, in this order: an abstract in-order channel that may skip, and that
`SrtReorder` implements it; the measures behind the liveness properties, as action
properties (what each step of a closing session, of a login call's retries, of a gap
that waits for its timer lowers).

## 3. The modules and the code

### StreamFanOut and SharedSession

An asyncio task runs undisturbed from one await to the next, so an action is
what a handler does between two awaits, and `pc[r]` is the await the handler of
request `r` is at. Executor threads reach the loop through
`call_soon_threadsafe`, so what the copy does to the queues is an action of the
loop. No lock of `_shared_streams_lock` or `_start_lock` is held across a
suspension, so neither needs a variable.

| `pc` | The handler is at | Actions from there |
|---|---|---|
| `idle` | not called yet | `Arrive`: looks the client up |
| `prepare` | `response.prepare` | `PrepareFails`, `Attach` |
| `login` | `async_ensure_logged_in`, subscribed | `LoginOk` (starts the jobs), `LoginFail` |
| `watch` | `queue.get` with a timeout | `GetChunk`, `GetEnd`, `IdleTimeout` |
| `handoff` | the placeholder, before the first chunk | `HandoffDone` |
| `write` | `response.write` | `WriteOk`, `WriteReset` |
| `drain` | the placeholder, in the `finally` clause | `Drained` |
| `close` | `shared.close()`, copy job and keep-alive | `Closed` |
| `failclose`, `faildrain` | the same two on the way out of a failed login | `FailClosed`, `FailDrained` |
| `done` | returned | |

`Detach` (registry, subscriber set, closed flag, stop event) is what
`async_detach_stream` does up to its first suspension. `Cancel*` are the points
at which the server may cancel the task of a lost request. That it does is an
assumption on aiohttp (`handler_cancellation`), a constant of the module: the
code counts on it (`ezviz_client.py:569` catches `CancelledError`).
`SetupEntry` and `UnloadEntry` are `__init__.py`; a reload leaves the old client
to the handlers that hold it. A chunk has no content; the copy job is one that
writes, ends or fails.

`SharedSession` says what the code's comments promise per client: one session
for a group of viewers, opened once, given up with the last. `Watchers` and
`Session` are the refinement mapping. It is the view from the registry: a
session being torn down is already given up there, which is why the refinement
holds while `OneConnection`, about the copy jobs themselves, does not.

### SrtReorder

The receive thread, any number of `threading.Timer` threads and the ticker share
the window under `_lock`. `Receive` is the dispatch of a video or keep-alive
datagram, the four disjuncts of `DeliverInOrder` are the four outcomes of
`_deliver_in_order`, `OnFlush` is the timer callback, `Feed` one `_feed_lock`
section, `Close` the part of `close()` that touches the window. A timer that has
elapsed is `fired` and can no longer be cancelled, as in the standard library;
its callback may run late and find another gap, another timer, or nothing. Sequence
numbers wrap at `2 * Half` (2^31 in the code). Payloads are their numbers.

### HikRtp

One action per kind of payload `process` tells apart; the state is the FU
header and fragments. A payload is <<unit, fragment>>: what unit its bytes come
from is what the properties need, and what the code cannot see. A payload of a type the extractor lets through
is `nal`, one it drops (types 22-31, 36-38, 41-47, a broken length prefix, an invalid
NAL) is `dropped`: both end an FU in progress. A payload of FU type with no FU header is
`stub`: it is passed through and ends nothing.

### LoginSession

`task[h]` is a call of `_async_ensure_logged_in`, `lock` and `queue` are
`_login_lock`, which asyncio serves in order. `job[t]` is the executor job of a
handler or of the keep-alive loop. A cancelled handler releases the lock; the job
it submitted runs on unless it has not started. The vendored `login()` is one
step per read or write of the client the threads share: `LoginStart` reads the
token, `Refreshed` or `PasswordAccepted` is the answer and the header,
`SetSession`, `SetRefresh`, `SetToken` the assignments, `AskUrls` and
`UrlsAnswered` the service URLs. `Denied` is `_http_request` on 401: it logs in
again and repeats the request; as the service URLs are asked for in the same
way, the requests waiting for a login form a stack, `frames`. The file is
emptied by `OpenFile` and filled by `WriteFile`. `Crash` keeps the file only.
Two history variables, of no code: `overlap` remembers for good that two threads worked
on the session at once; `meddled` is of the save under way, and says that another
thread changed the token or the file since it began.
The keep-alive loop is `loop`; its two waits end by time-out (`KeepaliveDue`) or
by the stop event (`KeepaliveSeesStop`).

One keep-alive loop at a time stands for the stream being watched. The copy job
of the stream logs in on 401 in the same way and would be another such thread. An
answer the cloud accepts holds every field the code reads: one without
`refreshSessionId` would raise between `SetSession` and `SetRefresh`.

### P2PSession and P2PDemo

`main` is where the caller of `connect()` is: waking the device, the paged device
list, the secret, then `Session.start` up to its wait for the data session, then,
in `P2PDemo`, the places of the demo's `do_GET`, and `close()`. The receive thread
(`recv`), the ticker, the pump and ffmpeg are its companions. An action is what a
thread does between two blocking calls; the locks of the session are held over
single assignments and need no variable. `Handle` is `_handle_packet`, one
disjunct per kind of datagram that changes the session: the servers' answers,
punches, the device's inductions and conclusions, data. `Signal` is what follows
a conclusion or a punch once it is answered. `Delivered` is the servers and the
device getting what the client sends.

`net` is the set of datagrams under way, so they are reordered as they like;
`Lose` drops one, and the device repeats what it gets no answer to, `Tries`
times. `HolePunch` and `nat` are the client's side of the punch: the NAT lets in
what comes from a port that has been written to, and the rest of the device's
datagrams wait for that. The window behind the data handler is `SrtReorder`, the
bytes are `P2PWire`. What answers without changing the session's state is left
out: SRT keep-alives, echoes of the device's set-ups, acknowledgements as
datagrams, the best-effort shutdown.

`P2PDemo` extends the session with its only user: `Serve`, `PumpReads`,
`PumpWrites`, `Remux` and the `finally` clause are the handler, the pump thread
and ffmpeg; a pipe holds one chunk. `broken` is the place of a handler that raised
outside its `try`, in `Popen` or writing the headers, with the session still up.

`JoinThreads` waits for the receive thread and the ticker, or gives one up after its two
seconds, which is a trouble. What close() leaves behind is then a thread that has been
told to end: `NothingLeftOpen` is about sockets, ffmpeg and the events, `EverythingEnds`
says that the threads follow.

### VtmDemo

Four threads of one request: `Handler` (`do_GET`), `Copy` (`_copy` and the
methods of `_QueueOutput`), `Placeholder` and `Keeper`. `Put` is `Queue.put`,
which blocks. `Copy` writes numbered chunks; a 0 on the wire is placeholder video,
a 0 in the queue the sentinel. The placeholder looks at its stop event (`looping`), waits
for its ffmpeg to fill 32768 bytes (`fetching`), writes them (`writing`) and looks
again. `JoinPlaceholder` returns when that thread is over, and, with `giveUp` set, when it
blocks: in the start of ffmpeg, in that read, whatever the viewer does, or in a write to a
viewer that has stalled. A write is one chunk: when two threads write at once, how
their bytes mix within a chunk is not told apart.

### P2PWire

The encoder, the decoder and the checksum of `v3.py` as they compute, byte by
byte; the messages `session.py` frames by hand; `Route`, which is
`_handle_packet`'s choice of handler. The cipher shifts each byte by the key: the
properties are about lengths, flags and padding, not about AES. The loops over bytes
and attributes are recursive functions, as `CrcLoop`, which has for each index what
the loop returns from there, and the exclusive or is the sum of the bits that differ;
`MCP2PWire` compares that with the community module's `^^` for every pair of bytes.

## 4. What the runs check

| Run | Question | Answer |
|---|---|---|
| `FanOut_safety` | Do registry, subscribers, connection, keep-alive, queues and placeholders agree in every interleaving, cancellations included? Is it the abstract session? | yes |
| `FanOut_live` | Does a lost viewer's handler return, and an abandoned connection end, if handlers are not cancelled? | yes |
| `FanOut_drain` | Are there never two real connections? | **no** |
| `FanOut_cancel` | Does the copy end when all viewers are gone, if handlers may be cancelled? | **no** |
| `FanOut_fullqueue` | Does every viewer learn of the end of the stream? | **no** |
| `Srt_window` | Is nothing stranded, released out of order, lost or repeated, and is every buffered payload handed over in the end? | yes |
| `HikRtp_loss` | Do NAL units begin at their own Start, use a payload once, survive their neighbours' losses? Are two units mixed only when two fragments are lost? | yes |
| `Login_session` | One vendored client; one session once logins settle; a usable file when a handler returns; one late keep-alive call at most? | yes; the one session but for two threads at work on it at once, the file but for a save during which another thread changes token or file |
| `Login_live` | Does every login call end, and the keep-alive loop after its stop event? | yes |
| `P2P_session` | Does the session come up over a network with one trouble, with the control sub-session's id and the video's socket? Does a handler that returns or raises leave no socket and no ffmpeg, and do its threads end? Is a lost viewer noticed? | yes, but for the exceptions the properties name |
| `Vtm_demo` | Does a viewer of the VTM demo get the stream whole and in order, is at most one chunk of the placeholder in it, and is the camera let go once it leaves? | yes, but for the exceptions below; **no** to the comment that none is |
| `P2P_wire` | Does the codec lose, invent or confuse anything, on intact, changed and short datagrams? Does each datagram reach its handler? | it confuses nothing but for the exceptions below |

The findings, three by a counterexample and the last by a property that states what the
code does instead:

- **Two connections** (`FanOut_drain`). `async_detach_stream` takes the stream out
  of the registry before it waits for the copy job to end. A viewer that comes in
  between opens a second connection. A reload of the entry while somebody watches
  does the same with two clients.
- **A connection with no viewer** (`FanOut_cancel`). A cancellation that reaches
  the handler while it waits for its placeholder in the `finally` clause, or while
  it logs in (`except Exception` lets it pass), skips `async_detach_stream`.
- **A viewer that waits for ever** (`FanOut_fullqueue`). The end sentinel is
  dropped on a full queue like any chunk. A viewer that joins a stream whose copy
  is over, but which others are still attached to, gets no sentinel either.
- **A late placeholder chunk** (`Vtm_demo`). The comment at `vtm_demo.py:242-244` has the
  placeholder stopped "before writing any real bytes, so the two never interleave on
  the socket". The join at 248 gives up after five seconds, and the thread looks at its
  stop event only before a read that waits for 32768 bytes of a still image at two
  frames a second (158-163). So a chunk of placeholder video may follow a real one, with a
  viewer that reads all along. `OneLateChunk` is what is left of the comment: it is one
  chunk at most, and only when the join ran out.

What else the modelling showed, which no statement of the repository
contradicts clearly enough for a run of its own, or which a property names as its
exception:

- `SrtReorder`: what is released under `_lock` is fed to the extractor after it, and
  two threads can swap there (`session.py:838`; the docstring at 811-814 speaks of
  what is released).
- `HikRtp`: when the End of one FU and the Start of the next are lost, the fragments
  of both become one NAL (`hikrtp.py:168`), and a lost middle fragment is not
  noticed; `MixedOnlyAcrossTwoLosses` says it takes those two losses.
- `LoginSession`: `login()` with a session in hand always refreshes it over the
  network (`client.py:4092`), where `ezviz_client.py:192-193` expects that only of a
  missing or expired one.
- `P2PSession`: an initial sequence number of 0 makes the session id 0, which means
  none (`ComesUp` excludes it). A repeated induction that arrives while the other
  sub-session is set up turns the acknowledgements to the control socket
  (`AcksTargetVideo` excludes repetition). If the device streams from a port other than
  the one it announced and no punch arrived, answers go to the announced one.
- `LoginSession`: the lock does not cover the job of a cancelled handler or the
  keep-alive's login on 401. Such a login during a save leaves the file behind the
  client, and two saves at once may leave it damaged; `SavedBeforeReturn` names that
  (`meddled`), `SettledIsOneSession` names two logins at once (`overlap`).
- `P2PDemo`: a `Popen` that fails, or a viewer that leaves before the headers are
  written, leaves the session running, and with it the pump and ffmpeg if they were
  started (`demo.py:112-145`, outside the `try`). The pump goes on
  after the None that marks the end of the frames until it is stopped.
- `VtmDemo`: a handler that finds the queue full when its viewer has left waits for ever
  to put its own sentinel, and the camera is kept awake (`vtm_demo.py:112-114`,
  270-274; `CameraLetGo` names it as `Stuck`). A queue time-out followed by the end of the
  copy can leave the last chunks unread (257).
- `P2PWire`: the checksum that `v3.py:125-130` calls no standard CRC computes
  CRC-8/MAXIM. The header length of a play request wraps
  for a user id of 228 bytes or more (`session.py:431`). Data packets with a sequence
  number of upper half 0x7534 are taken for the device's set-up (`session.py:537`).

`src/README.md:109` ("Each viewer opens its own independent upstream EZVIZ
connection") describes the code before streams were shared.

Deadlock is not checked where the system may stop: every request is used once,
the device sends finitely many packets, the bounds on what the cloud issues run
out, a demo request is over.

### Bounds

- `FanOut_safety`: two requests, two set-ups of the entry, queues of two, all
  cancellation points. Every property is about at most two viewers, streams or
  clients; a queue of two holds a chunk and the sentinel. The proofs are for any
  number. The viewers are alike (`Interchangeable`), which is sound as no liveness
  is checked there. `FanOut_live` has one client, a queue of one and no symmetry.
- `Srt_window`: six packets and `MaxAhead` 3 with `Half` 8, starting at 14: two
  gaps can be buffered at once, a packet can be too far ahead, and the numbers
  wrap inside the run (14, 15, 0, ...). Two timer threads allow a stale callback beside
  a new timer. One datagram comes twice. A keep-alive has the number of no packet.
- `HikRtp_loss`: ten units, FUs back to back and next to every other kind; every
  subset of the payloads may be lost.
- `Login_session`: two handlers, two sessions issued (an old and a new one), one
  repeat of a request, two keep-alive attempts, and at most `MaxTroubles` = 2
  cancellations, restarts, failed writes and region moves together. `Login_live` has
  one of them and one session.
- `P2P_session`: one viewer, two servers, two device ports, two pages, two sends of each
  datagram, one trouble (a repetition, a time-out, a failing socket or ffmpeg, a join given
  up). The sub-sessions are told apart by their numbers, 7 or 0
  and 9. One trouble is what it takes to break a step of a sequence that is not
  protected; the theorems are for any number.
- `Vtm_demo`: a queue of two and four chunks, so that the queue is full with more to
  come; two stalls, one during the placeholder's write and one for the queue; the
  placeholder may fill and write any number of chunks, as those before the stream count as
  one on the wire; the keep-alive's three attempts are the code's.
- `P2P_wire`: lists of up to two attributes whose values look like tags, lengths and end
  markers; a value of 256 bytes for the two-byte lengths; each of eight bits and all of
  them changed at each position of messages of up to 60 bytes; user ids of 227 and
  228 bytes; sequence numbers on both sides of each packet type.

### Fairness

Only what the runtime guarantees: threads and tasks that can run do, timers
elapse, callbacks posted to the loop are called. A copy job whose output is
closed ends, because its next write raises and its reads time out. Requests to
the cloud end, because each has a timeout. Nothing is asked of the browser, the
camera, the network or the cloud's answer; `FanOut_fullqueue` alone assumes that
clients go on reading, which makes its counterexample stronger. In `P2PDemo` the
threads, ffmpeg and the delivery of datagrams go on, the device sends what it may send,
and no trouble is ever forced; `ComesUp` needs the servers and the device to
answer, and is about a network with at most one loss. In `VtmDemo` only the four
threads are fair: the viewer may stall for good, and then nothing is claimed.

## 5. What is proved

For every value of the constants, by TLAPS, from the named assumptions of the
modules only.

**`StreamFanOut_proof`.** `TypeOK` and the invariants of `FanOut_safety`, and the
refinement. The inductive invariant has five parts: the types; for each `pc` what
the handler holds there (`HandlerInv`: subscribed, attached to which stream, ready
or not); the placeholder's state against the handler's (`PlaceholderInv`); the
stream's flags against its subscribers and the registry (`StreamInv`); the sentinel
(`QueueInv`). `RegistryExact` (a stream has subscribers exactly while its client's
registry names it) is one conjunct of the third. Alone it is not inductive: it needs to
know that a handler past `Detach` is in no subscriber set. Each action maps to a step of
`SharedSession` or to a stutter.

**`SrtReorder_proof`.** The cursor and the buffer live in a ring, where nothing is
before or after. As fewer than `Half` packets are sent, a packet has an index
(`Minus(s, Start)`), and `AheadIsIndex` shows that the code's signed distance is the
difference of indices. `RunInside` says that what a drain releases is a run of
indices from the cursor's on. The invariant is the types, `CursorInv` (the cursor is
one past the last released index and before everything buffered), order, a timer
for each gap (`TimerInv`: an armed thread is the remembered one) and `AckInv`.

Between the release under `_lock` and the extractor a payload is in the hands of one
thread. `HandedOver` counts: `HandInv` says that what was fed and what is in hand are
together what was released, as a set and in number, so nothing is lost between the two.
A run released goes into empty hands, and is new because the cursor has moved past
it. With the order of releases, which makes them distinct, it follows that no payload
is fed twice, and none that is still in hand (`NothingFedTwice`). The numbers are
cardinalities, so the timers are assumed to be a finite set: a process has finitely
many threads.

**`HikRtp_proof`.** A NAL begins at the Start of the unit it has its header from,
and no fragment is used twice, for any sequence of units, any losses and any order.
If the payloads come in the order sent, a NAL that mixes two units lacks the End of one
and the Start of the other: the fragments in the buffer are in order (`MInv`), so a change
of unit between neighbours means that neither of the two fragments between them
arrived.

`IntactUnitsAreEmitted`: a unit of which every payload came is emitted, whatever was lost
of the others, and not more often than it should be. The invariant `SInv` adds to those
two that while no fragment of an FU is missing, the buffer holds exactly the fragments
fed so far (`CollectedInv`), and that what a payload emits holds that payload: so a
unit gets its NALs at its last payload, and no payload of another unit adds to them.

**`LoginSession_proof`.** All five invariants of `Login_session`, for any finite set
of handlers and any bounds, in four layers. `IInv`: the lock's holder is the handler
between acquire and release, and a handler loads a token only while there is no
client; from these, one vendored client. `TypeInv`: types and bounds, where the requests
that wait for a login keep theirs because each has been repeated less than `MaxRetries`
times; and the late call, after which the loop is never due again. `JobShape`,
`TaskShape`, `LoopAside` and `EnvironmentAside`: what a step can do to token, header
and file, whatever the request or answer it stands for. `SessionInv`: a save that no other
thread meddles with is followed from export to write, whatever happened before it: what it
holds is what the client uses, over an emptied file (`SaveInv`). As long as no two
threads have worked on the session at once, the one that does is followed place by place.
Between the header and the refresh id it holds the new session; otherwise the three agree
(`AgreedInv`, `SettingInv`); and a token in the file, or on its way to or from it, is of
one session (`FileInv`), which is what makes `Loaded` after a restart safe.
`SettledIsOneSession` and `SavedBeforeReturn` alone are not inductive: they say nothing
of a login that is under way.

**`P2PDemo_proof`.** The types; what is open, and which event is set, at each place of
the caller (`LifeInv`), from which `NothingLeftOpen` follows, whether or not a join was given
up; that the threads do end is `EverythingEnds`, which is model-checked; and where the request and the reply of each
number are (`NumberInv`): at the device, under way or at the receive thread, in one place
unless repeated, which gives `IdIsControls` and `AcksTargetVideo`, for any tries, losses
and frames.

**`VtmDemo_proof`.** `LateChunkBounded`: the placeholder's thread is over when the
handler writes its first real chunk, unless its join ran out (`SwitchInv`); and with the
stop event set it writes what it holds and no more, so one chunk behind the stream is
all there can be (`LateInv`), for any queue, chunks and stalls.

`StreamOnWire`: what the viewer has of the camera's stream is its beginning, without gap
or repetition, and all of it when the handler met the sentinel. `FlowInv` follows the
chunks along: with `n` of them on the wire, the handler holds chunk `n + 1` or none, the
queue the ones after it in a row, the blocked `put` the next, and the sentinel is behind
the last.

**`P2PWire_proof`.** All five properties of `P2P_wire`, for any messages, user ids, keys
and changes. `DatagramIsKnown` gives the three forms of a datagram (`WireInv`); the rest
are facts about the codec.

- `ChecksumIsMaxim`: one step of the checksum is that of CRC-8/MAXIM, followed bit by
  bit (`TurnTakes`), not by enumerating bytes. The step is one-to-one, and so is the
  exclusive or with a byte; hence two strings that differ in one byte have different
  checksums (`OneByteCounts`), which is `ChangedByteIsCaught`. The checksum's own byte
  needs an argument of its own, as it is cleared on both sides.
- `MessagesRoundTrip`: `Laid` says where each attribute is in the encoding, `ReadWhole`
  what the decoder makes of it there, `AllIsRead` puts them together from the last
  attribute to the first; `PadComesOff` and `Accepted` do padding, header and checksum.
- `PlayRequestsAreRead`: the same behind an expand header, whose length is 16 bytes more
  than the user id's (`ExpandLength`): 227 is where `header_len & 0xFF` begins to wrap.
- `CutBodiesAreRead`: an attribute that is cut is read with what is left of it, or not at
  all (`ReadCut`), and never by the set-up response's reader (`SubReadCut`).
- `DatagramsAreRouted`: by the first two bytes.

A recursive function of TLA+ has its equation only if a function with it exists, so
each is first built, from the end it starts at (`LoopDefined`, `EncodingsDefined`,
`ReadingsDefined`, `SubReadingsDefined`). The inductions go along the interval the
function is defined on; the library's theorems for that take an operator as parameter,
so `Climb` and `Descend` state them for a set of indices and get them from the
existence of a least element (`WFMin`).

Only model-checked: the temporal properties under fairness, which are out of the
prover's reach (`NeverStalls`, `Teardown`, `HandlerReturns`, `ComesUp` and the others of
the `_live` runs, `P2P_session` and `Vtm_demo`), and the three findings that are
counterexamples.

## 6. Not modelled

- The inside of the VTM copy job (`vendor/pyezvizapi/cloud_stream.py`, `stream.py`): a
  part of the vendored library. The integration sees of it what it writes to its
  output and that it ends; `StreamFanOut` and `VtmDemo` take it as a job that writes,
  ends, fails or finds its output closed.
- `camera.py` and `config_flow.py`: no state of their own; a URL is returned after a
  login, a form is shown, and its unique-id check is Home Assistant's.
- The rest of the vendored library: a copy of another project that the stream path
  does not call.
- In the P2P client: resend timers and keep-alives that only repeat, AES itself, the
  contents of attributes nothing is decided by.
- Contents of video data, wording of errors, logging.
