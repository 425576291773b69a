# A verification of undici in TLA+

undici is an HTTP client for Node.js. This directory holds TLA+ models of its
core, the TLC configurations that check them on small instances, and theorems
about them that TLAPS checks for every instance. `PROJECT.json` is the index:
components, runs, the lines of code each definition stands for, the hazards
the properties are aimed at, and the theorems.

Modelled are the `Client` with its queue and its HTTP/1.1 and HTTP/2
connections, the pools, the fast timers, retries, deduplication, the cache, the
API methods with the response body, `fetch()`, WebSockets and `EventSource`.
Section 1 says what is left.

## 1. Inventory

| Component | State it keeps | Operations | What is hard | Modelled in |
|---|---|---|---|---|
| `Client` (`lib/dispatcher/client.js`, `dispatcher-base.js`) | `kQueue` with two indices, `kResuming`, `kNeedDrain`, `kConnecting`, `kServerName`, `kClosed`, `kDestroyed` | dispatch, close, destroy, `pipelining =`, resume, the connector's answer | user code is called in the middle of every operation and may call back; indices over an array that is spliced, nulled and compacted | `Client` |
| HTTP/1.1 connection (`client-h1.js`; `parser-h1.js` is an alternative parser) | socket flags, parser state, timers | write, busy, resume, parser callbacks, time-outs, socket events | responses carry no identity; retries after a connection ended; pipelining with requests that must run alone | `ClientH1` |
| HTTP/2 connection (`client-h2.js`) | session, streams, settings, GOAWAY | write, stream and session events, time-outs | streams that end while the session is given up | `ClientH2` |
| `Request` (`core/request.js`) | `aborted`, `completed`, body error | callbacks to the handler, abort | one outcome although socket, body, writer, user and destroy() all report one | `Client`, `Responses` |
| `FixedQueue` | chain of ring buffers | push, shift, isEmpty | full and empty differ by one slot, buffers are chained and dropped | `FixedQueue` |
| `Pool`, `BalancedPool`, `RoundRobinPool` | clients, a queue, `kNeedDrain` per client and for the pool, retiring clients, weights | dispatch, drain, add and remove clients, close, destroy | events of several clients that dispatch, disconnect and drain in any order | `Pool`, `Balanced` |
| Fast timers (`util/timers.js`) | list of timers, `fastNow`, one native timer | set, refresh, clear, tick | callbacks change the list the tick is walking over | `Timers` |
| Retry handler | attempt count, position, etag, held response | events of one attempt, the next dispatch | a response delivered in part and resumed; abort while the policy waits | `Retry`, `Responses` |
| Deduplication | primary handler, waiting handlers with buffers | join, events, pause, abort | joining and leaving while the response is being delivered | `Responses` |
| HTTP cache | entries, counters, write streams, conditional requests | store, find, evict, revalidate, freshen, delete | revalidation against a store that changes meanwhile | `Freshness`, `CacheStore`, `Caching` |
| API methods, `BodyReadable` | consumption state of a body, the writer of a request body | callbacks, read, dump, destroy, abort | abort before, during and after the body; back-pressure in both directions | `Body`, `Exchange` |
| fetch | a controller and its state, the hops' connections, one body stream | redirect, repeat, pull, abort, cancel | one controller is shared by all hops | `Fetch` |
| WebSocket | ready state, frame parser, send queue, handshake flags | open, send, close, fail, frames | closing handshake against errors and late data | `WebSocket` |
| EventSource | ready state, parser with its buffers, last id, reconnection time | open, chunks, reconnect, close | chunk boundaries anywhere; close() against the timer and the body's end | `EventSource` |
| `Agent`, proxies, SOCKS5, connectors | dispatchers per origin, their use counts; handshake state; TLS sessions | dispatch, removal when idle | a dispatcher that is removed while it is used | – |
| Redirect handler, DNS, decompression | hops; records; streams | the next dispatch; rotate; transform | – | – |
| Mocks, cookies, CacheStorage, webidl, form data, parsing helpers | – | – | sequential | – |

How they interact: a call goes down through interceptors and handlers to a
dispatcher (agent → pool → client → connection), and events come back up
through the handler's callbacks (`onRequestStart`, `onResponseStart`,
`onResponseData`, `onResponseEnd` or `onRequestUpgrade`, `onResponseError`) and
through events of the dispatcher (`connect`, `disconnect`, `connectionError`,
`drain`). All of it is one thread of JavaScript: what interleaves are jobs
(socket events, timers, the connector's answer, user code), microtasks between
them, and calls back into undici from within its own functions.

What makes each correct, and what a unit test would hardly reach, is the list of
hazards in `PROJECT.json`, each with the properties of section 4 that would
catch it going wrong.

## 2. The modules

| Module | Contents |
|---|---|
| `ClientState` | constants and their assumptions, the variables of a client, the queue's getters, the socket's record, the call stack |
| `ClientH1` | `client-h1.js`: `busy`, `resumeH1`, `writeH1` and its writers, the parser's callbacks, time-outs, the events of the socket |
| `Client` | `client.js`, `dispatcher-base.js`, `request.js`: what the user calls, `resume`/`_resume`, the connector's answer, microtasks; specification, fairness, properties |
| `ClientH2` | `client-h2.js` over the same queue: sessions, streams, GOAWAY, settings, refused streams, upgrades, time-outs |
| `FixedQueue`, `Balanced`, `Pool` | `fixed-queue.js` and the weighted choice of `BalancedPool` as operators; the three kinds of pool over abstract clients |
| `Alarms`, `Timers` | what timers promise: an alarm is set, cleared, rings; `util/timers.js`, which implements it (`AlarmsKept` is an `INSTANCE` of `Alarms` under a refinement mapping) |
| `Retry`, `Responses` | what a `RetryHandler` remembers and how it judges an answer; users, retry and deduplicate interceptors composed in either order |
| `Freshness`, `CacheStore`, `Caching` | what is storable, fresh, reusable; the memory and the SQLite store; the interceptor with its two handlers |
| `Body`, `Exchange` | `BodyReadable` as operators; `request()`, `stream()`, `pipeline()`, `upgrade()`, `connect()` over one exchange on a connection |
| `Fetch` | the chain of awaits of `fetch()`, its controller, its stream |
| `BlobFetch` | what `schemeFetch` answers without the network: operators, about which section 6 has two theorems |
| `WebSocket` | `WebSocket` and `WebSocketStream` after the handshake was asked for |
| `EventSource` | parser, ready states, reconnection |
| `MC…` | the instances TLC checks |
| `…Proofs` | theorems and proofs (section 6) |

`ClientH1` is used by `Client` alone, which EXTENDS it: the two share the queue
and the call stack. The others are checked apart, each over the promises of
what is below: a client of `Pool` holds requests until they have an outcome and
owes a `drain` (`CallersAreTold` of `Client`); an armed timer of `Client` may
fire at any time, which is the weakest use of `AlarmsKept`, and fires at last
if nothing else happens, which is `EveryTimerEnds`; the dispatcher below
`Responses`, `Caching`, `Exchange`, `Fetch` gives each request one outcome
(`EndsAreOver`, `AnsweredOnce`). Most of them start from one of a set of
`Kinds`: what is configured, and what a user asks for.

### Client: state

`queue`, `runningIdx`, `pendingIdx`, `resuming`, `needDrain`, `pipelining`,
`connecting`, `ctx`, `serverName`, `closed`, `destroyed` are the fields of
the same names (`kQueue`, ...). `ctx` is "`kHTTPContext` is set"; it differs
from "there is a socket" between `destroy()` and the socket's `close` event.
`sock` is one record for the socket and its parser. It also holds the name the
socket was opened for, because `serverName` may change meanwhile. `closing` and
`destroying` say how far the promise chains of `close()` and `destroy()` are.
`aborted`, `completed` and `bodyErr` are fields of the requests.

`wire`, `sent`, `heads`, `ends` and `dispatched` are history: what was written
to the current socket and is unanswered, and how often each request was
written, given a final response head, and given a terminal callback. No guard
reads them except where the environment must not do the impossible (the peer
does not answer a request that was not written, the abort closure acts on the
socket it was made for).

`broken` holds the assertion of the code that failed; a failed assertion ends
the behaviour, as nothing after it is meaningful.

### Client: the call stack

The queue's operations call user code half-way, so an operation is not one
step. `stack` is the call stack of the running job, the innermost frame
first. A frame whose label is in `Callbacks` is user code that is running; it
may perform the operations that `UserCalls` allows there, and it may return
(`CallbackReturns`). Any other frame is the rest of a function of undici and
is one action each: `fail` is the loop around `errorRequest`, `loop` … `exit`
the body of `_resume` split at its calls, `afterHeaders` the rest of
`onHeadersComplete`, and so on. Everything between two calls of user code is
one step. Between frames nothing else runs; socket events, timers and the
connector (`Quiet`) wait for the stack and the microtasks to be empty.
`Pool` keeps a stack of the same kind, and `ClientH2` one of what is left of
the functions that run, with a queue of ticks.

### What is abstracted

In all modules headers, names, bodies and messages are reduced to what control
depends on, and wording, logging, metrics and diagnostics channels are left out.

- **Client.** llhttp reports a final head, the end of a message, an upgrade or
  an error; informational (1xx) responses change nothing that is modelled. A
  head says whether the connection may be kept (`keep`) and whether the peer's
  keep-alive hint is too short (`short`). Iterable, form-data and blob bodies
  are written like streams, whose chunks are left out, not their ends and
  failures. Handlers that throw abort, as in every callback but `onResponseEnd`
  (for which see `Responses`). A reset by the peer destroys the socket and
  reports the error in one step, as Node does within a job of its own. The
  promise chains of `close()` and `destroy()` take one microtask per link that
  matters. A connector answers in a later job. `strictContentLength: false` and
  `compose` are not here.
- **ClientH2.** What Node does is external: an event is a job, and destroyed
  sessions end their streams by ticks. `drain` and `close()` are in `Client`.
  The body of a request has been sent at once, or is being sent, or waits for
  100 (Continue); the length of a response is counted in chunks. Left out: pings,
  RFC 8441 withdrawal, back-pressure, trailers, user code that calls back.
- **Pool.** A client is the requests it holds, its flags and the events it
  owes; with HTTP/1.1 it is busy with one request, with HTTP/2 it may or may
  not be. Upstreams of a `BalancedPool` are such clients.
- **Timers.** Only the difference of `fastNow` and `_idleStart` enters the
  code, so `elapsed` holds it in ticks, and a delay is given in ticks, rounded
  up. `onTick` is one step up to each callback. A timer that was cleared is not
  refreshed once it has left the array (`client-h1.js:257-261`,
  `core/util.js:857-885`). `tick()` and `reset()`, which are exported for tests,
  the native timers of short delays, and callbacks that throw are left out.
- **Responses.** A body is counted in chunks; an answer has a status, a
  representation and a first position. Request bodies, methods, upgrades, a
  range the user asked for, weak etags and the delays are left out.
- **Caching.** Times are in seconds, directives are already parsed. Users ask
  one after the other but their exchanges overlap; dates are honest.
- **Exchange.** Sockets, Node's streams and the user's streams are external;
  Node runs ticks before microtasks. Left out: the parse of `json()` and
  `formData()`, a second reading call on one body.
- **Fetch.** CORS, TAO and CORP checks pass; cache modes, header processing,
  clones and an aborted signal at the start are left out. `data:` and `blob:` URLs,
  which never wait, are in `BlobFetch`, where a byte is its position. A dispatcher may send a request again before its head (requeue).
- **WebSocket.** Jobs are atomic; a frame is allowed or wrong (its opcode,
  reserved bits, length, UTF-8, deflate data, Close body), so limits are not
  numbers; the states of the parser that read a length are one. The server's
  script is chosen at the start, cut into chunks anywhere.
- **EventSource.** A field name with its colon is one symbol, every byte of a
  value is one. The fetch below is its answer, `processResponse`, the body and
  the callback at the end of the body, which comes after the last chunk was
  parsed. Redirects and origins are left out.

## 3. The environment

`Faults` of `Client` names what the peer and the network may do: `fin` and
`reset` end a connection, `bytes` is data that is no answer, `connectSocket`,
`connectOther` and `altname` are the three kinds of connect errors, the three
time-outs, `bodyError`, `pause` (back-pressure by the handler), `noKeepAlive` and
`shortKeepAlive`. Each may happen at any time it can happen at all, any number
of times. `UserCalls` is a set of pairs of a place and an operation.

In the other modules the kind of a run says what is asked for, and faults are
counted down (`faults`), so that a run is finite. Some constants that are FALSE
in the runs admit a course of events in which the code does not do what its
property says; section 5 describes each:
`JoinLate`, `AbortLate`, `Overlap` (`Responses`), `SlowInflate`, `AbortLate`,
`CancelPaused` (`WebSocket`), `ErrorWithHead`, `AbortWithHead`, `LateBare`,
`LongRefusal` (`Fetch`), `Overtaken` (`Caching`), `LateError` (`Exchange`),
`CloseWithHead` (`EventSource`), `DestroyLate` (`ClientH2`).

## 4. The runs

| Run | Instance | Shows |
|---|---|---|
| `Pipelined` | pipelining 2, two requests per connection, https:, the queue compacted at once; two GETs that may be pipelined and a POST of one server name, an upgrade of another; dispatch and abort at top level, abort within `onRequestStart`; all faults but those named below | responses meet the requests they answer, also after retries (`QueueIsOnWire`); no request is forgotten (`NoRequestLost`); none is written again but when another that shared its connection may have ended it, none overtakes another (`SentInTurn`); what shares a connection may (`ConnectionShared`); a wait has its timer (`WaitIsTimed`); an idle socket is validated before reuse (`WritesToValidated`) |
| `Nested` | user code calls every operation from every callback (section 5 has the exceptions); pipelining 1 changed to 2; the queue is compacted after each resume; a GET, a HEAD with a body, a POST that contradicts its length | the loop does not nest (`ResumeNotNested`), indices stay in range (`TypeOK`), assertions hold (`NoAssertFails`), one outcome each, and `destroy()` and `close()` report only finished work (`EndsAreOver`) |
| `Fair` | pipelining 2; a GET and a streamed POST; the faults that do not prevent progress for ever | `EveryRequestEnds`; `drain`, `close()` and `destroy()` are told (`CallersAreTold`) |
| `FastTimers` | timers of 1, 2 and 3 ticks; callbacks clear and refresh any of them; deadlock checked | no timer drops out of the array (`NoTimerLost`), `Timers` implements `Alarms` (`AlarmsKept`), and none waits for a tick nobody scheduled (`EveryTimerEnds`) |
| `Pools` | a `Pool` of one and of two connections, a `RoundRobinPool`, a `BalancedPool` of two upstreams; two or three requests, one or two faults, ring buffers of two slots, nested calls two deep | the ring buffers are a FIFO queue (`QueueIsFifo`), `destroy()` reaches clients out of rotation and `close()` waits for all (`EndsAreOver`), each request is served (`EveryRequestServed`) |
| `Http2` | one to three requests, plain, with a body that takes its time and can be sent once, an upgrade; responses of up to two chunks, as long as announced or not; limits of 0, 1, 2 streams; GOAWAY with any last stream, refusals, lost sessions | a running request has the one stream that may end it (`StreamsMatchRequests`), requests are replayed only when that is safe, and a response that is complete is as long as its head said (`AnsweredOnce`), `EveryRequestEnds` |
| `Responses` | one user with every option, two users with retries outside and inside the deduplication; 200, 206, 404, 503; the resource changes; pauses and aborts | each gets one whole body of one representation or a prefix and an error (`IntactBody`), one outcome (`OneOutcome`), and an answer (`EveryUserAnswered`) |
| `Caching` | 38 kinds of pages, requests and stores: lifetimes, what may not be stored, request directives, stale responses, limits | what is reused was fresh or validated (`ReuseIsSound`), `IntactBody`, the store agrees with what it holds (`StoreConsistent`), `EveryUserAnswered` |
| `Exchange` | each API method, way to read and kind of request body over one connection | what is told to be whole is (`IntactBody`), a connection that is used again is in step with its server (`ConnectionIsFit`), `EveryCallEnds` |
| `Fetch` | redirects, challenges, 421, bodies of up to two chunks, truncation, aborts, a reader that cancels | `BodyIsHonest`, an aborted fetch gives up its exchanges (`ExchangesGivenUp`), `FetchEnds` |
| `WebSockets` | servers that fragment, compress, break the protocol and go on behind it (with nothing, a Close frame, or a text and a Close frame), close or vanish; two sends, blobs, back-pressure | `MessagesIntact`, the close event tells the truth (`CloseIsHonest`), an end is told (`EndIsReported`) |
| `EventSource` | five streams with each line ending, BOM, ids, retry times, events beyond `maxEventSize`; all chunkings; connections refused, cut, wrong; close() at any event | the messages are those of the stream (`EventsIntact`), CLOSED is final: no connection and no message of a later chunk (`ClosedForGood`), `EveryEventArrives` |

All but `FastTimers` set `CHECK_DEADLOCK FALSE`: when every request has been
dispatched and has ended, a client, pool, connection or user is idle for ever.

Bounds. In `Client` each request is dispatched at most once, in any order and at
any moment; three are enough for a head, one that is pipelined behind it and one
that is pending, which are the three sections of the queue. `Pipelined` has four:
two that are on the wire together (`Alike`: they ask for the same, so the run uses
their symmetry), one that must wait for both, and one that needs another
connection. It leaves out `bodyError`, as nothing streams, and `shortKeepAlive`,
`connectSocket` and `bodyTimeout`, which end a connection in ways that other
faults of the run do, and `close()` and `destroy()`, which `Nested` and `Fair` call.
Connections, retries and faults are not bounded there: they are bounded by what
is left to do. `CompactAt` is 256 in the code; `Nested` and `Pipelined` set it
to 0, so that compaction happens with a queue of two. Three timers are the one that fires,
the last one that takes its place, and one that onTick has passed or has yet to
visit. Ring buffers of two slots (2048 in the code) chain and drop with three
requests. A pool has four
identities for its clients (`Ids`), which are used again after a client is gone:
whenever a pool of the run may create a client one of them is free (`Spares`). In `Http2` one to three faults, and a first limit of two streams, give
a session that is given up while another one serves; two chunks, one that is
missing and one too many. `Responses` has bodies of
two chunks, one retry and a buffer of one chunk, so that a resumed body and a
buffer that is full occur; `Caching` two versions of a page, two or three users,
entries of at most two chunks and a clock of three seconds, beyond every
lifetime; `Fetch` two redirects; `Exchange` three chunks against a high-water
mark of two; `WebSockets` two messages of up to two fragments; `EventSource` two
faults. The runs reach between 5 thousand and 1.2 million states.

Fairness, and why the code has it. In `Client`, frames and tasks run on (one
thread, no user code that hangs: WF on `FrameStep`, `TaskStep`). Immediates run,
sockets emit `error` and `close` once destroyed, connectors answer (they have a
time-out), streams end and paused responses are resumed: WF on each. `Answer`
has strong fairness: a response goes on, or its timer fires, though other
events may disable it time and again. The user owes nothing. `Fair` leaves out
`bytes`, `altname`, `connectSocket` and `shortKeepAlive`, with which the peer or
the network can make every attempt of an idempotent request fail for ever.
For `Timers`, the native timer behind `fastNowTimeout` fires, the loop goes on
(`TickStep`) and callbacks return; nobody has to set or to clear anything.

`Pool`, `ClientH2`, `Responses`, `Caching` and `Exchange` are weakly fair to
`Progress`, the disjunction of what is owed: functions return, jobs and
microtasks run, servers and connectors answer, who is paused goes on. Faults and
requests are bounded and no step of `Progress` can be repeated for ever without
another, so each happens at last. Three of these say so as
`[]<>(~CanProgress) \/ []<><<Progress>>_vars`, with `CanProgress` a state
predicate for `ENABLED <<Progress>>_vars`, which TLC would compute too slowly. In `Fetch`
the reader reads on or cancels, and a dispatcher starts a request however often
it is requeued (SF). In `WebSocket` a server answers a Close frame and then ends
the connection, since undici has no time-out of its own for that. In
`EventSource` a stream that was opened is sent on (`SendsOn`).

## 5. Where the code differs from what it says

These were met while modelling; the runs leave out what leads to them, by
`UserCalls`, by `Faults`, by the constants of section 3 or by a guard that the
module names. Admitting them shows each as a trace.

Client:

- `assert(client[kPending] === 0)` (`client.js:666`) fails when `destroy()` is
  called within `onResponseError` as the connection ends under two pipelined
  requests: `onHttpSocketClose` returns the second one to a destroyed client
  (`client-h1.js:1054`), and it gets no outcome. `Nested` therefore does not
  call `destroy`, `dispatch` or `pipelining =` within `onResponseError`; the
  assertion at the end of `onError` (`client.js:491`) does not expect a retry
  either. Nor does it destroy within `onRequestSent`, which makes `kPending` -1,
  as `kPendingIdx` counts the request afterwards (`client.js:742`).
- "Non-idempotent request cannot be retried" (`client-h1.js:942`): a GET may be
  pipelined behind a POST whose response has begun; aborting the GET retries
  the POST. `SentInTurn` allows this for each abort behind a request, and nothing else.
- `blocking` lasts "until headers have been received" (`Dispatcher.md:220`),
  but `onHeadersComplete` returns early for HEAD and leaves it set.
- While a connector dials, the request it dials for can be dropped (a request
  that is pending again after a retry and is aborted, `client.js:704`). If the
  next one wants another server name, `kServerName` is overwritten
  (`client.js:711-716`; there is no socket to destroy, and `kConnecting` returns)
  and it is written to a connection opened for the old name. This is why
  `OneServerName` excepts a socket whose name is that of a request that was
  aborted or has failed (`AbortedFor`).
- When `pipelining` is lowered from 2 to 1 with two requests in flight, the head
  of the second response can come before the immediate that arms the headers
  timer (`client-h1.js:646` and `833`).
- An upgrade with `reset: false` overrides the reset that keeps others off its
  connection (`client-h1.js:1316`); `assert(client[kRunning] === 1)` fails.
- With pipelining, a `drain` scheduled within a dispatch is emitted after
  further dispatches have made the client busy (`client.js:685`).

Timers: `setFastTimeout` "sets a fastTimer which executes a function once the
timer expires" (`timers.js:365`). Set in the callback of another timer, it is
pushed behind the length `onTick` has read, cut off at the end of the tick
(`timers.js:180`), and never fires. undici's own callbacks set no timers (they
destroy a socket or call `setImmediate`); with `"add"` in `CallbackOps`,
`NoTimerLost` is violated.

HTTP/2: with pipelining above 1 a new session is opened while one that received
GOAWAY still serves requests; the loss of the new socket makes those pending
(`client-h2.js:753`), and ids of two sessions are compared (`132`). `destroy()`
in that situation (`DestroyLate`) leaves requests refused afterwards in a
destroyed client (`1541`). A stream that still sends a body when its request is
complete is no longer counted (`completeRequestStream`), so that the idle timer may
destroy the session under it; `StreamsMatchRequests` leaves such streams out. A
hard error with nothing running fails all pending
requests (`client.js:472`).

Pools: with one connection a connection error retires a busy client and no
`drain` follows (`pool.js:158`); `kDispatch` may set `kNeedDrain` back without one
(`pool-base.js:227`); a client that expires and is removed by a nested dispatch
within its own drain loop is still given requests; removal by time to live lets
newer requests overtake; `kQueued` is not reset by `kDestroy`.

Retry and deduplication: a waiter that joins after the retry handler passed a
head on makes it refuse, and the throw is swallowed
(`deduplication-handler.js:191`; `JoinLate`). An abort while a response is held for
the policy ends in two `onResponseError` (`retry-handler.js:78`, `581`, `640`;
`AbortLate`). A 503 that is held, and then a connection that fails, ask the policy
twice (`Overlap`). An abort between `retry()`'s dispatch and `onRequestStart` is lost.

Cache: a 304 freshens whatever entry is stored by then (`Overtaken`). With
`SqliteCacheStore` a 304 aborts the request and deletes the entry, as
`Buffer.values()` yields numbers (`cache-handler.js:409`). An exchange that fails,
or is aborted by its user, during the replay behind a 304 gives what is left of
the body after the error: the listener of `error` resumes the same iterator
(`433`), with either store; `IntactBody` names this exception. A 304 with
Cache-Control deletes the entry, one without does not freshen it.
`only-if-cached` is ignored for stale entries. Closing resumes a paused
controller (a TODO at `519`).

API methods: two reading calls on one body in one job both pass `isUnusable`
although `README.md:410` announces a TypeError, and the first promise never
settles. `stream()` whose request body fails after the head calls `finish()` with
no callback (`api-stream.js:167`; `LateError`). A `Writable` of `stream()` or a
stream of `pipeline()` that ends early leaves the exchange paused.
`AsyncWriter.destroy` asserts that nothing else runs, which a late failure of an
iterable need not find.

fetch: "Otherwise, if stream is readable, error stream with a TypeError"
(`index.js:2197`), but the listener for it is registered when
`httpNetworkFetch` has settled (`2104`) and `terminated` is emitted once: an error
directly behind the head leaves the reader waiting (`ErrorWithHead`). An abort
with the head of a cross-origin redirect does not stop it (`AbortWithHead`). A
301 without Location is given to the user with its connection destroyed,
against step 4 it quotes (`1237`; `LateBare`). A Range header that asks for a suffix
longer than a blob makes `rangeStart` negative (`912`), and `Blob.slice()` counts
it from the end: `bytes=-10` of 8 bytes yields the last two, as `bytes -2-7/8`. A 407, or too many
content-encodings, leave their paused response on its connection (`1777`, `2301`;
`LongRefusal`).

WebSocket: `close()` while CONNECTING leaves readyState CLOSING behind the close
event. The parser goes on behind a text that is not UTF-8, and behind an unknown
opcode when more has come; a Close frame that follows makes the close clean,
against `websocket.js:618` (`CloseIsHonest` names the exception, `ReadsOn`). A socket that closes while a message is inflated with
a Close frame behind it makes 1006 of it (`SlowInflate`). An abort signal that fires
in CLOSING leaves the readable open (`websocketstream.js:140`; `AbortLate`). `cancel()`
with the socket paused leaves `closed` pending (`CancelPaused`). Blobs that are
pending leave behind the Close frame. There is no time-out for the peer's.

EventSource: `close()` in a microtask between a head and `processResponse`
reopens it (`eventsource.js:309`, against the comment at 304; `CloseWithHead`).
`close()` while CONNECTING fires an `error` event; within a `message` listener,
the other events of the chunk still follow; a `retry` field counts at the blank
line only; an id no header can carry makes the server replay; `event:` without
a value keeps the type set before in the same block.

## 6. What is proved

TLAPS checks the following for every value of the constants that satisfies the
modules' assumptions, which type the constants and say no more.

**Client** (`ClientStackProofs` → `ClientWireProofs` → `ClientEndProofs`, each on
top of the one before):

- `TypeCorrect`: `Spec => []TypeOK`. `TypeOK` is inductive as it stands because it
  types the call stack: a frame about a request holds exactly one, so
  `Top.reqs[1]` in the actions is a request. The lemmas say which frames can be
  made (`FrameTypes`, `FewFrames`), that pushing, replacing and popping frames keeps
  the stack typed (`PushType`, `GotoType`) and what splicing returns
  (`SpliceTypes`); one lemma per group of actions follows the disjuncts of `Next`.
- `NoNesting`: `Spec => []ResumeNotNested`, for every set of user calls. The guard
  in `resume()` is a flag, which `[kDispatch]`, the setter and the end of the loop
  also write; that they agree is the inductive invariant `Nesting`: if `resuming`
  is 2 exactly one frame of the stack is in the loop, otherwise none is.
- `QueueOnWire`: `CarefulUser /\ Spec => []QueueIsOnWire`, and
  `UsedSocketsChecked`: `CarefulUser /\ Spec => WritesToValidated`. In the middle of a job the queue and the wire
  differ, so the invariant `WireInv` says by how much, depending on what is on
  the stack, and the stack needs an invariant of its own:
  - `Shape`: above a frame of the loop only what it calls, above one that takes
    a request out of the running part no second one.
    `ClientStackProofs` has a table of what each action does to the stack
    and shows that each keeps the shape;
  - `Bounds`: the indices lie within the queue, except between the splice of
    `onHttpSocketClose` and its end;
  - `Life`: what `ctx`, the socket, `connecting` and `destroyed` say of each other;
  - `WireMatches`: with a socket, the running part, and the one request that was
    written and is not counted yet (`"advance"` is on the stack), is the wire;
  - `NoWire`: without one, nothing runs, and no frame of a connection is left;
  - `EndRuns`, `WriteOk`: a request that is about to leave the queue, or to be
    written, is still where the frame believes it to be, or was aborted;
  - `Validated`: what `busy` and `pick` found out about an idle socket still holds.
- `ConnectionIsShared`: `CarefulUser /\ Spec => []ConnectionShared`, from `ShareInv`,
  which is `WireInv` and
  - `Wanted`, `FailsApart`, `NoAltname`: a request that is aborted on the wire
    has the frame above it that destroys the socket, and what waits to be
    failed is not on the wire;
  - `WireFits`, `WriteFits`: what is on the wire, and what `onRequestStart` is
    being called for, may follow what is in front of it and is for this name;
    between the check in `busy` and the write there is a callback of the user;
  - `Counter`: at `maxRequestsPerClient` the socket is marked for reset;
  - `SockName`, `Aimed`, `Clean`, `Retried`: the connection is the one for
    `kServerName`, or was opened for a name a request for which was given up
    (`AbortedFor`; `Given` also counts what is about to be failed). While the
    connector is at work nothing else takes the first pending request out of the
    queue, and what is pending again after a close wants the same name.

- `NoneIsLost`: `CarefulUser /\ Spec => []NoRequestLost`. It says nothing of
  `destroy()` within `onResponseError` or `onRequestSent`, where a request can be
  left without an outcome. It follows from `EndInv`, which is `ShareInv` and
  - `Kept`: a dispatched request has an outcome (`Ended`), is in the running or
    pending part (`Queued`), or is held by a frame that took it out and will end
    it (`Held`): errorRequest's, `onUpgrade`'s. `HeldMoves` shows that such a frame
    gives a request up only with an outcome, `QueueLeft` that each way
    to change the queue takes out only what goes to such a frame or is over;
  - `Splicing`, with `Writing`, `Doomed` and `Leaves`: the code splices
    `kQueue[kPendingIdx]` and clears `kQueue[kRunningIdx]` after a callback of the
    user, in which `destroy()` and `dispatch()` may change both. What they remove
    is nevertheless the request they were called for, which has an outcome by
    then, or nothing.
- `OneOutcomeEach`: `CarefulUser /\ Spec => []EndsAreOver`, from `OverInv`, which is
  `EndInv` and
  - `Known`, `Once`, `NotDone`: an outcome comes with `aborted`, `completed` or a
    refusal, and at most once; what is queued, held, being written or was sent
    had been dispatched;
  - `Distinct`, `LeavesOnce`: no request is twice in the queue, or in it and in a
    frame of an upgrade as well. `QueueComes` says that a step shifts the queue
    down, or `dispatch` appends to it; `HeldComes` where a frame's requests come from;
  - `OneEnd`, `EndCtx`: the rest of `destroy()` runs once, and while it is to come
    the connection is still the client's;
  - `Closing`, `Cut`, `CloseCut`: between `onHttpSocketClose` and its rest only
    failing requests and a synchronous `resume()` run; a destroyed client has
    nothing pending, and nothing at all without a connection;
  - `ListensMeans`, `PastMeans`, `ClosedMeans`, `AllEnded`: only a destroyed client
    waits for its socket's close to call back; from this callback on nothing is
    left in the queue, `close()` settles with it and both report after it.

`CarefulUser` says that `destroy()` is not called from within `onResponseError`
and `onRequestSent`. The hypothesis is about the user, not about a constant of
the code; without it `NoAssertFails` is violated (section 5), so what the code
asserts rules those two calls out itself. Every other call from every callback
is allowed, also `dispatch` and `pipelining =` within `onResponseError`, which
`Nested` leaves out.

**Timers** (`TimersProofs`), for any timers and delays, under `NoAdd` (callbacks
add no timer; section 5 says why it is needed):

- `NothingLost`: `Spec => []NoTimerLost`.
- `TimersAreAlarms`: `Spec => AlarmsKept`, every step of `Timers` is a step of
  `Alarms` or leaves it as it is.

Both rest on the inductive invariant `IInv`: where the walk is and that the
timer whose callback runs is still the one at `idx` (`Walk`); no timer is in the
array twice, and each that is knows it (`NoDuplicates`), without which the timer
moved into the gap could be counted twice; every armed timer is in front of
`len` (`AllListed`); an array that is not empty has its tick (`WillRun`);
`elapsed` is `waited` or one more (`Counts`); and what the walk has passed in
this tick is not due yet (`OnTime`), which is why the next tick may begin.

**Pool** (`PoolProofs`): `PoolQueueIsFifo`, `Spec => []QueueIsFifo`, for buffers of
any size of at least two slots and any number of them. `HoldsInOrder` says that there is a
way to cut the sequence of waiting requests into one piece per buffer; `Holds`
lays one piece out in a ring, by `Wrap`, which a push and a shift move by a slot;
of several buffers none is empty, else `shift()` would return undefined with
requests behind it. The rest of the proof is that every action of `Pool` pushes,
shifts, drains (`kDestroy`) or leaves the queue alone (`QueueStep`).

`PoolEndsAreOver`, `Spec => []EndsAreOver`, for all three kinds of pool, any number
of clients, requests and upstreams, any nested calls and faults. The invariant `EInv`
adds to that of the queue: a client that may still be given a request, or may have
some left, is in rotation or retiring (`Tracked`), so that `kDestroy` reaches it and
`kClose` waits for it; each request that was dispatched is done, waits or is held by
a client (`Accounted`); before the pool is destroyed no client that holds a request
is, and afterwards all of them are, and nothing waits (`NoneDestroyed`,
`AllDestroyed`); once `closeClients` waits for clients, every one that holds a request
is among them (`Awaited`). `Alters` and `Lets` are what a step may do to the
clients: nothing to what they hold, or let some of it go that has its outcome then.
That retiring clients keeps the others in rotation (`WithoutMeans`) is an induction
over a sequence, done by least counterexample: `LeastExists` gets it from the
library's theorem on well-founded relations, without an operator as parameter.

**EventSource** (`EventSourceProofs`): `CloseIsFinal`,
`~CloseWithHead /\ Spec => ClosedForGood`, for any streams, times and faults: once
CLOSED it stays so, makes no connection and gives no message of a later chunk.
Two things may follow a `close()`, and the theorem does not deny them: the rest
of the chunk whose listener called it, and the `error` event of the aborted fetch. The
invariant says that the timer is armed only between two connections
(`TimerAfterEnd`) and that an EventSource that is CLOSED has no request and an
aborted fetch, of which no head waits for its callback (`ClosedIsAborted`); this
last part is what `CloseWithHead` breaks.

**Fetch** (`FetchProofs`), for any options, statuses, body lengths and limits,
under `NothingBetween` (neither `ErrorWithHead` nor `AbortWithHead`, section 5):

- `OneExchange`: `NothingBetween /\ Spec => ExchangesGivenUp`.
- `BodyIsWhole`: `NothingBetween /\ ~LateBare /\ Spec => []BodyIsHonest`.

Five places look at the controller the hops share, and each of them at another
part of it. The inductive invariant `IInv` says what they agree on: all hops but
the last are over and hold nothing (`Over`); the last has not begun, or is what
`controller.abort()` would act on (`Progress`); a fetch that has given up has no
hop that is not given up too, and no head is waiting for its microtasks
(`GivesUp`); what was sent was taken or waits (`Counts`); the listener of
`terminated`, which asks for the stream of the first hop, finds it readable as
long as the last one may be (`Listens`); a body ends with its exchange, or the
controller knows, or it is that of a redirect without Location, which was the
first hop (`BodyEnds`). `Stop`, which every failure, abort and cancellation
goes through, is treated once (`StopStep`), as is every other change of the last
hop (`ChangeStep`); `Steady` and `Governed` are what their callers have to show.

`RangeIsServed`, also there: for any blob and any Range header a `blob:` URL is
answered with the bytes that were asked for, which `Content-Range` names, and
refused only if there are none, unless a suffix is longer than the blob;
`LongSuffixIsCut` is about this exception.

**WebSocket** (`WebSocketProofs`): `MessagesAreWhole`,
`~SlowInflate /\ Spec => []MessagesIntact`, for any frames the server sends, cut into
chunks anywhere, any `MaxFragments`, number of sends and blobs. `SlowInflate`
loses a message (section 5); `KindAssumption` only says which fault which frame can have:
deflate data can be broken where there are any, a text where there is one. What
the user should get is `Heard`, a fold over the frames as a recursive function; that it
exists and has its values is again an induction by least counterexample
(`GrowsExists`, `HeardMeans`). The inductive invariant `IInv` has three parts:

- `Shape`: types, and what ready state, `closeState`, socket, handshake and the
  parser's state say of each other;
- `Talk`: unless the parser stopped, it is in step (`InStep`): what it has parsed,
  its buffers, the chunks that wait and what is still to come lie in the wire one
  behind the other (`Laid`), and it has taken the first `k` frames (`At`). While
  the socket is open, the user got what these frames say; the fragments are
  those of the message they leave open, inflated if its first frame is deflated
  (`Gathers`), which is what `info.compressed` knows through pings and
  continuations (`Knows`). Where the reference has stopped hearing and the parser
  has not, it holds a fragment that is no UTF-8, and will fail at the message's end;
- `Leave`: what was written and what waits behind a blob are one ascending
  sequence of messages, and behind a stream's Close frame there is none.

`WireIsWired` says what lies where on the wire, `Resumes` and `Turns` what the handlers
leave alone; each action of the parser has a lemma for what it takes (`Adds`, `Ends`).

Only model-checked is the rest of section 4:

- liveness and whatever rests on `ENABLED`, which are out of the prover's reach;
- what folds compute over data (`Responses`, `Caching`, `EventSource`'s parser): the
  library's induction theorems take an operator as parameter, which no installed
  prover instantiates. A least counterexample, as in `PoolProofs` and
  `WebSocketProofs`, gets by without for recursive functions, but not through the folds
  of the community modules, whose recursion has an operator as parameter too;
- `NoAssertFails` and `WaitIsTimed`, which do not hold for every value of the
  constants: a lowered pipelining factor and an upgrade with `reset: false`
  violate them (section 5). They are shown for the instance of their run;
- `SentInTurn`, which counts what happened to other requests;
- the properties of `ClientH2`, `Responses`, `Caching` and `Exchange`, and
  `CloseIsHonest` of `WebSocket`, which are not proved yet.

## 7. Plan

1. **ClientH2**: `StreamsMatchRequests` as an invariant by the number of sessions.
2. **Agent**: one dispatcher per origin, removal of those that are idle; the
   redirect handler in front of `Responses`; SOCKS5's handshake.
3. **Milo**: the callbacks of the alternative parser against those of `ClientH1`.

Runs are to stay few: one per component with its hardest instance.
