# fetchpp in TLA+

A verification development of fetchpp, the asynchronous HTTP client on top of
Boost.Asio and Boost.Beast: TLA+ models of its session, its transports, its
client, its one-shot fetch and its messages, TLC configurations that check them
on small instances, and TLAPS proofs of every safety property they check, for
instances of any size.

Paths below are relative to `libs/fetchpp/`; `core/` stands for
`include/fetchpp/core/`.

## The system

| component | state | operations | talks to |
|---|---|---|---|
| session (`core/session.hpp`, `core/detail/session_base.hpp`, `src/core/session_base.cpp`) | `tasks_`, `is_running_`, `timer_`, one `process_queue_op` per task, the transport | `push_request`, `async_start`, `async_stop`; on the strand `process_task`, `advance_task`, `cancel_all_tasks` | calls the transport; posts to its strand and to the callers' executors |
| transport (`core/basic_transport.hpp`, `core/tcp_transport.hpp`, `core/ssl_transport.hpp`, `core/detail/close_ssl.hpp`) | `stream_`, `buffer_`, `running_`, the timers of the Beast stream | `async_connect`, `async_close`, `reset`, `setup_timer`, `cancel_timer` | resolver, socket, TLS engine |
| `async_process_one` (`core/process_one.hpp`) | where the write / read stands | one request and its response over a transport | transport |
| client (`include/fetchpp/client.hpp`, `core/detail/client.hpp`, `src/core/client.cpp`) | `sessions_`, `proxies_`, `max_pending_` | `async_fetch`, `async_stop`, `add_proxy`, `set_proxies`, `set_max_pending_per_session` | creates sessions, pushes to them, stops them |
| tunnel transport (`core/tunnel_transport.hpp`) | as transport, plus the CONNECT exchange | `async_connect`, `async_close` | proxy |
| one-shot fetch (`core/detail/fetch.hpp`, `fetch.hpp`, `get.hpp`, `post.hpp`) | one request, one transport | `async_fetch`, `async_get`, `async_post` | transport |
| proxies, endpoints, URLs (`src/http/proxy.cpp`, `src/core/endpoint.cpp`, `src/http/url.cpp`) | none | `select_proxy`, `to_endpoint`, `safe_port`, `is_ssl_involved` | used by the client |
| HTTP messages (`http/message.hpp`, `http/request.hpp`, `src/http/content_type.cpp`, `src/http/authorization.cpp`) | fields and a body | `content`, `content_type`, `set`, `accept`, readers | filled by the caller, sent by `async_process_one` |
| options | none | read by nothing | |

What makes the code hard to test:

* everything is a callback: between two steps of an operation the caller may
  push, stop or fetch, a timer may fire, and the peer may answer, fail or stay
  silent. Each session serialises its handlers on a strand, so a handler is
  atomic and only the order of handlers varies;
* the session's queue has no lock and no "busy" flag: that exactly one op works
  on it follows from a token handed from `push_op` to `process_task`, to an op,
  to `advance_task`;
* errors trigger a close, and the answer to the caller is given after it;
* Beast's timers belong to the stream, not to the operation: `setup_timer` and
  `cancel_timer` of one operation act on the others;
* a connection and its buffer outlive the operations on them: what a failed request
  leaves there must be gone before the next response is read, while bytes behind a
  complete response, or behind a proxy's reply, stay for the next one;
* a message is a multimap with setters that append, add or replace: what it says
  depends on the order of all calls;
* stopping a session waits for work that other handlers finish, bounded by a
  500 ms timer that is shared by all stops.

`PROJECT.json` lists the hazards one by one, each at its line, with the
properties that would catch it.

## Modules

### `Session`, the core

One action per handler that runs on the session's strand.

| action | code |
|---|---|
| `Push` | `push_op::operator()` |
| `ProcessTask`, `AdvanceTask`, `CancelAllTasks` | `session_base::process_task`, `advance_task` (with `pop_task`), `cancel_all_tasks` |
| `RunOp`, `ConnectDone`, `ProcessDone`, `OpCloseDone`, `Retry` | the entries of `process_queue_op::operator()`: its top, after the connect, after `async_process_one`, after the close, after it posted itself |
| `Complete` | `process_queue_op::complete` |
| `Start`, `StartDone` | `start_op` |
| `Stop`, `StopCloseDone`, `TimerExpires`, `StopWaitDone` | `stop_op` and `async_wait_for_tasks_cancellation` |
| `Resolved` | the socket of a connect is opened once the resolver has answered |

The transport is a record of `TransportContract`, and the sets `ConnectResults`
and `ProcessResults` of that module say what its operations may end with.
`LoseSocket` is a timer of the stream that closes the socket under an operation.
Error codes other than `operation_aborted` are not told apart, since the session
does not. Requests, starts and stops are identifiers, each used once. History
variables record pushes, answers, attempts and served requests.

Callers are assumed to use a session as its tests do: `async_start` is called on
a session at rest, and nothing is pushed before it has answered. Stops may come
at any time; whether two may overlap is the constant `OverlappingStops`. The close
of a tunnel replaces the stream, which is undefined behaviour under a running
operation: with a tunnel, callers stop gracefully and one at a time while it is in
use (`StopAllowed`). The operations such a stop cancelled are called back before its
close is, since the strand is FIFO (the guard of `StopCloseDone`).

### `RequestQueue`, what a session promises

A queue without transport, strand or timer: it serves its front request, closes
when one fails or when it is told to, refuses while closed and aborts what it
holds, in order. `Session` implements it with `queue <- tasks_ without an
answered head` (`ImplementsQueue`), and keeps its liveness as long as no connect is `Orphaned`
(`KeepsAnswering`, see Fairness).

### `TransportContract` and `AbstractTransport`, what a transport promises

`TransportContract` holds, as operators on a record (`open`, `running`, `dirty`,
`extra`, `used`, `proxied`, `conn`), what a session can know of its transport: how
each call changes it and what each operation may end with (success, an error that
leaves the socket open or closed, or `operation_aborted` after `async_close`).
The buffer is told apart by whose bytes it may hold. `dirty`: the rest of a response
whose request failed. `extra`: bytes behind a complete response, or that the CONNECT
of a tunnel left, refused or accepted. Only `reset`, or the close of a tunnel, clears
either; nothing else looks at them, so a response may be made of them.
`AbstractTransport` is the state machine of those operators; its `Replied` is the
moment the proxy's reply is in the buffer and the handshake still to come. `Session`
is written against the operators, and `Transport` is shown to implement the state
machine (`ImplementsContract`): what `Session` is checked under is what the detailed
transport does.

### `Transport`

One transport (`t.kind`, any of `Kinds`): TCP, TLS, or TLS through a proxy's tunnel. The stream has a read and a
write slot; each slot has a timer that `expires_after` / `expires_never` can
change only while the slot has no operation, and an operation that has completed
keeps its slot until its handler runs. That is Beast's behaviour (external), and
it decides which operation of an overlapping pair is timed. `ConnectCall`,
`ResolveDone`, `TcpConnectDone`, `HelloSent` and `HandshakeDone` are
`async_basic_connect_op` with the TCP and TLS ops under it, and with
`ConnectRequestSent` and `ProxyReplied` `async_tunnel_connect_op` (its CONNECT
through `stream_op` and `parser_op`, which reads the header of the proxy's reply and
leaves what is behind it in the buffer); `ProcessCall`,
`WriteDone`, `ReadSome` and `ReadDone` are `transport_op`; `CloseCall`,
`PostedDone`, `TcpCloseDone`, `SendNotify`, `NotifySent`, `AwaitNotify` and
`SslCloseDone` are `async_close` with the two close ops. `PeerCompletes`,
`Timeout` and `KernelGivesUp` are the environment. It is used as the session
uses it: one connect or request at a time, none on a transport whose last
request failed until it was closed. `BusyCloses` are the closes that may come
while an operation runs, which is what `session::async_stop` does, and each close
is graceful or not. A tunnel replaces its stream at the end of a close, not at the
next connect, and under a running operation that is undefined behaviour, so a
tunnel is closed when idle (`MayClose`).

### `SimpleFetch`

`async_fetch` without a client, composed with `Transport`: `Launch` makes the
endpoint (`safe_port`, `to_endpoint`, with ports that pass through
`std::int16_t`) or throws; `FetchConnects`, `FetchConnected` and `FetchProcessed`
are the entries of `simple_fetch_op`, which sends its request whatever the connect
answered; `HandlerCalled` is the posted handler, for https without a context the
composed operation that owns the context and passes the answer on.

### `Client`

The pool. A session is its endpoint, its queue and the `inbox` of pushes and
stops on their way to its strand, since `pending_tasks()` does not count them;
its queue behaves as `RequestQueue`. `Fetch` is `client_fetch_op` with
`select_proxy`, `to_endpoint` and `get_session`; `StopCall`, `StopSession` and
`SessionStopped` are `client_stop_sessions_op`. A fetch whose endpoint cannot be
built (a scheme without proxies, a port that `safe_port` cannot deduce, the
`Portless` origins and proxies, an http URL behind a proxy) throws and is never
answered (`thrown`). A stop that reaches a session under a connect may leave it
`orphaned`, as `Session` says. Callers make no fetch that needs
a new session while they stop the client: `sessions_` would grow under the
iterators of the walk.

### `ClientQueues`

`Client` with a history variable: `past` records, for each session of the pool,
what it refused and what it replied, and restricts nothing. With it each session,
`Queue(i)`, is an instance of `RequestQueue` (`SessionsAreQueues`), so the client
stands on what `Session` implements and not only on the same description of it. A
session is there, empty and open, before it is made; its queue is its tasks without
an answered head, and what comes out of the inbox is what is pushed.

### `Message`

A message as its fields (a sequence of values for each name) and its body, for a
request from its constructor on and for a response as it was received. One action
per setter: `ContentString` and `ContentBuffer` (`content`, with `prepare_payload`
and its throw for a TRACE, or a 1xx, 204 or 304 response, that gets a body), `SetTypeText`, `SetType`, `SetAuthorization`, `Accept`,
`AcceptType`, and `InsertHeader` for the headers of `async_get` and `async_post`.
The text of a content type is the sequence of its parts, so `Parse` and `to_string`
do what the code does: the parser wants the charset before the boundary and
nothing else and refuses the types of `BadTypes`, those with a `.` or a `+`;
`to_string` loses both parameters. `history` keeps the calls made; the
properties compare what the readers return with what the whole sequence of calls
says: they speak of positions in it (`CallsOf`, `Inserts`, the `First` and the `Last`
of them), of the call that declares the type (`Declaring`) and of the data of its
contents, joined (`Given`).

Each module also holds variants of some definitions named `Faulty...`: plausible
mistakes in the code they stand for, each of which one of the properties rejects
when it replaces the real definition.

## Runs

| run | shows |
|---|---|
| `session` | `SingleRunner`: the queue has exactly one runner. `InOrder`: answers in push order, once each, nothing lost. `AtMostTwoAttempts`: one retry. `OkMeansServed`: success only with a response. `NoStaleBytes`: no response read over the rest of a failed one, and the first of a direct connection over nothing older. `StopOkMeansDrained`: a successful stop leaves no task. `ImplementsQueue`. |
| `session_live` | With overlapping stops that may hang: `RequestsAnswered`, `KeepsAnswering`, and `StopsAnswered` if the stops' own closes end. |
| `transport_tcp` | TCP closed at any moment, three times: `ClosedNeverOk`, `ImplementsContract`; `ConnectAnswered`, `ProcessAnswered`, `CloseAnswered` although the peer may be silent for ever. |
| `transport_tls` | TLS, closed at any moment by one of three closes, and a tunnel, the CONNECT exchange included: `TimedWhileRunning`, `IdleMeansDisarmed`, `CleanResponse` (as `NoStaleBytes`), `ProcessAnswered`, `ImplementsContract`; connects and closes end as long as no close comes while the transport is busy (`PatientlyAnswered`). |
| `client` | `ExactlyOnce`: every fetch sent is waiting in one place or was answered once. `StopOkMeansQuiet`: a successful stop left every session stopped and empty. |
| `client_queues` | `SessionsAreQueues`: every session of the pool is a `RequestQueue`. `FetchesAnswered`, but for an orphaned connect; `ClientStopAnswered`. |
| `simple_fetch` | `OkMeansConnected`: no success without a connection, although the connect's error is not looked at. `DestroyedWhenQuiet`: nothing runs in the transport that is destroyed. `PortKept`: ports survive the signed integer. `ImplementsContract`: the transport keeps its contract under this caller too. `FetchAnswered`. |
| `message` | `TypeAsDeclared`, `LengthOfAllContents`, `NoStaleField`: type, body, length and fields are what the whole sequence of calls says. `ReadAsDeclared`: `is_json` and its like tell the type declared, and throw exactly if that one cannot be read. |

Four runs show a disagreement between the code and what the repository says of
it (the findings in `PROJECT.json` quote the lines):

* `session_retry`: a request is retried after its first error on any connection,
  not only a reused one as the comment says;
* `session_two_stops`: a second `async_stop` re-arms the shared timer and so
  makes the first one report success while a task is left;
* `transport_ssl_hang`: a TLS transport closed while a request is in flight loses
  the timer of its shutdown to the request's `cancel_timer`, and waits for ever
  for a peer that sends no `close_notify`;
* `message_params`: a content type set with a charset or a boundary is sent, and
  read back, without it.

### Bounds

* Session: three requests give a front, a middle and a last task when one fails;
  two stops and a start give stop-restart-stop. Nothing else is bounded: attempts
  stay finite because the model says so (`AtMostTwoAttempts`). The liveness run
  uses two requests. Calls of one kind are interchangeable, hence the symmetry in
  the safety run.
* Transport: `MaxCalls = 6` connects and requests with three closes allow connect,
  request, close, twice over, with a close that overlaps another or a connect.
* SimpleFetch: one fetch; five schemes (with TLS, without, without a default port),
  ports on both sides of the limits of `int16_t` and `uint16_t`.
* Message: three calls; content before and after a type, a header between, two
  contents around a type all fit. Requests of three methods (one with a length of
  zero, one that must have no body), responses with and without a body.
* Client: three fetches, two of them to one endpoint, `max_pending_` changing
  between 1 and 2, two proxies (one `Portless`) that apply to either URL, one stop. `client_queues`
  sends all three to one endpoint, where they share a session or have up to three.

`CHECK_DEADLOCK FALSE` everywhere: the calls are finitely many, and a client that
has nothing left to do stops.

### Fairness

* `Session`: the strand runs what is posted (weak fairness of `ProcessTask` and
  `AdvanceTask`), and the transport operation an op waits for ends (`OpStep`).
  The latter is what `Transport` shows with no help of the peer, for TCP always,
  for TLS when no close comes while it is busy (`PatientlyAnswered`). The
  exception is a connect that outlived a close which took its timer away
  (`Orphaned`): the resolver had answered before it could be cancelled, or the
  close was not graceful. A TLS handshake may then wait for ever, so such an op
  gets no fairness, and `RequestsAnswered` and `KeepsAnswering` leave it out.
  Nothing is assumed of the stops' closes: `CallerFairness` (starts and stops go
  on) is the premise of `StopsAnswered` alone, and `transport_ssl_hang` says when
  it fails for a TLS session.
* `Transport`, `StreamFairness`: ready handlers run, the resolver answers, the
  kernel gives up a connect, and (strong fairness) a slot that keeps being timed
  times out: the deadline is absolute and is not moved between the pieces of a
  response. The peer gets no fairness.
* `SimpleFetch`: `StreamFairness`, and the executor runs the fetch's handlers.
* `Client`: the sessions' strands run, and `Session`'s liveness results with their
  exception: a session whose connect a stop `orphaned` owes no answer, and
  `FetchesAnswered` leaves out what waits there (`tests/test_client.cpp`, "client stops
  while connecting", waits for exactly these fetches; its server answers).
* Nothing ever makes a caller push, fetch, start or stop.

## Proofs

Checked by TLAPS, for every value of the constants that the modules' assumptions
allow. The inductive invariants were first checked by TLC on the runs' instances. A
transport's safety properties are proved for all kinds at once; the runs of
`Transport` divide them between them.

| theorem | property | module |
|---|---|---|
| `OneRunner`, `SessionTypes` | `SingleRunner`, `TypeOK` | `SessionProofs` |
| `HandlersInOrder` | `InOrder` | `SessionProofs` |
| `RetriedOnce` | `AtMostTwoAttempts` | `SessionSafetyProofs` |
| `ServedFromCleanBuffer` | `NoStaleBytes` (a step property) | `SessionSafetyProofs` |
| `SuccessIsServed` | `OkMeansServed` | `SessionSafetyProofs` |
| `StopDrains` | `StopOkMeansDrained` (a step property), if stops do not overlap | `SessionSafetyProofs` |
| `SessionIsQueue` | `ImplementsQueue` (refinement) | `SessionRefinement` |
| `TransportTypes` | `TypeOK` | `TransportProofs` |
| `IdleIsDisarmed`, `RunningIsTimed` | `IdleMeansDisarmed`, `TimedWhileRunning` | `TransportProofs` |
| `ClosedIsAborted`, `ResponsesAreClean` | `ClosedNeverOk`, `CleanResponse` (step properties) | `TransportProofs` |
| `TransportKeepsContract` | `ImplementsContract` (refinement) | `TransportRefinement` |
| `FetchTypesKept`, `OkIsConnected`, `DestroyedQuietly`, `PortIsKept` | `FetchTypeOK`, `OkMeansConnected`, `DestroyedWhenQuiet`, `PortKept` | `SimpleFetchProofs` |
| `FetchKeepsContract` | `ImplementsContract` (refinement) | `SimpleFetchProofs` |
| `ClientTypes`, `FetchedExactlyOnce`, `StoppedIsQuiet` | `TypeOK`, `ExactlyOnce`, `StopOkMeansQuiet` | `ClientProofs` |
| `SessionsBehave`, `SessionImplementsQueue` | `SessionsAreQueues` (refinement), and `Queue(i)!Spec` of each session | `ClientProofs` |
| `MessageTypes`, `TypeIsDeclared`, `ReadersAnswerAsDeclared`, `LengthIsOfAll`, `NothingStale` | `TypeOK`, `TypeAsDeclared`, `ReadAsDeclared`, `LengthOfAllContents`, `NoStaleField` | `MessageProofs` |

These are all the safety properties the passing runs check, and all four
refinements. The layers fit: the transport is proved to keep `TransportContract`,
under a session's calls and under a fetch's; the session is proved against that
contract to be a `RequestQueue`; and each session of the client is proved to be a
`RequestQueue`.

### Session

`OneRunner` is the token argument. `TypeOK` is not inductive alone:
`advance_task` takes the tail of the queue, which is a sequence only if the queue
is not empty, and that a posted `advance_task` finds a task is part of
`SingleRunner`. `RunOpToken`, `OpToken` and `LastJob` say how the token moves
when an op is entered, goes on or completes, and when the strand takes its job.
`InOrder` needs `SingleRunner`: an op answers the head of the queue only because
the op that runs is the head's, and the answered head is told apart from a
waiting one by the only job the strand can hold.

`RetriedOnce` rests on `Accounts`: `firstRound` is reset when an op is entered,
so one has to know that each op is entered once. No request is pushed twice
(`Distinct`), what waits behind the head was never sent (`Untouched`), and where
an op stands bounds its attempts (`Rounds`).

`ServedFromCleanBuffer` rests on two invariants. `Connection` ties the session's flags
to its transport's: a session that is being stopped does not run, nothing is queued
while `async_start` connects, a connect has an owner, the transport of a running
session runs but for a close and a second round, a second round finds the socket
closed (so it connects again), and a session stopped under a request has closed its
transport. `Buffer` says whose bytes the buffer holds: the rest of a response is
there only in a transport that was closed, and in a tunnel only until that close ends
(`RestCleared`); bytes behind a response are there as long as its connection
(`SurplusCleared`). For that one has to know that a close clears `running_` before it
waits, that starts do not overlap, that a connect under way has not ended, that a
connection is lost only under a request, and that a tunnel closed under a request is
still to be cleared. They are proved together: most steps need several of them to
keep one.

`SuccessIsServed` needs that `last_ec_` holds an error whenever an op closes
(`Honest`): `Complete` passes it on, and a default-constructed code is a success.

`StopDrains` has the hypothesis `~OverlappingStops`, since the property is false
without it: that is the finding of `session_two_stops`. Its invariant is that one
stop is under way (`OneStop`) and that the wait's timer is cancelled only when the
tasks are gone (`CancelledDrained`).

`SessionIsQueue` maps the queue to the tasks without an answered head.
`RunOpImplements`, `OpImplements` and `AdvanceImplements` show a task's steps to be
stutters or an answer at the front of the queue, `PushImplements` an accepted or a
refused push; the rest of the steps close, open or stutter. It uses `InOrder` (an
answer is the head's), `Connection` (a connection is owned, so a start opens an
empty queue) and `Honest` (an op that answers after a close answers an error).

### Transport

All of it stands on `Ordered`, which is `TypeOK`, `Owned` and `Order`. `Owned`
says who holds each slot of the stream, in both directions: a slot is a connect's,
a request's or a close's exactly when that operation waits for it. `Order` says
which operations cannot overlap although closes come at any time: a connect and a
request, a shutdown's notifications and a connect, a tunnel's close and anything
else. From there:

* `IdleIsDisarmed` follows from `Disarmed` (the last operation to end cancels the
  timers of a connection that is kept; `setup_timer` of a close finds the slots
  free only when nobody else is left), `RunningIsTimed` from `Timed`: while a
  running transport works both of its slots have a timer, and what waits in one was
  begun with it;
* `ClosedIsAborted` and `ResponsesAreClean` from `Answers`: what belongs to a
  request has its connection as long as the transport runs, and only a close aborts
  (`Sound`); a request closed under does not run (`ClosedStopped`); the buffer of a
  running transport has the rest of a response only until its caller has dealt with
  the failure, and bytes behind one only as long as its connection (`Clean`).

`TransportKeepsContract` maps an operation that has not answered to `pending`, a
close's stages to three, and the stream's steps to stutters, except those that close
the socket under an operation, which are the contract's `Drop`. What a
connect or a request ends with is in the contract's result sets (`ConnectAnswer`,
`ProcessAnswer`); `Fresh`, that no request is answered under a connect and that a
tunnel's handshake comes after the proxy's reply, makes the contract's buffer and the
transport's agree.

### One-shot fetch

Its steps are not all steps that a session makes: it sends its request whatever
its connect answered. So `Spec`'s theorems do not apply, and the lemmas of
`TransportProofs` are used step by step. `FetchInv` adds to `Ordered`, `Disarmed`
and `Sound` that its transport is never closed (`Unclosed`), what the fetch has
asked of it at each stage (`Stages`), and that a connection ready for requests was
reported (`Earned`). `PortInv` proves the conversions for all 2^16 ports.

`FetchKeepsContract` takes the steps of `TransportRefinement`: `OtherStep` shows every
step of a fetch but one to be a step of `Transport`'s specification. The one,
`FetchConnected`, sends a request over a transport whose connect may have failed; the
contract allows a request on any running transport that does nothing else, and
`RequestImplements` shows that its buffer is clean, as `Fresh` and `Answers` need it.

### Client

`ClientInv` follows the calls. `ExactlyOnce` is about `Cardinality(Owed(f))`, which
no step preserves by itself; the invariant says where calls are. A fetch or a stop
waits at one position of one session's inbox or tasks, or nowhere (`WaitOnce`), a
fetch that was sent waits or was answered once (`Owing`), and an answered front task
is there until it is popped (`FrontAnswered`), without which a push into an empty
queue would be taken for answered. For `StoppedIsQuiet`, the stop that a session
has not looked at is the one that walks there (`StopsInOrder`), and what has been
walked past is stopped and either empty or remembered in `failed` (`WalkedBy`);
`WalkedSettles` says that no fetch, failure or answer undoes it. The proof tells each
step of a session by the calls it loses (`AnsweredLoses` and its neighbours), lifts
that to the pool (`PoolLoses`, `PoolGains`, `PoolGrows`) and then to the invariant.
`First(I)`, a `CHOOSE` of the least candidate, exists because `<` is well founded.

For `SessionsBehave` and `SessionImplementsQueue`, `RunPushQueue`, `AnswerQueue`,
`AdvanceQueue` and `StopQueue` take each step of a session to the step of its queue,
and `Bystanders` shows that the other queues stutter, since a call waits in one place
only; steps of the client touch none (`ClientTouchesNone`), even one that makes a
session. A `RequestQueue` is never pushed the same request twice, which is a guard
there and has to be shown here: `PastInv` says that whatever a queue refused or
replied to was answered, and by `ClientInv` a call that still waits was not.

### Message

`NextCalls` reads every action as one call of three sorts: it appends to the body
(`content`), replaces a field or adds to one (`Called`), and `HistoryGrows` and
`PositionsGrow` say what one more call changes in the positions the properties speak
of. `DeclaringAfter` is the reference's own step: a call declares the type if it sets
one, or if it is the first to bring one along. `FirstDeclared` is the invariant: the
first value of the type field, the one that is read, is what the declaring call wrote
(`Written`). What that call named is then read back (`WrittenType`), and can be read
if the call's type can (`WrittenReadable`). `LengthIsOfAll` needs that the length read is
the whole body's after each call, not only after a `content`, since a header may add
another one behind it (`LengthToldStep`). `NothingStale` counts the inserted fields
(`InsertsCounted`).

`Given` is a recursive function of the history. The induction theorems of the library
take an operator, so `SetInduction` states induction for a set of numbers, from
`WFMin` and the well-foundedness of `<`; with it `DataUpToExists` shows that the
recursive function exists, `DataUpToEquation` that it satisfies its equation, and
`GivenAppend` what a call adds to it.

### Assumptions

The named `ASSUME`s of the modules, which TLC evaluates in the runs: sets of
calls are disjoint, the URL of a fetch is a URL, limits and the bound `MaxCalls` are
naturals, ports are 16-bit numbers (`PortsAssumption`), bodies are sequences of bytes
(`DataAssumption`), texts of content types are sequences of parts with a string each
(`TextsAssumption`), the three types the library names itself are none of `BadTypes`
(`BadTypesAssumption`), and `EnoughCalls`: a `SimpleFetch` may make the one connect and
the one request that it makes.

### Only model-checked

Liveness, and with it fairness and `ENABLED`, which the prover does not handle:
`RequestsAnswered`, `KeepsAnswering` (the queue's liveness), `StopsAnswered`,
`ConnectAnswered`, `ProcessAnswered`, `CloseAnswered`, `PatientlyAnswered`,
`FetchAnswered`, `FetchesAnswered` and `ClientStopAnswered`. That the sessions of a
client answer (their fairness in `Client`) is therefore a result of TLC's on
`Session`, while what they answer is proved.

## Not modelled

* Tunnels closed while an operation runs, a stop that is not graceful among them.
* Operations started inside the completion of another one, before that one has
  cancelled its timer (`tunnel_transport.hpp:85` and `:103`).
* URL parsing, `target()`, query strings, `host()`, JSON: the work of libraries, or
  formatting. Bodies are sequences of a few bytes; 80 MiB body limits are left out.
* `proxy_from_environment` and the parsing of proxy URLs: environment and strings.
* Options, cache mode and redirect handling: read by nothing. Asio glue: types.
* The lifetime of C++ objects, beyond `DestroyedWhenQuiet`.
* What OpenSSL does with a second handshake on a used stream, and what a deque
  does with invalidated iterators: undefined or external; the callers of the
  models avoid them, and the hazards say so.

## Plan

1. `Session` with `RequestQueue`, `Transport`, `Client`: done, in that order,
   since the session carries the program's core logic and the other two are what
   it stands on and what stands on it.
2. `TransportContract` and `AbstractTransport` between `Session` and `Transport`,
   the tunnel's buffer, `SimpleFetch` over `Transport`, `Message`: done.
3. Proofs of the safety properties, those of `Message` included: done.
4. Proofs that the layers fit: `Session` and the sessions of `Client` implement
   `RequestQueue`, `Transport` keeps `TransportContract` under a session's and under a
   fetch's calls: done.
5. Left: handlers that start an operation inside a completion, for the tunnel's
   refused CONNECT; a client whose `Session` is the detailed one, for liveness.
