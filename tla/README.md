# A TLA+ model of firebolt-cpp-transport

The library connects an application to a JSON-RPC gateway over a websocket. It
is small, but five kinds of threads meet in it: application threads, the
websocketpp IO thread, the message worker, the notification worker and the
watchdog. This project models that concurrency and the pure parts around it
(routing of messages, logging, URLs), checks it with TLC, and proves every safety
property of the passing runs with TLAPS, for every size. Source paths below are relative to the repository root.

## The system

| Component | State | Operations | Hard part | Properties that make it correct |
|---|---|---|---|---|
| Request layer: `Client` (`src/gateway.cpp` 65-256) | `queue` of callers with a promise each; identifiers from `Transport::id_counter_` | `request`, `response`, `checkPromises`, `cancelAll` | four kinds of threads race for one promise | each promise is fulfilled once, by the right answer; nobody waits for ever |
| Message worker (`src/transport.cpp` 91-156, 407-429) and notification worker (`src/gateway.cpp` 296-370) | queue, mutex, condition variable, atomic stop flag, thread | push, take, stop and join | lost wake-ups; draining before exit | order, nothing lost, stop returns |
| `Transport` (`src/transport.cpp`) | `connectionStatus_`, IO thread, websocket client, response headers | `connect`, `disconnect`, `send`, `onOpen`, `onFail`, `onClose`, `onMessage` | calls race with handlers | status, connection and what the application was told agree; disconnect returns |
| `GatewayImpl` lifecycle (`src/gateway.cpp` 488-667, 884-977) | listener, `connectionStarted`, `watchdogRunning`, watchdog thread, `cleanup_mtx` | `connect`, `disconnect`, `onConnectionChange`, `cleanupInternalState` | cleanup runs on two threads and may be late | one watchdog per connection; a loss answers what was pending |
| Subscriptions: `Server` (`src/gateway.cpp` 258-486), `GatewayImpl::subscribe/unsubscribe`, `HelperImpl` (`src/helpers_impl.h`) | event list, notification queue, subscription data | `subscribe`, `unsubscribe`, `notify`, callbacks | acknowledgements that are late or lost; callbacks that call back | registered callbacks are served; a callback finds its data alive, whoever unsubscribes meanwhile; no deadlock |
| Message routing (`GatewayImpl::onMessage`, `src/gateway.cpp` 805-882) | `rpcv1_eventMap`, `legacyRPCv1`, the pending requests, the event list | one decision per message, on the message worker | replies, acknowledgements and legacy events share identifiers; callers change the tables meanwhile | each message goes to the caller or the callbacks it is for, or nowhere |
| Lifetime (`~GatewayImpl`, `~Server`, `~Transport`) | the members and their order | destruction | threads that still use the members | threads are joined first; destruction ends |
| Logger (`src/logger.cpp`) | two atomics, a path cached per thread, a log file | `resolveLogLevelFromEnvironment`, `setLogLevel`, `log` | no locks; writes that fail half-way | lines permitted are written whole, once, to the right file; no overrun |
| URL utilities (`src/utils.cpp`, redaction in both `connect()`) | none | `buildGatewayUrl` | delimiters of one part inside another | the right part is extended; nothing secret is logged |
| Typed helpers, JSON types | none | conversions | - | not modelled |
| Vendored asio endpoint | third-party | connect and timers | exactly one callback | seen from outside, in `Transport` |

How they interact. The application calls `GatewayImpl`, which calls `Transport`
and `Client`. The IO thread runs `Transport`'s handlers: text messages go to
the message worker through a queue, and connection changes straight to
`GatewayImpl::onConnectionChange`, which cleans up after a loss and tells the
application. The message worker hands answers to `Client::response` and
notifications to `Server::notify`, which queues them for the notification
worker, where the application's callbacks run. The watchdog calls
`Client::checkPromises` every `watchdogCycle_ms`.

## Modules

- `RequestContract`: the abstract specification of `IGateway::request`. Fresh
  identifiers; a future is made ready once, with the server's answer to that
  call, with `Timedout` but only after `waitTime_ms`, or with a transport error.
- `Client`: the table that implements it. One step per critical section of
  `queue_mtx`, and one per `set_value`; `send()` is two steps (the status test
  and the write), so that a close can fall in between. `matched`, `timedOut` and
  `toCancel` are the locals of `response`, `checkPromises` and `cancelAll`.
- `QueueWorker`: the worker idiom. `worker = "dozing"` is the window in which
  the thread has found its predicate false and has not blocked yet; it holds the
  mutex there, which keeps a push out, but not the stop flag.
- `Transport`: composes `QueueWorker` (`INSTANCE`) with `connect`, `disconnect`
  and the IO thread. The websocket client is external: an attempt ends in
  `onOpen` or `onFail`, an open connection in `onClose`, `run()` returns when
  stopped or when nothing is left to do.
- `Gateway`: composes `Transport` with the listener, the watchdog, the cleanup
  and the notification worker, which the cleanup joins; this worker is
  `QueueWorker` again, without its queue. `onConnectionChange` copies the
  listener in one step (`CopyListener`) and invokes the copy in another. A second
  thread's request is one variable here: its details are in `Client`.
- `Subscriptions`: one event, several subscribers through one `HelperImpl`, the
  server's side of the listen requests, `notify` and the notification worker,
  with the wait/notify window of `QueueWorker`. A callback is two steps, the lock
  of the `weak_ptr` (`held`) and the call (`running`), so that an unsubscribe can
  come in between; `data` is the `SubscriptionData` that somebody still points
  to. It may make a blocking request or unsubscribe itself. `unsubscribeAll()` removes the subscriptions of an owner one after the other
  (`sweep`) under the helper's mutex.
- `Routing`: `onMessage` together with what it routes by, while subscribers come
  and go and requests are made. `serverLegacy` is the protocol agreed on when
  the connection was opened, `legacyRPCv1` the gateway's flag. The server knows
  what each message is about (`about`), the gateway sees only its `shape`. The
  flag changes: a `connect()` that is refused assigns it all the same. An
  identifier may be a boolean or a fraction, which the JSON library converts.
- `TransportCalls`: the objects of `Transport` that several application threads
  share without a mutex (client object, handle, receivers, thread), one step per
  use. `Transport` has the details of one call against the library's threads,
  this module has the calls against each other. A connection opens or ends in one
  step, and the handler's store of the status is another. `OneOwner` says whether
  one thread at a time connects or disconnects.
- `GatewayLifetime`: extends `Gateway` with the destructor, the order in which
  members die, `~Server()`, which stops and joins the notification worker, and
  `~Transport()`. The gateway's properties are checked here
  too, over everything that may happen before and during the destruction.
- `Logger`: configuration by `connect()`, the tests of a log call, the path and
  its cache, writing and fallback. `seen` is what was configured at some time
  during a call, which is what a correct line can be measured against.
- `LogLine`: the lengths in the two buffers of `log()`.
- `Url`: `buildGatewayUrl` and the redaction, over tokens; the reference puts a
  URL together from its parts.
- `MC*`: the instances TLC runs; `MCUtilities` has those of `Logger`, `LogLine`
  and `Url`. `*Proofs`: the theorems about the module of
  that name; `UtilityProofs` has those about `LogLine`, `Logger` and `Url`, which
  share no state with anything. `GatewayLifetimeProofs` uses `TransportProofs`, which uses
  `QueueWorkerProofs`, the way the components use each other.

The names of variables and actions follow the code; `PROJECT.json` maps each
definition to its lines. Operators directly before an action with a similar
name (`TakeBack` before `Take`, ...) are mistaken variants of it: each is a
plausible bug that makes one of the properties below fail.

## Runs

| Run | Bounds | States | Shows |
|---|---|---|---|
| `client` | 2 requests, 3 identifiers | 214436 | `NoFutureError`, `NoBrokenPromise`, `NotStranded`, `Contract` (refinement of `RequestContract`), `EveryRequestAnswered`. Every race over one promise, and between two, needs two callers; the threads that answer are all there. |
| `queue_worker` | 3 items | 423 | `Fifo`, `PushNeverMissed`, `StopReturns`, `ItemsHandled`, with any number of restarts |
| `transport` | 2 messages, any number of sessions | 2078 | `NoMessageRefused`, `DrainedOnDisconnect`, `QuietAgreement`, `EndIsToldUnlessStopped`, `AttemptDecided`, `DisconnectReturnsUnlessMissed` |
| `gateway` | 1 message, 2 calls of connect | 261423 | `TypeOK` (of transport and workers too), `WatchdogReplaceable`, `LossAnswersPending`, `FailedListenerDropped`; for the destruction at any point `CleanDestruction`. Two calls are the least with an old and a new connection. |
| `gateway_ends` | no messages, 2 calls of connect | 111036 | `CallsReturn`, `DestructionEnds`. Messages in the queue delay a stop and nothing else: run `transport` checks with two of them that `disconnect()` returns. |
| `subscriptions` | 2 subscribers, 1 notification, 2 sessions | 176160 | `RegisteredIsServed`, `CallbackDataAlive`, `LeavingReturns`, `CleanupReturnsUnlessMissed` |
| `routing` | 2 subscribers to one or two events, 1 request, 3 identifiers (the last one wraps to 0, none is used twice), 1 event, stray message or refused `connect()`, 1 message in the queue | 4.5 million (with symmetry) | `ReachesItsOwner` (a future gets the reply to its own request, a callback its own event), `SubscriptionsAgree` (event list, event map and server, whenever no call is in progress), `EventsDispatched`. Three identifiers allow a subscription, its failure or end, and another one. |
| `calls` | 3 threads, 3 connections | 1464 (with symmetry) | `HandleIsOpen`, `AssignsBetweenConnections`: one thread at a time owns the connection, the others send |
| `utilities` | 1 thread that logs, 2 paths, 2 levels, 2 connects, 3 changes of the environment; or a buffer of 8 with pieces up to 9; or 303 URLs with both protocols | 641637 | `EveryLineOut`, `PathIsCurrent` (a path, another value and the path again need two changes), `PermittedIsLogged`; `InBuffer`, `LongestPrefix` (every piece may fill the buffer exactly, or overfill it); `BuiltFromItsParts`, `LogsPlaceOnly`. `Logger`, `LogLine` and `Url` share no state, so each runs with the other two at rest. Two logging threads share nothing but the append to a file, which is atomic. |

Deadlock is not checked where the model ends at its bounds or with the object:
subscribers that have left, identifiers, connections or lines used up, a gateway
destroyed.

Three runs end in a counterexample, each against a sentence of the repository:

- `gateway_timeout` (`RequestTimesOut`): a `connect()` between `onClose` setting
  the status and the cleanup it triggers ends up with a connection without a
  watchdog, on which no request ever times out.
- `subscriptions_lost` (`NotificationsDispatched`): a `subscribe()` has seen to it
  that the worker runs, and registered its callback, when the connection is lost
  and its cleanup stops and joins that worker. The connection is opened again and
  the `subscribe()` sends its request over it, with success. The stop flag is
  still set and nothing starts the worker: the notifications are ignored.
- `calls_connect` (`StartsClean`), without `OneOwner`: two threads in `connect()`
  both find `NotStarted` (`src/transport.cpp:163`), and the second `init_asio()`
  throws. The changelog (`CHANGELOG.md:137`) lists the race of simultaneous calls
  of `connect()` as fixed.

### Conditions, and what happens without them

Some properties hold under a condition. Each is there because TLC found a
counterexample without it; the behaviour is in the model, and dropping the
condition shows it again.

| Condition | In | Without it |
|---|---|---|
| the worker is not between its test and its blocking when the stop flag is set (`StopMissed`, `NotesStopMissed`) | `DisconnectReturnsUnlessMissed`, `StopReturns`, `CleanupReturnsUnlessMissed`, `CallsReturn`, `DestructionEnds` | `stopMessageWorker()` (`src/transport.cpp:106`) sets the flag and notifies without the queue's mutex; the worker misses both and `join()` hangs. `stopNotificationWorker()` (`src/gateway.cpp:299`) is written the same way, and is called with `cleanup_mtx` held: the call or the destructor that waits for this cleanup hangs too. |
| the client was not stopped by force | `EndIsToldUnlessStopped` | `disconnect()` reads the status (`src/transport.cpp:297`) just before `onOpen` sets it: the application hears "connected" and never "disconnected". |
| the listener is looked up after the `connect()` has failed | `FailedListenerDropped` | the listener is installed before the outcome is known (`src/gateway.cpp:550`). An `onConnectionChange()` that copies it meanwhile (`src/gateway.cpp:928`) tells it of changes of the connection that is up, in place of the one in charge, possibly after the call has failed and returned. |
| no `subscribe()` has restarted the notification worker | `CleanupReturnsUnlessMissed`, `CallsReturn`, `DestructionEnds` | a `subscribe()` between the stop flag and the join starts a new worker (`src/gateway.cpp:311`), which the cleanup joins for ever. |
| the first connection | `RegisteredIsServed` of `Subscriptions` | the event list outlives the connection: after a reconnection `subscribe()` finds the old subscribers (`src/gateway.cpp:677`), logs "already subscribed" and succeeds without asking the new server. |
| `Findable`: the module is in lower case | `SubscriptionsAgree`, `EventsDispatched` | `isAnySubscriber()` (`src/gateway.cpp:472`) lower-cases the name it looks for and not those it compares with: subscribers to `Module.event` do not find each other, and find those of `module.event`. |
| `Undisturbed`: no refused `connect()` | the same | `legacyRPCv1` (`src/gateway.cpp:554`) is assigned before the transport refuses and is not put back: legacy events are dropped. |
| the helper's mutex | the same | two threads that use `IGateway` directly: a `subscribe()` relies on the request of another caller that fails or leaves. |
| fewer identifiers drawn than there are, while a legacy subscription lasts | `ReachesItsOwner` | after 2^32 identifiers the reply to a request that has drawn the identifier of a subscription goes to the event's callback. |
| the IO thread is not about to report the end of the connection | `HandleIsOpen` | a connection that is torn down is known as `Connected` until its handler has stored the status (`src/transport.cpp:466`): `send()` passes its check and gets its error from websocketpp (`src/transport.cpp:387`). |
| `OneOwner` | run `calls` | run `calls_connect`. |
| the destructor finds `connectionStarted` set | `CleanDestruction` | the IO thread's cleanup has cleared it: the destructor does not disconnect (`src/gateway.cpp:530`), and `Client`, `Server` and `cleanup_mtx` go before the threads that use them. |
| a `/` in the query, alone or in a `://`, comes after one in the path (`UrlsAssumption`) | `BuiltFromItsParts`, `LogsPlaceOnly` | it is taken for a path and the URL gets none (`src/utils.cpp:27`). |

A response is matched by what `get<uint32_t>()` makes of its `id`
(`src/gateway.cpp:204`): a negative or too large number is truncated and `true` is
1, so that such a message answers whoever waits under that identifier. Only the
lookup of legacy events insists on an unsigned integer. `ReachesItsOwner` allows
it, since the message belongs to nobody.

Four overlaps the models reach are not stated as properties, since nothing
keeps them away: a thread in `send()` while another one's `disconnect()`
replaces the client object (`src/transport.cpp:349`, `:389`); `connect()`
assigning the receivers while the IO thread is still in the one of the
connection that ended (`src/transport.cpp:213`); a callback that the
notification worker begins after `unsubscribe()` has returned, when its lock of
the `weak_ptr` (`src/helpers_impl.h:118`) came before the erase, though
`CHANGELOG.md:33` says that stale callbacks are dropped (what holds is
`CallbackDataAlive`: it has its data); and a line logged under the new
switch and the old level between the two stores of `connect()`
(`src/logger.cpp:338`).

### Fairness

Threads that can run do (WF on their steps); the clock advances; the watchdog
runs its cycle; websocketpp's timers end every attempt and every close
handshake. Nobody has to call, the server never has to answer, a connection
never has to end or to open, and no spurious wake-up is assumed. Strong
fairness stands for a mutex that is not kept from one waiting thread for ever:
for a push against a worker that wakes up spuriously again and again, for the
two cleanups at `cleanup_mtx`, and for a callback that waits for
`HelperImpl::mutex_`. `Client`'s liveness assumes that a watchdog is running;
`gateway_timeout` shows when it is not.

## Proofs

TLC checks small instances; the theorems hold for every value of the constants.
Each proof module defines an inductive invariant `IInv`, a conjunction of named
parts; TLC checked each of these on small instances before it was proved. A
lemma per part, or per action, shows that a step preserves it, and the theorems
follow from `Invariance`. The routing has a second invariant on top of the
first, `EInv` with `EventInvariance`; the logger's are called `LInv` and
`LoggerInvariance`, that of the URLs `UrlInv`.

| Module | Assumes | Theorems |
|---|---|---|
| `ClientProofs` | finitely many requests, fewer than identifiers | `TypeCorrect`; `NoDoubleFulfil`, `NoDroppedCaller`, `NobodyStranded`; `Refinement`: `Spec => Contract` |
| `QueueWorkerProofs` | - | `TypeCorrect`, `InOrder` (`Fifo`), `PushWakes` (`PushNeverMissed`) |
| `TransportProofs` | - | `WorkerRefinement`: `Spec => W!Spec`; `TypeCorrect`, `NoneRefused`, `Drained`, `Agreement`, `EndIsTold`, `MessagesInOrder` |
| `GatewayLifetimeProofs` | - | `TransportRefinement`: `LifeSpec => T!Spec`; `TypeCorrect`, `WatchdogJoined`, `CleanEnd`, `FailedNotPicked` (`FailedListenerDropped`), `LossAnswers` |
| `TransportCallsProofs` | `OneOwner` | `HandleOpen`, `AssignedBetween` |
| `SubscriptionsProofs` | - | `RegisteredServed`, `DataAlive` (`CallbackDataAlive`) |
| `RoutingProofs` | `MaxIds <= IdSpace` | `Reaches`; `Agreement` (`SubscriptionsAgree`), `Dispatch` (`EventsDispatched`) |
| `UtilityProofs` | a buffer of at least one byte; parts of URLs that are delimited (`WellFormed`) | `StaysInBuffer`, `TruncatesOnlyAtTheEnd`, `TypeCorrect` of the log line; `CurrentPath` (`PathIsCurrent`), `LineOut` (`EveryLineOut`), `Logged` (`PermittedIsLogged`); `Built` (`BuiltFromItsParts`), `LoggedPlace` (`LogsPlaceOnly`) |

The bounds (`MaxItems`, `MaxConnects`, ...) are assumed to be natural numbers and
nothing else. Two modules have a hypothesis, which the code does not enforce:
`OneOwner`, that one thread at a time calls `connect()` and `disconnect()` (the
changelog promises more; `calls_connect` shows what happens then), and
`MaxIds <= IdSpace`, that no more than 2^32 requests were made, so that no
identifier was used twice.

Three assumptions are about the names the constants stand for. `EventsAssumption`
and `PathsAssumption` say that no event, and no path, is spelled like the marks
the models use for a missing or malformed method and for an unset or invalid
variable, so that the marks mean what they say. `UrlsAssumption` is what makes a
sequence of tokens a URL: each part has its delimiter, and the delimiter that
ends a part is not inside it. It says two things more, which the code relies on:
a user comes with a scheme, and a `/` in the query, alone or in a `://`, comes after one in the path
(the table above says what happens otherwise). Parts may be of any length and
hold each other's delimiters wherever that leaves them the parts they are.

**Requests.** None of the invariants is inductive. `IInv` says where a caller is:
in the table, in the watchdog's vector, in the cleanup's map, in the worker's
hand or owned by the failing `request()` - at most one of these, only while its
promise is unset (`PlaceInv`), and at least one as long as it has no answer
(`HeldInv`). Both need the slot of a caller to be its own (`SlotsInv`), which
holds since `id_counter` equals the number of identifiers drawn and so has not
wrapped (`IdsInv`, by cardinality). `LocalsInv` is what the refinement needs of
the locals: the message in hand has the identifier of the caller in hand, the
watchdog holds overdue callers only.

**Worker, transport, gateway.** `HandoverInv` of the worker says that the queue a
dozing worker found empty is still empty (a push needs the mutex), which is why
a push cannot be missed; nothing of the kind holds for the stop flag, which is
what `StopMissed` stands for. The transport runs this worker: every one of its
steps is a step of `QueueWorker` or leaves its variables alone, so that the
worker's invariant, and `Fifo`, hold of the transport. In the same way the gateway
inherits the transport's invariant. What the transport adds is the order of
`disconnect()` (`SessionInv`: the IO thread is joined before the stop flag is
set, so nobody pushes while the worker drains), how the status follows the
connection with the delay of a handler (`AgreeInv`), and that a `disconnect()`
which closes, instead of stopping by force, waits for the handler (`ToldInv`).
What the gateway adds is who is cleaning up and how far (`CleanerInv`), that a
watchdog exists only while `watchdogRunning` is set or a cleanup is about to join
it, and never without `connectionStarted`, by which the destructor goes
(`WatchdogInv`), that failed listeners are neither installed nor about to come
back (`ListenerInv`), where the transport is during each call (`CallInv`), that
the IO thread's cleanup leaves nothing pending until it has told the application
(`PendingInv`), who stops the notification worker (`NotesInv`), and how far the destructor is (`ObjectInv`).

**Concurrent callers.** With one owner, what a thread in `connect()` or
`disconnect()` has read of `connectionStatus_` stays true until it acts upon it,
except for what the IO thread does to it (`StageInv`); every connection but the
last has ended and the status follows the last (`LastInv`). That is all `send()`
needs of the handle, up to the moment in which the IO thread knows of an end and
has not stored it.

**Subscriptions.** `HelperImpl::mutex_` puts the calls in an order (`CallInv`). On
the first connection the server emits the event whenever somebody other than the
call in progress is registered (`ServedInv`), because the request of a
subscriber that is being tried is the last one on the wire, and those of calls
that gave up are in front of it (`WireInv`). `DataInv` follows the two owners of a
`SubscriptionData`, the helper's map and the worker's locked pointer: it is gone
when both are.

**Routing.** Wire, server, inbox, table and event map know a request by its
identifier only. `OwnerInv` says that some assignment of identifiers to callers
agrees with all of them; it is a bound variable of the invariant and not part of
the state, since the code forgets who drew an identifier as soon as the call
returns. A step that draws an identifier extends the assignment at one that was
never used, every other step leaves it alone. A legacy event has the identifier
of a listen request, so it could answer that request's own future: `OrderInv`
says that the acknowledgement comes first, as the server sends it first and
messages are handled in order, and has taken the caller out of the table.
`TakenInv` relates the decision in the worker's hand to its message.

That the event list, the event map and the server agree between calls is not
inductive, since every call takes them through states in which they do not.
`CallInv` says that the helper's mutex leaves at most one call in progress, and
`TablesInv`, for each event whose module is in lower case and while no refused
`connect()` has disturbed the protocol, what the call in progress has done so
far. An event with no call in progress is settled: either it has no subscriber
and no entry in the event map, or no request about it is on the wire and the
server emits it under one identifier, which in the legacy protocol is its only
entry in the event map and that of every such event received. The listen
request of the call in progress is still on the wire, behind all others for its
event, or was rejected, or was accepted; in the last case the events that carry
another identifier (of a subscription that ended without the server hearing of
it) are in front of the acknowledgement, and gone when it is taken. `Stage` says
which of these holds at each place of a call; a call that ends, with success or
without, leaves its event settled. `EventsDispatched` follows: an event that is
taken while it has a subscriber, and none is being added or removed, carries the
identifier the map has.

**Log line.** The three invariants together are inductive: that the length is that
of the longest prefix is what keeps the next write, and the subtraction in it,
inside the buffer.

**Logger.** The properties compare a line with what was configured at some time
during the call (`seen`), while `connect()` stores the switch and the level one
after the other. `LevelInv` says which of the two is new: between the stores the
switch is that of the `connect()` in progress and the level still that of the one
before. `CacheInv` says that the path a thread has cached is the answer for the
value it was resolved from, and stays so, as directories may be created but do not go away.
`OutInv` says what the line has put where at each point of `log()`: nothing whole
before its last write, so that the fallback never repeats it.

**URLs.** Nothing is proved by induction over the text. A lemma for each search
says where it ends in a URL put together from its parts: the first token of a
kind exists because the positions are well-founded, and is the part's delimiter
because the parts in front of it hold none. From these follow what
`buildGatewayUrl()` returns, that it is again a URL with the same place, and that
cutting the user, the query and the fragment of such a URL leaves scheme, host
and path.

Only model-checked: all liveness (`EveryRequestAnswered`, `StopReturns`,
`ItemsHandled`, `AttemptDecided`, `DisconnectReturnsUnlessMissed`, `CallsReturn`,
`DestructionEnds`, `LeavingReturns`, `CleanupReturnsUnlessMissed`), since
fairness is out of the prover's reach, and the three counterexamples.

## Abstractions

- Messages carry an identifier and a kind; payloads, methods and error codes are
  left out. An answer with a malformed error object is of the kind "error".
- The notification worker of `Gateway` has nothing to work off: what its
  callbacks do, and that a cleanup releases those that wait for an answer, is in
  `Subscriptions`.
- In `Transport` and `Gateway` one application thread calls `connect` and
  `disconnect`; `TransportCalls` has several, with coarser steps.
- `onFail` and `onClose` are one action in `Transport`: they change the state in
  the same way and differ in the error they report.
- Identifiers do not wrap in `Client` (2^32 in the code); in `Routing` the last one
  does, and none is used twice.
- A data race on a receiver, and the use of a destroyed object, are stated as
  the overlap of the two uses, not by what the build makes of them.
- `Routing` keeps the connection up; losses are in `Subscriptions`. A request is
  entered in the table and sent in one step there, since `Client` has the races
  in between. The unwrapping of a parameter named `value` in `notify` is left
  out with all payloads.
- Reading an environment variable is one step, and the level's variable does not
  change while `connect()` runs: the README warns against doing that. The order
  in which `unsubscribeAll()` goes through its subscriptions is left open.
- `Url`: a user part comes with a scheme, as the redaction assumes.
  `BuiltFromItsParts` says nothing of fragments, which websocket URLs do not have.
- `Logger` keeps what the current line has put where, not whole files.

## Not modelled

1. `~HelperImpl()`: the loop of `unsubscribeAll()` over everything and without
   the mutex. The helper is a static object, so it runs at the end of the
   process, when no other thread may use it.
2. The suppression of repeated connection notices in `onConnectionChange` and
   `setFormat()`: they decide what a log line says, and nothing depends on it.
3. The vendored asio endpoint: third-party code, seen from outside by the IO
   thread of `Transport`.

Left out for good: the typed helper templates and JSON types (conversions
without state), tests, build files, presentations.
