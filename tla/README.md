# Specifications of the OpenRTMP server

TLA+ specifications of the RTMP server in `src/`: the command protocol and the
stream registry, the connections of the server, its start and stop, the network
event loops, handshake, chunk parser, message assembler and AMF codec, the media
pipeline, and the services around the server, from connection pool and shutdown to
configuration, access control, logs and metrics. TLC checks them on small instances;
TLAPS proves most of their safety properties for every instance. `PROJECT.json` maps every definition to the
lines it models and lists runs, mutants, findings, hazards and theorems.

## The system and its parts

A client connects over TCP. `pal::DarwinNetworkPAL` (kqueue) owns the sockets: an
operation is queued with `asyncAccept`, `asyncRead` or `asyncWrite`, installed at
the end of a turn of the event loop, and its callback runs on the event-loop
thread when the socket is ready. `api::RTMPServer` is made of these callbacks. It
keeps a `ConnectionContext` per client, runs the handshake with
`protocol::HandshakeHandler`, feeds what follows to `protocol::ChunkParser`, and
gives commands to `protocol::CommandHandler`, which works on a `SessionContext`
and on the shared `streaming::StreamRegistry`. Audio and video of a publisher are
relayed to the connections the registry lists as subscribers. The program that
embeds the server calls `initialize`, `start`, `stop` and `forceStop` from its
own threads, and gets events on a callback.

| part | state | operations | what is hard | what makes it correct |
|---|---|---|---|---|
| StreamRegistry | streams by key, index by id, id counter, stack of released ids | allocate, release, register, unregister, subscribe, clear | ids reused, ids that wrap | index sound, ids unique |
| CommandHandler | session: state, application, stream id, stream key | connect, createStream, publish, play, deleteStream, closeStream | any order of commands of several clients | one publisher per key, stages not skipped |
| RTMPServer, connections | contexts, outstanding callbacks, counters, cached stream data | accept, handshake, read a batch, command, media, close, change of the limit | a batch goes on after a close; context and session disagree; clean-up on disconnect | counters exact, limit honoured, registry backed by connections, nobody forgotten |
| RTMPServer, start and stop | `state_`, `mutex_`, `callbackMutex_`, event-loop thread | initialize, start, stop, forceStop, callbacks | locks released inside a call, join, early clients, callbacks that call back | calls return, stopped is clean, running accepts |
| DarwinNetworkPAL | slots of a socket, queue of operations | the event loop's turn, accept, read, write, close | descriptors reused inside a turn, one write slot | bytes reach the right peer whole; what arrives is read |
| HandshakeHandler | packet expected | C0, C1, C2 | TCP cuts anywhere, data behind C2 | only an echo of S1 completes, data intact, it ends |
| HandshakeHandlerWithTimeout, timer PAL | base state, timer, flag | data, expiry, cancellation, destruction | two threads without a lock | one outcome, and always one |
| ChunkParser | per chunk stream: last header, partial payload; chunk size; pending chunk | parse, Set Chunk Size, Abort | chunks interleave, reads cut headers, deltas, wrap-around | every message out once, whole, with its timestamp |
| GOPBuffer | frames, bytes, position of the last keyframe, headers | push, setConfig, clear, reset, copy from the last keyframe | eviction moves the keyframe, limits change | a newcomer can start: the last group whole, or nothing |
| SubscriberBuffer | frames, bytes, statistics | push, pop, setConfig, clear, reset | frames dropped from the middle at the limit | bounded, continuity kept, every drop counted and caused by an overflow |
| MediaDistribution, SubscriberManager | caches by stream, subscribers and their index | addSubscriber, removeSubscriber, distribute, onStreamEnd | joins, distributions and ends interleave between the locks | frames in order and complete from a keyframe; the end reaches everyone |
| MessageAssembler, AMFCodec | partial messages by chunk stream; reference table, depth | chunk, abort; encode, decode | interleaving, lengths that wrap, truncated input | messages whole; what was encoded is decoded |
| MediaHandler | last timestamp per track, callbacks | audio, video, data | short messages, two header forms, 32-bit time | codec data and gaps judged right |
| Session, PublisherLifecycle | session state; active publication, its subscribers, last frame | transitions; start, stop, disconnect, frame | lock given up between snapshot and clearing | changes told as a chain; the end reaches who joined |
| LatencyOptimizer, ThroughputOptimizer | samples, entries in flight, windows, cooldown | record, forward, query | values read before the lock they are used under | statistics are those of the samples |
| ConnectionPool, PublisherLimit | entries, free list, slots, watermark flags | acquire, release, limits, clear | the watermark is told outside the lock | never over the limit, one owner, counts agree |
| ServerLifecycle, ShutdownCoordinator | lifecycle state, components; phase, registrations, grace timer | initialize, start, shutdown; initiate, force, unregister | states tested and stored in separate steps, joins | phases advance, calls return |
| ErrorIsolation | components, restart threads, breaker | report a crash or failure, restart | the lock is given up for a join | restarts end; no report ends the process |
| AuthService, ExternalAuthCallback, AccessControl | keys, attempts, cache, breaker, rules, blocks | authenticate, add and remove, record | window limits, racing callers, prefix order | a revoked key is refused, blocks bite, a breaker opens for a reason |
| StructuredLogger, LogRotation | sinks, file, backups | write, rotate | a step of the rotation fails | no line lost or out of order without a fault |
| MetricsCollector | atomic counters, histogram | open, close, sample, reset | read and change in two steps | counts exact, percentiles ordered |
| ConfigManager | configuration, callbacks, flags | load, update, reload | copy, check and store in separate sections | what was checked stays valid; changes told once |
| TLSService | contexts, connections, pins | initialize, create, verify, shutdown | handles outlive the tables | a handle never names a stranger |
| LinuxNetworkPAL | queue, slots, epoll registrations | the turn of the loop | edge-triggered events are reported once | no edge is lost to who waits for it |
| timer and thread PALs, network monitor | tables of handles, queues; network and address | schedule, cancel; submit, join; report, rebind | expiry, destruction and callbacks race | done once, done in the end; state belongs together |
| other parts | platform handles | platform calls | | see "Not modelled" |

The classes of the media pipeline (a library beside the server) and most core
services are not on the path of a connection of `RTMPServer`: it relays media
itself and creates the pool, the coordinator and the auth service without asking
them about a client.

## Modules

| module | models | composed with |
|---|---|---|
| `StreamRegistry` | `StreamRegistry`: operators over its four variables | |
| `CommandHandler` | `CommandHandler`: one action per command | extends `StreamRegistry` |
| `StreamDirectory` | abstract: who owns a stream key | implemented by `CommandHandler` |
| `RTMPServer` | the callbacks of `RTMPServer` between accept and close | extends `CommandHandler` |
| `ServerControl` | `start`, `stop`, `forceStop` and the event-loop thread | |
| `NetworkPAL` | `DarwinNetworkPAL`'s event loop | |
| `Handshake` | `HandshakeHandler` behind the server's read buffer | |
| `HandshakeTimeout` | `HandshakeHandlerWithTimeout` and the Linux timer thread | |
| `ChunkParser` | `ChunkParser` behind the read buffer | |
| `GOPBuffer` | `GOPBuffer`: operators on the record of its members | |
| `MediaBuffers` | `SubscriberBuffer`, likewise, and both buffers under any sequence of calls | extends `GOPBuffer` |
| `MediaDistribution` | `MediaDistribution` and `SubscriberManager`, a publisher's and the subscribers' threads | extends `GOPBuffer` |
| `MessageAssembler`, `AMFCodec` | the classes of these names | |
| `MediaHandler`, `PublisherLifecycle`, `Session` | likewise | |
| `Optimizers` | `LatencyOptimizer` and `ThroughputOptimizer` | |
| `ResourceLimits` | `ConnectionPool` and `PublisherLimit` | |
| `ServerLifecycle`, `ShutdownCoordinator`, `ErrorIsolation` | likewise | |
| `AuthService`, `ExternalAuth`, `AccessControl`, `TLSService`, `MetricsCollector` | likewise (`ExternalAuth`: `ExternalAuthCallback`) | |
| `StructuredLogger` | `LogRotation`, the files and backups of a rotating sink, as operators; the logger and its sinks under threads | |
| `ConfigManager` | load, update, reload and change events | |
| `ConfigText` | the JSON and YAML parsers | |
| `LinuxNetworkPAL` | the epoll event loop | |
| `TimerPAL` | the timers of the Linux, Darwin and Windows PALs | |
| `ThreadPAL` | their thread pools (`wp...`) and thread handles (`thr...`) | |
| `NetworkMonitor` | the Android network monitor and its rebinding | |
| `MCProtocol`, `MCMedia`, `MCSupervision`, `MCServices` | instances of all components of an area | extend the components |
| `CommandHandlerProofs`, `ServerControlProofs`, `NetworkPALProofs` | theorems about the component | extend it |
| `RTMPServerProofs` | theorems about `RTMPServer` | extends it and `CommandHandlerProofs` |
| `SupervisionProofs`, `ServicesProofs`, `MediaProofs` | theorems about the components of `MCSupervision`, `MCServices` and `MCMedia` | extend them |
| `MessageAssemblerProofs` | theorem about `MessageAssembler` | extends it |

The four `MC` modules explore many components in one run. These components share no state
and do not call one another, so their interleavings show nothing: the variable
`focus` is chosen at the start, a behaviour has the steps of that component only, and
the state space is the sum of the components'. A property of such a run is the
conjunction of what its components promise (`focus = "pool" => PoolConsistent /\ ...`);
the parts are defined and explained in the component's module. `CommandHandler`,
`RTMPServer`, `ServerControl`, `NetworkPAL`, `Handshake` and `LinuxNetworkPAL` are
checked directly, with a configuration of their own.

How the models correspond to the code:

* **StreamRegistry, CommandHandler.** The maps are functions with a sentinel for a
  missing entry. Each registry operation holds its mutex throughout, so it is one
  operator; a command runs on the event-loop thread and is one action. The
  disjuncts of an action are the early returns of the handler. Answers are
  reduced to success, failure and none.
* **RTMPServer.** `ctx` is the context, `armed` the callback outstanding on the
  connection's socket, `busy` the connection whose read is being worked off. The
  messages of one read are separate steps between `handleRead` and
  `startReading`, in which no other callback runs. `processCommandMessage`
  is a step of `CommandHandler` together with the server's reaction to the
  session it finds afterwards. `streamData` and `delivered` record whose data is
  cached and sent, not the data. `restart` is a stop and a start, `updateConfig` the
  connection limit set at run time. A context is gone when its connection is closed
  and no callback holds it. Handshake bytes,
  sockets and the steps of a stop are in their own modules.
* **ServerControl.** A step of a thread reaches from one lock, unlock, join or
  shared write to the next. `failure` records that the thread library was misused.
  The destructor, which stops without taking the lock, is left out: a program that
  destroys the server while other threads use it has lost already.
* **NetworkPAL.** `phase` separates the handling of events from the installation
  of queued operations. Connections have an identity of their own so that a
  descriptor that is reused can be told from its first owner. The callbacks are
  those of `RTMPServer` reduced to the operations they issue.
* **Handshake.** A byte is its position in the client's stream, so "the wrong bytes"
  can be seen. 1536 is the constant `P`.
* **HandshakeTimeout.** The code between two accesses another thread can see is a
  step.
* **ChunkParser.** The stream is a sequence of cells: basic header, message header,
  extended timestamp, payload byte. The client of the model keeps the list of
  messages it completed; that list is the reference the parser is compared with.
* **GOPBuffer, SubscriberBuffer** (the second in `MediaBuffers`)**.** Each method holds its object's mutex throughout,
  so it is an operator from buffer to buffer. A frame is its kind, its timestamp,
  its size and, for the properties, its number. `MediaBuffers` feeds both buffers
  with the same frames and lets every other method come in between.
* **MediaDistribution.** A step reaches from one lock to the next. The loops over
  subscribers and cached frames run on snapshots (`pub.todo`, `join[s].todo`). A
  stream key has several publications; the program lists a stream before or after it
  sets its cache and unlists it before or after it ends it. A subscriber's thread
  makes one call at a time. `given` keeps what is pushed to a subscriber's buffer;
  what the buffer makes of it is in `MediaBuffers`. Callbacks of the program, the
  warning about slow subscribers and the statistics are left out.
* **MessageAssembler, AMFCodec.** A payload byte is the message it belongs to. An AMF
  value is encoded to a sequence of cells (marker, count, name, end marker) and decoded
  from any such sequence; lengths have `LengthWrap` values, nesting stops at `MaxDepth`,
  the groups of a U29 have `GroupBits` bits.
* **MediaHandler.** A payload is its format, packet type, length class and first NAL unit.
* **Services with locks** (pool, slots, lifecycle, shutdown, isolation, external auth,
  access control, optimisers, metrics, configuration, publisher lifecycle). A step
  reaches from one lock or atomic access to the next; a thread's `pc` record keeps what
  it has read. A callback of the program is a step at the place of its call.
* **ExternalAuth.** The HTTP exchange is a choice between an answer, a refusal, an
  error and a timeout. `statsHolder` is who holds `statsMutex_`, so that a thread that
  takes it twice is seen to wait for itself.
* **LogRotation, StructuredLogger** (one module)**.** A file is the sequence of its lines; a rotation is
  the chain of renames in the order of the code, each of which may fail. A message goes
  to one sink per step under `sinksMutex_` (`entry` is the place in the list); a forced
  rotation takes the file's mutex only and may come between two sinks.
* **ConfigManager, ConfigText.** One parameter for each way a parameter is treated
  (needs a restart or not, checked against a range, compared with another, told to
  listeners). The parsers read tokens, and lines with an indent.
* **TLSService.** Contexts, connections and pins by handle; the library's handshake and
  records are opaque.
* **LinuxNetworkPAL.** One listening socket and one client; registration with epoll is
  a set of interests, and an edge is lost once reported to a socket not interested.
* **TimerPAL, ThreadPAL.** `tmPlatform`, `wpPlatform`, `thrPlatform` choose
  the platform: an own thread with epoll or a condition variable (Linux), dispatch
  queues (Darwin), timer queue and threadpool (Windows).

## Runs

Each component has one passing run in which clients, threads and the network do
whatever the code lets them do. Much of what one would like to say of this code
holds only of well-behaved surroundings. Such surroundings are not built into a
model: a **history variable** records what has happened so far, no guard reads it,
and a property that needs a condition is an implication from the history.

| module | history | records |
|---|---|---|
| `RTMPServer` | `habit` | the worst the clients have done: `orderly` (application `live`, publish or play once and last), `decodable` (any commands that decode), `any` |
| `NetworkPAL` | `breach` | a write issued while another was outstanding; a connection closed with a write queued |
| `ServerControl` | `used` | a client before Running, a stop before the loop's first turn, a `forceStop` during a `stop`, a callback that calls the API |
| `Handshake` | `cut` | a read ended inside C1 or C2 |
| `HandshakeTimeout` | `overlap`, `fedLate` | timeout callback beside `processData`; data passed on after a timeout |
| `MediaBuffers` | `tail`, `whole`, `owed`, `popped` | the group on the air and whether it fitted all the time; what may not be dropped; what left the queue |
| `MessageAssembler` | `sent`, `whole` | bytes sent of each message in progress; messages sent to their end |
| `MediaDistribution` | `home`, `told`, `strained` | where a subscriber joined; who heard of the end; a join that overlapped a distribution or an end, or found the former publication's cache |
| `ChunkParser` | `strained` | a read ended between a delta header and its payload; a message began with a type 3 header that stands for a new time |
| `ServerLifecycle` | `lifeRaced`, `lifeRestarted` | two calls overlapped; a stopped server was started again |
| `ShutdownCoordinator` | `shutRaced`, `shutMissed` | a stop of the grace timer, or a store of the state, overlapped another; the last stream has ended and nobody was told yet |
| `ErrorIsolation` | `isoOverlap` | two reports of one component overlapped |
| `ThreadPAL` | `wpRaced`, `thrMisused` | a submit under way as the pool is destroyed; calls for a handle that overlapped where the PAL has no guard |
| `TimerPAL` | `tmLost`, `tmLate` | expirations read before the timer was listed; callbacks begun after the cancel had returned |
| `ConfigManager` | `overlapped`, `unchecked` | two updates at once; a load failed after it began to write, or the environment overrode what was validated |
| `Session` | `recompleted`, `moved` | the handshake completed while a stream was active; sessions moved from |
| `MetricsCollector` | `resets` | the counters were reset |
| `StructuredLogger` | `faults` (of the sink) | steps of a rotation that failed, two rotations in a second |
| `NetworkMonitor` | `nmSince` | what the system has reported since the last rebind |
| `ExternalAuth`, `AuthService`, `AccessControl` | `served`; `admitted`, `revoked`; `passed` | requests and answers; keys let in and withdrawn; attempts let through |
| `LinuxNetworkPAL` | `lnStuck` | a callback closed a socket under the lock it needs |

| run | question | answer |
|---|---|---|
| `commands` | registry and sessions under any commands | index sound, stages kept, one publisher per key, ids unique; `StreamDirectory` is implemented |
| `server` | connections, counters, registry and relay under endless churn and a changing limit | always: nobody forgotten; commands decode: connections counted, limit exact; orderly: streams counted, backed, kept and relayed by their publisher |
| `stale_close` | does a disconnect leave other publishers alone? | violated: a former publisher's disconnect ends a stranger's stream |
| `pal` | does every byte reach its reader or peer? | reads always isolated and served; writes isolated, whole and not lost without a breach |
| `write_slot` | is every write kept until it is written? | violated: a second write replaces the first |
| `control` | start, stop and forceStop on two threads | `ThreadsSafe`: locks held as assumed on every path, threads joined once. `RunningOrClean`: a running server accepts, a stopped one is clean. `CallsReturn`. Each under its condition |
| `handshake_cut` | does an echo always establish? | violated: a packet cut by TCP is lost |
| `linux_write` | is every write answered while the client takes what it is sent? | violated: a read asked for after a write takes its interest in EPOLLOUT away |
| `protocol` | four chunk formats, two chunk streams, chunk size, abort, wrap-around, reads that end anywhere; pieces of interleaved messages; AMF values | `InputParsed`: messages whole, once, in order, none held back, timestamps right if not strained; a value encoded within the limits decodes to itself. `Reassembled`: the assembled messages are those sent, each of its own bytes |
| `media` | joins, leaves, distributions and ends of two publications, lock by lock; both buffers under any calls; messages of any length; samples on two threads | `FeedWhole`: an undisturbed subscriber gets its own publication, complete, in order, from a keyframe, and the end. `CacheSound`, `QueueSound`: the last group is offered whole if it fits, limits kept as far as the policy allows. `NothingLostSilently`: nothing dropped without need or account. `MediaHandled`, `RatesMeasured`: gaps, codec data and statistics are those of what came |
| `supervision` | what waits: handshakes, shutdown, restarts, breaker, pools, threads, timers | `HandshakeExact`: only an echo completes, data behind C2 intact, one outcome. `FailuresContained`: crash reports, breaker and grace timer do what they should. `DoneOnce`: items, joins and callbacks once. `ShutdownForward`: phases only advance. `CallsEnd`, `BegunIsFinished`: calls return, what was begun ends |
| `services` | the other services, two threads where the code expects several | `ResourcesAccounted`, `LifecycleConsistent`, `AccessLimited`, `UpdatesAgree`, `LogLinesKept`, `HandlesNotReused`, `PublishersTracked`, `PlatformStateKept`: what each accounts for stays consistent. `ValuesExact`: rules, texts and percentiles are evaluated as they should be |

A type invariant of its own is listed for `commands` only, where it is proved. In the
other modules the types are part of a property that needs them (`ConnectionsCounted`,
`TransfersIsolated` and the `...Sound` parts).

`CHECK_DEADLOCK FALSE` is set where the system may stop: all clients gone for good,
all calls of the bounded threads made, every timer expired, the client silent. In
`commands` and `pal` there is always a next step, and it is checked.

### What the code needs of its surroundings

Every condition above is needed. Four have a violation run. The others were seen
with TLC by dropping the condition from the property; what happens is:

* **Foreign delete** (`command_handler.cpp`, `handleDeleteStream`). The id released
  is the command's argument, not the session's: an id in use is handed out again.
  `ForeignDelete = TRUE` shows two sessions with one id.
* **Second publish or play.** A session remembers its last stream only;
  `deleteStream` leaves the first registered with nobody to end it.
* **Undecodable commands in one read** (`rtmp_server.cpp`). The loop over the chunks
  goes on after the close; a second one closes the connection again and decrements
  `activeConnections_` twice.
* **Commands after a publish.** Each counts the stream again in `activeStreams_`.
* **Applications other than live.** `closeConnection` builds `live/name`, so their
  streams outlive their publishers.
* **Media after deleteStream.** `ConnectionContext.state` stays Publishing and the
  media goes to the subscribers of the name's next publisher.
* **The cache.** `streamDataMap_` is never emptied: a new subscriber may get headers
  of a former publisher. No condition makes it fresh.
* **Subscribers of a stream that ended** stay Subscribing and are told nothing.
* **A close with a write queued** (`darwin_network_pal.cpp`). The operation names the
  descriptor and may reach the next client that has it.
* **A client before Running.** `start` begins to accept and starts the event loop
  before it sets Running; `handleAccept` drops a client that comes in between and
  does not renew the accept, and the running server accepts nobody.
* **Stop before the loop's first turn.** `runEventLoop` resets `stopRequested_`, and
  the join waits for ever.
* **forceStop during stop.** Both join the event-loop thread.
* **A callback that asks for state().** `mutex_` is held while events are emitted.
* **A client accepted during a stop** is dropped without its socket being closed.
* **A silent client.** `RTMPServer` uses the handler without a timeout.
* **The timeout handler** (`handshake_handler.cpp`): expiry and completion may both be
  reported, data after a timeout is still taken, and a callback the timer thread has
  taken runs after the destructor.
* **A read that ends between a delta header and its payload** (`chunk_parser.cpp`). The
  header is parsed again with the next read and its delta applied twice.
* **Type 3 for a new message** (`chunk_parser.cpp`). Its delta is applied only with an
  extended timestamp.
* **A join that overlaps a distribution** (`media_distribution.cpp`). The entry in the
  tables and the copy of the cache are made under different locks: the frame in
  hand may come twice, or before the cached ones.
* **A join that overlaps the end.** EOF goes to one snapshot, the removal to another,
  the registry was asked before: the subscriber may be removed without EOF, or stay
  in the tables of a stream that is gone and get the next publication's frames.
* **A join before the new cache is set** gets the former publication's headers and
  frames; nothing removes an entry of `streamStates_`.
* **A group larger than the cache** (`gop_buffer.cpp`). With one keyframe the front is
  evicted, so the keyframe goes and newcomers get nothing until the next one.
* **Timestamps that wrap** make a short queue look long, and the inter frames in it are
  dropped; so do the cached headers, which are queued with timestamp 0 (the first is
  in `MediaBuffers`, the second is not modelled).
* **setOnFrameDroppedCallback** (`subscriber_manager.cpp`) takes its two locks in the
  other order than a push that drops a frame; callbacks are not modelled.
* **Long AMF names and truncated arrays** (`amf_codec.cpp`). A name longer than its
  length field wraps; a strict array that ends early is accepted with fewer elements.
* **A read after a write** (`linux_network_pal.cpp`) drops EPOLLOUT (`linux_write`), and a
  callback that closes a socket is run under `socketsMutex_`, which the close needs.
* **A timeout that trips the breaker** (`external_auth_callback.cpp:409`). The failure is
  recorded with `statsMutex_` held, and recording it takes the mutex again. Refusals
  whose reason contains "service" count as failures of the service.
* **Overlapping crash reports** (`error_isolation.cpp`). The second one joins the same
  restart thread, or assigns over one that can be joined: the process ends.
* **Overlapping stops of the grace timer** (`shutdown_coordinator.cpp`) join its thread
  twice; a `forceShutdown` beside the completion undoes Complete.
* **Overlapping lifecycle calls** (`server_lifecycle.cpp`) pass the same test; a start
  after a shutdown runs without the components the shutdown destroyed.
* **destroyThreadPool** (`linux_thread_pal.cpp:363`) notifies without the mutex: a worker
  between its test and its wait misses it and the join waits for ever.
* **A timer that expires before it is listed** (`linux_timer_pal.cpp:252`) never calls
  back. On Windows a callback may run after the cancel.
* **A rotation whose compression or open fails**, or two in one second with
  timestamped names, loses lines (`log_rotation.cpp`).
* **A subscriber added while a publication is stopped** (`publisher_lifecycle.cpp`) is
  dropped untold.
* **A second completeHandshake** (`session.cpp`) keeps the key of the stream that was active.
* **A load or reload that fails half way** (`config_manager.cpp`) leaves a configuration
  nobody checked; so do environment overrides, which come after the validation.
* **A reset of the metrics** beside a decrement wraps the count below zero.
* **A change of the network** reported by the system (`NetworkMonitor`) updates the type
  but not the address, and races the rebind.
* **Pins** (`tls_service.cpp`): `validateCertificatePin`, a placeholder, refuses every
  certificate once a pin is set, also in mode ReportOnly; the query is not modelled.

### Bounds

* Two connections: a publisher and the client that takes over the name, or a
  publisher and a subscriber. In `RTMPServer` an id that left no trace stands for a
  new connection (`NewId`), so the number of clients over time is not bounded; in
  `NetworkPAL` and `CommandHandler` an id is one connection. Symmetry over
  connections and names is used for invariants and action properties, not for
  liveness.
* `commands` has two names, to tell "the same stream" from "another", and ids up to
  `MaxStreamId` 4 with at most `MaxReleased` 2 on the stack, which a client could grow
  for ever. `server` has one name in two applications, which share their cache entry
  and their clean-up key.
* `CounterSpace` is the number of values of a counter; 3 lets it hold two and wrap
  below zero. `Limits` {1, 2} makes the limit bite and change under open connections.
* `MaxCalls` 3 on two threads is enough for start, stop and a start again,
  overlapping with another thread's. `MaxWrites` 3 covers two writes to one
  connection and one to its successor on the descriptor, `Parts` 2 a write cut once.
* In `Handshake` a packet has `P` = 6 bytes instead of 1536, cut at any of them.
* The parser's chunk sizes are 1 and 2 and messages have up to 2 bytes, so that a
  message takes none, one or two chunks; time has four values with the extended
  marker among them, so that deltas are extended and wrap.
* The buffers of `media` get 5 frames of four kinds with four timestamps, so that time wraps;
  the cache holds two keyframes or one group of pictures, and the queue 1 or 2 of the
  3 units the timestamps span. Eviction by size and by duration happens with no, one
  and several keyframes, and dropping by duration and by size.
* The distribution of `media` has one subscriber, who may join again and again: the threads of two
  subscribers share nothing that either writes, except the set of entries, in which
  each only touches its own. Two publications, because the hard cases lie between
  the end of one and the beginning of the next; three frames make a cache that
  overflows.
* Two threads everywhere: every race described above is one of two threads, or of a
  thread and a timer or worker. Both call any operation.
* `ConnectionPool` has three entries, one of them allocated ahead, so that it grows and
  fills; `PublisherLimit` has three slots for four publishers. Both cross the watermark
  in either direction.
* Addresses have two bytes of two bits, so that a prefix ends inside a byte, at its
  border, and is empty; one rule id is added and replaced.
* `CircuitThreshold` 3 with `MaxRequests` 3, `BreakerThreshold` 2, `RestartAttempts` 2,
  `AttemptLimit` and `MaxAttempts` 2: each limit is reached, and missed by one. The
  horizons of the clocks let a window, a block and a cooldown run out once.
* `StructuredLogger`: 2 lines of the size of a file by two threads, forced rotations up to 2,
  2 backups, 1 fault.
  `TLSService`: one shutdown and 3 handles. `Session`: 3 transitions of 2 sessions.
* `PublisherLifecycle`: timestamps wrap at 8, frames on both sides of the gap threshold
  and of the wrap; two publications.
* `MetricsCollector`: counters wrap at 8, 3 samples below, in and above two buckets.
* `ConfigText`: every JSON text of 5 tokens and every YAML text of 4 lines with indents
  0, 2, 4 and 5. `ConfigManager`: 3 updates, ports and counts of 8 and 16 values.
* `AMFCodec`: values nested to depth 2 with one level more refused; 4 lengths.
* Pools, timers and threads: 2 items, 2 threads, 2 timers that expire up to three times:
  on Windows two expirations may be with the threads of the pool and a third wait when
  the timer is cancelled.

### Fairness

* The event loop turns as long as it is not stopped (weak fairness), and kqueue
  reports a descriptor that stays ready in every turn, so a ready read or write is
  served in the end (strong fairness: another callback may close and reopen).
* In `ServerControl` threads that can run do run; the loop comes back to its test
  of `stopRequested_` after a bounded number of events (strong fairness of
  `loopEnd`); a thread waiting for `callbackMutex_` gets it (strong fairness of
  `emitEvent`; the standard's mutexes do not promise it, every platform the PAL
  supports provides it for a lock that is released again and again).
* `SupervisionFair`: a thread whose call can go on does (weak fairness of `GoOn` and
  `Call`), so do the grace timer, the restart thread and the event loop (`Serve`); armed
  timers expire. No strong fairness is needed there.
* `LinuxFair`: the loop turns, the kernel sends what it took, and a writable socket that
  is reported again and again is handled (strong fairness of `handleWritable`).
* Nothing is assumed of clients, except in the handshake of `supervision`, in
  `handshake_cut` and in `linux_write`, where the client does go on sending or taking:
  the question is what the server makes of it.

## Proofs

A theorem holds for every value of the constants: any number of connections, threads,
names, handles and calls, any sizes, limits and thresholds, not only those of a run.
What is assumed of the constants is the named `ASSUME` of each module, which TLC
evaluates in every run. They say what the code provides: a width is positive, a
sentinel is not a value, sets of threads and connections are finite, an empty string
is not the name of a stream.

A safety property `P` is proved as `Spec => []P` through an inductive invariant `I`:
it holds initially, every action keeps it, and it implies `P`. Each module has one lemma
for a step that changes one part only (the hard steps have their own), one that puts the
actions together, and the theorem. `SupervisionProofs` and `ServicesProofs` prove first
that a step of the run is, for each component, one of its own or none (`OneAtATime`,
`OneService`), and so does `MediaProofs` (`OneComponent`); each component then has an
invariant over its own variables.

### CommandHandlerProofs

* `Invariance`: `IInv == TypeOK /\ IndexSound /\ SessionWellFormed /\ PublisherOwnsStream`.
  Ownership is not inductive alone: that another session's `deleteStream` cannot
  empty my key needs that it is itself the publisher of the key it unregisters,
  and that the key of a publishing session is a key at all needs the stages
  (`SessionWellFormed`). The index needs the types of the records it points to.
  One lemma per registry operation says what it keeps (`DetachSound`,
  `RegisterSound`, `SubscribeSound`, `AllocateType`).
* `TypesKept`, `Ownership`, `IndexIsSound`, `Stages`: its parts.
* `Refinement`: `Spec => ImplementsDirectory`. `AcquireRefines` and
  `ReleaseRefines` map the two kinds of step, `CommandRefines` each command.
* `StreamIdsUnique`: ids are unique provided `~ForeignDelete` and
  `MaxStreamId < IdSpace - 1`, from the invariant `IdInv`: all ids in circulation
  are below the counter, and none occurs twice on the stack. Both conditions are
  necessary (see above for the first; past the wrap-around the allocator does not
  know which ids are in use). The other theorems hold without them.

### RTMPServerProofs

`ServerInv` is a chain in the order of the history `habit`: each part needs the ones
before it, and less of the clients than the ones after it.

* Whatever is sent: the types, the core of `IInv` (ownership is not part of it: a
  disconnect may take a stranger's stream with it, see `stale_close`), and `ContextInv`: an
  open socket has a callback outstanding or is being worked off, and a session is fresh
  until its handshake is complete. `NoneForgotten` follows.
* If commands decode: `CountInv`, a context is in use exactly while its connection is
  open, and the counter is their number. `ConnectionsAreCounted`; and `LimitHonoured`, an
  action property, since the counter is what `handleAccept` compares with the limit.
* If clients are orderly: `AgreeInv` (context and session agree), `RegisteredInv` (the
  registry has the streams of the publishing connections and no others, each with its
  players) and `RelayInv`. From these `StreamsAreAccounted` and `StreamsAreOwned`.

### ServerControlProofs

`ControlInv`: `LockDiscipline`, who holds `mutex_` at which step; `HandleInv`, the paths
of `stop` without the lock are never `forceStop`'s; `StartInv`, what holds of a start-up
whichever calls overlap; and, unless `forceStop` overlapped a stop, `StopInv`, only one
thread stops and the thread it joins is joinable. `ThreadsAreSafe` and `NeverHalfUp`
follow. That no two threads stop at once cannot be had without the states they leave in
`state_` while the lock is given up, hence the last parts of `StopInv`.

### NetworkPALProofs

* `TransfersAreIsolated` from `PalInv`. That a read callback gets its own bytes is not
  inductive: a read queued for a closed socket is installed on the socket of its
  successor. `ReadInv` says why this does no harm: the successor's own read is behind it
  in the queue and replaces it before events are handled. `WriteInv` needs that no
  connection was closed with a write queued, as nothing replaces a write.
* `NoWriteIsLost` from `SlotInv`: without a breach one buffer per connection is
  outstanding, in the queue or in the slot, and the wire ends where the slot goes on.

### SupervisionProofs

* `HandshakesAreExact`. `HandshakeInv`: between reads the position is that of the next
  byte; `PacketSound` says it of each packet `processData` takes. `TimeoutInv`: who has
  read the state is remembered until it is told.
* `ShutdownGoesForward`, an action property: phases are numbered, and `ShutInv` says that a
  `forceShutdown` under way finds the shutdown not complete unless calls overlapped.
* `FailuresAreContained`. `IsoInv`: at most one report is under way and has a thread to join
  before it joins; the closed breaker's count is that of the failures since the last
  success. `ExtInv` counts: the failures recorded and those that threads are about to
  record are no more than the answers account for.
* `EachIsDoneOnce`. `WorkInv`: an item is with one submitter, at one place of the queue, with
  one worker, or run (`ItemsApart`), and never nowhere (`ItemsKept`). `ThreadsInv`: what the
  flags of a handle and the call in progress say of the releases so far, per platform.
  `TimersInv`: an expiration of a one-shot timer is to come, waits, is with a thread, or
  has been called back; after a cancel the callbacks begun, picked up and waiting are
  together bounded.

### ServicesProofs

* `LifecycleIsConsistent`. `LifeInv`: a call that is alone finds at each step what the steps
  before it left.
* `PlatformStateIsKept`. `LinuxInv` and `MonitorInv`: both sockets are watched for input as
  long as they are open; a callback of the system is remembered while it runs.
* `HandlesAreNotReused`. `TLSInv`: what there is was issued since the last shutdown, and no
  number twice.
* `ResourcesAreAccounted`. `SlotInv`, `PoolInv`: a check of the watermark that is the only one
  pending knows the count, and the flag follows the count before it; an entry that is
  acquired and not yet returned is in use under a handle nobody owns.
* `PublishersAreTracked`. `SessionInv`, and `PubInv`: disconnects reported, being reported and
  still possible are no more than the publications; nobody joins a publication that a
  call is stopping.
* `AccessIsLimited`. `AuthInv`: no table holds a key that was revoked; the attempts remembered
  are the last ones admitted, and those before them are older than a minute, so a window
  never has more than the limit. `AclInv`: the failures come in phases. `Late`: those up to
  some point belong to blocks long over; the next, fewer than there are threads, were let
  through before the last block and told after it. Then the address is `Open`, and the rest is
  failures too old for the window and the remembered ones, fewer than `MaxAttempts`; or it
  is `Shut`, and the rest is the `MaxAttempts` that began the block and what threads let
  through before it have told since.
* `UpdatesDoAgree`. `CounterInv`: the count is that of the connections open and the
  decrements under way; a peak below the count is being raised by a thread that saw it.
  `ConfigInv`: the changes written are those told and those being told; in order, unless
  updates overlapped.

* `LogLinesAreKept`. `LogInv`: one thread at a time goes through the sinks, and the console is
  behind the file by the line of the thread between them. `SinkInv`, for the file: names
  stay below the limit or the second, so that backups are bounded whatever fails; without a
  fault but failed renames (`Whole`), the backup with *n* newer ones has the lines between
  the two rotations that far back. A shift leaves every backup as many newer ones
  (`ShiftKeeps`), the file becomes the newest (`NumberedStep`, `StampedStep`), and those with
  too many newer ones go, of names by second by counting the older ones (`StayingBound`).

### MediaProofs

* `FeedsAreWhole`. `DistributionInv`: the step the publisher's thread is at says what is listed
  and cached (`PublisherPhase`); the cache on the air is an end of what was sent, and without
  a keyframe only if none is to be had (`CachesCurrent`). An undisturbed subscriber has frames of
  its publication only, in order, from a keyframe on (`GivenOwn`), up to the frame before
  those that a loop in progress still holds in `pub.todo` or `join[s].todo` (`Progress`).
* `CachesAreSound`. `CacheInv`: the count of bytes and the position of the last keyframe are
  those of the frames, which are the last that arrived; if the group on the air fitted all
  the time, it is the cache's last group.
* `QueuesAreSound`. `QueueInv`: frames in order, bytes their sum, all that is owed still there;
  at the limit, or nothing left that may be dropped; what came was popped, is queued, or is
  counted as lost.
* `LossesAreTold`, an action property, from `QueueInv` and, for the end of a stream,
  `DistributionInv` (`EndReaches`: who joined in time is told before it is removed).
* `MediaIsHandled`. `HandlerInv`: `MediaHandled` and the types, with the messages a thread has
  accepted and not yet forwarded.

An argument that goes through a sequence, such as the one that a frame dropped leaves the
others in order, takes the least index at which it would fail.

### MessageAssemblerProofs

* `MessagesAreReassembled`. `AssemblyInv`, for each chunk stream by itself: the partial message
  has the header of the message in progress and the bytes sent of it (`Follows`); what was
  handed on is what was sent to its end, in the same order (`Rebuilt`).

### What the proofs changed

Some formulas held in the runs and not for every instance; they say now what the code
does:

* `CancelStopsTimer` (`windows_timer_pal.cpp`) allowed too few callbacks after a cancel
  on Windows: all threads of the pool may have picked one up and one more may wait. The
  bound is now the number of threads plus one, and the run reaches it.
* `IsolationSound` with a failure threshold of zero: a breaker that has seen no failure
  is closed, though no count is below the threshold.
* `SlotWatermarkTracks` says nothing where the high watermark is not above the low one,
  and `WatermarkTracks` nothing of a high watermark of zero: no count is then on one
  side only, or the first entry is never seen to cross it.
* A session whose stream has an empty key looks like one without a stream
  (`SessionAssumption` keeps the default `StreamKey()` out of the streams).
* `AttemptsBounded` needs a block longer than the window: with one of the same length the
  attempt let through as the block ends still lies in the window of the failure that
  began it.

`ConfigSound` had said less than the code provides: it says now that listeners are told
of the writes in their order, unless updates overlap.

Assumptions that were missing: a pool has a worker (`WorkAssumption`; `createThreadPool`
refuses none on Linux), the sets of threads of timers, `PublisherLifecycle`, metrics
and `ConfigManager` are finite, and fewer connections are opened than the atomic counter
has values (a counter that has wrapped has forgotten its peak).

`StructuredLogger` had written a message to all sinks in one step: a forced rotation can
now come between them. `LogLinesKept` joined the lines of the files in their order; it
says now between which two rotations the lines of each file were written.

Some definitions were written anew because the provers cannot use a fold, `SelectSeq` or
a recursive function whose value depends on a sequence; they mean what they meant: what a
window remembers is a suffix of the attempts, as all times before it are at most the
times in it; a frame is removed from a queue by its rank; the frames owed to a
subscriber are a set; the bytes of a buffer are a closed form over its frames' sizes;
the messages `MediaHandler` has accepted are sets of positions; and `MessageAssembler` has
`whole` for what it was given.

### What is not proved

* Liveness (`CallsReturn`, `CallsEnd`, `BegunIsFinished`, `DataServed`): the prover handles
  neither fairness nor `ENABLED`.
* `InputParsed`: what parser and codec compute for every input needs induction over
  sequences, and `AMFCodec` is recursive.
* `ValuesExact`: prefixes compared bit by bit, texts parsed and samples sorted, recursive
  definitions all.
* `RatesMeasured`: averages and extremes over windows are folds.
* The four violation runs state what does not hold.

## Not modelled

* The Windows network PAL: completion ports need a module of their own, and
  `RTMPServer` does not depend on what differs.
* Value types (`Buffer`, `Result`, error codes), the log and file PALs, the service
  wrappers (platform calls and generated text), and the background execution of the
  mobile platforms (foreground service, background task, battery), whose state mirrors
  the platform's.
* Of modelled components: the AMF3 types besides integers, the bytes of doubles and
  strings, the serialisation of responses, formatting and event payloads; statistics
  and health queries; the parameters of the configuration beyond one of each kind; the
  TLS library; handles of mutexes and condition variables; changes of the
  configuration of optimisers and access control while in use. `PROJECT.json` says it
  per component.
* The double unlock by `lock.~lock_guard()` in the Darwin PAL, undefined behaviour whose
  effects depend on the platform's mutex, and a chunk size outside the legal range,
  which the parser clamps.

## Plan

1. Done: registry and commands; connections; start and stop; event loops of Darwin
   and Linux; handshake and timeout; parser, assembler and codec; the media pipeline;
   the core services; timers, threads and network monitor.
2. Proofs, done: the core, connections, start and stop, the Darwin event loop, the
   assembler, all safety that `supervision` checks, all that `media` and `services` check but
   `RatesMeasured` and `ValuesExact`.
3. `PublisherLifecycle` composed with `MediaDistribution`; the Windows network PAL; the
   background tasks of the mobile platforms.
