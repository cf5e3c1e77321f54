# A TLA+ development for erikslund-http

erikslund-http is an embedded C++26 HTTP/1.1 and TLS 1.3 server library for
Linux: a handful of reactor threads around `epoll`, streamed responses that
other threads wake through an `eventfd`, and a server-sent-events channel.
The modules here model the parts of it where threads, sockets, clocks and
ownership meet, check them with TLC on small instances, and prove the central
safety properties with TLAPS for every size.

Paths are relative to the directory that holds both this one and the
repository (`src/src/reactor.cpp` is the file `src/reactor.cpp` of the
repository).

## 1. The system and its parts

| Component | State | Operations | Talks to |
|---|---|---|---|
| Server (`server.cpp`) | listeners, reactors, worker threads, `ServerState` | `start`, `wait`, `run`, `stop`, `reload_tls` | creates and tears down everything else |
| Admission (`server_state.cpp`) | `active_connections_`, `source_connections_`, stop source, first failure | `admit`, `release`, `fail`, `request_stop` | shared by all reactors under a mutex |
| Reactor (`reactor.cpp`) | `connections_`, `streaming_`, `next_stream_id_`, `WakeState` | `run`, `accept_ready`, `admit`, `handle_connection_event`, `scan_deadlines`, `drain_stream_wakeups`, `close_connection` | one thread; owns its connections; notified from any thread |
| Connection (`connection.cpp`) | state, buffers, deadlines, keep-alive count, stream source | `step`, `on_stream_notified`, `on_deadline_expired`, `begin_close` | called by its reactor only; calls parser, router, encoder, transport |
| Transport (`plain_transport.cpp`, `tls_transport.cpp`) | the socket; OpenSSL's buffers and a stalled write | `handshake`, `read`, `writev`, `shutdown` | kernel, OpenSSL |
| SSE channel (`sse.cpp`) | list of subscribers; each: queue, byte count, notifier, overflows; the heartbeat pump | `publish`, `close_all`, `handler`, destructor; `pull`, `on_attached`, `on_detached` | application threads, the pump thread, every reactor |
| Request parser (`request.cpp`) | partial head, offsets of borrowed views | `parse`, `reset` | Connection |
| Router (`router.cpp`, `assets.cpp`) | routes, mounts, middlewares, fallback, fixed before start | `route`, `mount`, `use`, `fallback`, `dispatch` | Connection, handlers of the application |
| Response and encoder (`response.cpp`, `response_encoder.cpp`, `conditional_request.cpp`, `compress.cpp`) | local to a request | `set_header`, `apply_conditional_request`, `encode_response` | Connection, handlers |
| Listening sockets (`socket.cpp`) | bound sockets, identity of a Unix-domain path | bind, probe, unlink, accept | Server, other processes |
| TLS context (`tls_context.cpp`) | one immutable context per listener | `create`, `make_transport` | Server, files of the operator |
| CIDR list (`cidr.cpp`) | rules, fixed at start | `parse`, `allows` | Reactor |
| Metrics, configuration, status page, text helpers | counters, or local to a call | pure functions and counters | everything |

### What is hard about it

* **Threads.** Reactors share the admission counters. Application threads, the
  heartbeat pump and reactors share SSE subscribers. Producers share
  `WakeState` with a reactor that sleeps in `epoll_wait`.
* **Reuse.** Descriptors are reused by the kernel at once; events, expired
  deadlines and late notifications name a descriptor or a stream id.
* **Clocks.** Six timeouts and one absolute budget share a single `deadline_`.
* **Ownership.** A slot, a descriptor, a stream source and a gauge have to be
  given back exactly once on every early return, exception and teardown.
* **Blocking.** A connection parks on exactly one interest; if it picks the
  wrong one, nothing wakes it but a timeout.
* **Other processes.** A Unix-domain path is probed, unlinked and bound in
  separate system calls, while other servers do the same; certificate and key
  are two files that somebody replaces one after the other.
* **Fragments.** A request arrives cut anywhere, into a buffer that moves; a
  response leaves in parts, and OpenSSL wants a blocked write repeated exactly.
* **Framing.** Handlers set any field in any spelling, and the head has to agree
  with the bytes behind it on every path (HEAD, 204, 304, gzip, stream).

`PROJECT.json` lists these as hazards, each at its line, with the properties
that would catch it going wrong.

## 2. The modules

| Module | Models | Checked by | Proofs |
|---|---|---|---|
| `SlotPool` | abstract: what admission promises | `MCAdmission` (as the property `ImplementsSlotPool`) | `AdmissionProofs` |
| `Admission` | `ServerState` and the life of a slot in a reactor | `MCAdmission` | `AdmissionProofs` |
| `CidrAllowList` | entries, rules, the match of an address | `MCAdmission` | `AdmissionProofs` |
| `FilteredAdmission` (extends the two above) | `Reactor::admit` behind a configured allow list | `MCAdmission` | `AdmissionProofs` |
| `StreamHost` | abstract: the contract between a stream source and its reactor | `MCReactor` (`HostsStreams`), `MCSseChannel` (`FeedsStreams`) | `ReactorProofs`, `SseProofs` |
| `Reactor` | one reactor thread, its tables, its producers | `MCReactor` | `ReactorProofs` |
| `Connection` | one connection, its transport, peer and stream source | `MCConnection` | `ConnectionProofs` |
| `EventFeed` | abstract: what a channel promises its subscribers | `MCSseChannel` (`ImplementsEventFeed`) | `SseProofs` |
| `SseChannel` | a channel, its subscribers, publishers and the pump | `MCSseChannel` | `SseProofs` |
| `UnixListener` | one Unix-domain path and the processes that serve on it | `MCServer` | `ServerProofs` |
| `ServerLifecycle` (extends `UnixListener`) | the life of a server and its TLS contexts | `MCServer` | `ServerProofs` |
| `RequestParser` | `parse()` over a message of which n bytes have arrived | `MCRequestPath` | `RequestProofs` |
| `Router` | registration and dispatch | `MCRequestPath` | `RequestProofs` |
| `ResponseEncoder` | responses, conditional requests, encoding | `MCRequestPath` | `ResponseProofs` |
| `ResponseWriter` | vectors, partial writes, the stalled TLS write, frames of a stream | `MCRequestPath` | `RequestProofs` |
| `RequestPath` (extends the four above) | one request from its first byte to the last byte of its response | `MCRequestPath` | `RequestProofs`, `ResponseProofs` |
| `SequenceFacts` | no code: facts about sequences, least elements and iteration that several proofs cite | - | itself |

Operators whose comment begins with *Fault* are not part of a specification.
Each is the operator below it with one plausible mistake; putting it in the
place of the original makes one property fail, which shows that the property
can fail.

### Admission

`active` and `source_connections` are the two counters of `ServerState`; the
map really loses an entry when a source has no connection left. `pc` and
`inHand` follow a thread through `Reactor::admit`: `Accept`, then `RejectCidr`,
`RejectLimit` or `AdmitSlot`, then `DropAdmitted` (no TLS transport, or
`EPOLL_CTL_ADD` failed) or `InsertConnection` and `RaiseGauge`. `slots` is the
set of live `ConnectionAdmission` objects, which are move-only, so a slot is
released when the object that owns its descriptor dies. `EraseConnection` and
`LowerGauge` are `close_connection`; `FailInAdmit` is an exception on its way
out of the loop; `LowerGaugeByTable` and `ClearOne` are `~Reactor`, after
`Server::wait` has joined every thread. A step is what a thread does between
two points where another thread can see a difference; the mutex makes `admit`
and `release` one step each. The CIDR verdict is a constant: `AllowList` is the
set of sources that are let in, all of them when no entry is configured
(`src/src/reactor.cpp:272`). `FilteredAdmission` ties it to the entries: the
set is what the parsed list of `CidrAllowList` makes of the addresses of the
sources.

`SlotPool` is the promise: a slot is granted or returned, one at a time, never
more than the limits allow. `Admission` implements it with `held` mapped to the
peers of the descriptors in `slots`.

### CidrAllowList

Addresses have their real width of 16 bytes. `Parse` and `Allows` work as the
code does, in bytes with a mask for the last one and IPv4 prefixes moved behind
96 bits; `Covers` says what an entry means, bit by bit and over the 32 bits of
an IPv4 address. `AllowListAsWritten` (in `FilteredAdmission`) says that they
agree on every list and address, and that the peers that hold a slot are covered
by a configured entry.

### Reactor

`rpc` follows `Reactor::run`: `wait`, the pass over connection events, the pass
over the eventfd and the listener, `scan`, and at the end `shutdown` and
`exited`. What a connection does in a callback is open: `CloseConnection`,
`StayBusy`, `MakeNotifierAndAttach` and the outcomes of `drive_stream` are all
the reactor can tell apart. `pending_streams`, `eventfd` and `alive` are
`WakeState`; `Produce`, `CheckAlive`, `PushPending`, `SignalEventFd` are the
steps of a thread that queues data and notifies, each of which may be separated
from the next by anything else. `gen`, `listed` and `owner` are history: they
number the connections so that "the same descriptor" and "the same connection"
can be told apart. An exception out of a callback that does not catch, and a
failed `epoll_wait`, are `LeaveLoop`.

### Connection

A call of the reactor runs from `pc = "idle"` through the `drive_*` functions
back to `"idle"` with a new `interest`, or to `"done"`. `caller` and `pass` are
the C++ call stack: who called `drive_write`, and which pass of
`drive_read_headers` is under way. Bytes are tokens: a request is an optional
`"part"`, a token that completes the head and names the kind of request (plain,
`Connection: close`, with a body, streaming by GET or by HEAD), and a `"body"`;
`"bad"` is whatever the parser rejects. `wire` is unread in the kernel, `ssl`
decrypted inside OpenSSL and invisible to epoll. A deadline is the number of
scans left; `Tick` is the time between two scans, and time does not pass over a
deadline that is due because `run` scans after every wait of at most
`kMaxEpollWait`. `h` is history for the properties. The peer and the stream
source act between the steps of a call where that makes a difference.
`begin_close`, `drive_close` and the destruction that follows are one step,
`Finish`: nothing can observe the states between. The bytes drained while
closing are not modelled.

### SseChannel

`lock` is the mutex of the channel, held over a whole `publish` or `close_all`;
the mutex of a subscriber covers single steps. `notify()` is called after that
mutex is released, so it is a step of its own (`CallNotify`, `PumpNotify`).
`phase` is what the reactor does with the stream: created, added to the pump,
response head going out, driving, parked, blocked, gone. A frame is its number
and its size; retry hints and heartbeats have the number 0. `quiet` counts the
ticks since the last write. Heartbeats are on (`Interval > 0`).

`EventFeed` is what the channel promises, without queues, bytes, locks or
threads: a log, and for each subscriber a window of it. An event is offered to
everybody who has joined, once and in order. A slow subscriber may lose the
oldest of what it waits for, fewer than `kOverflowsBeforeDisconnect` times
between two pulls, and is cut off after that. `SseChannel` implements it with
the window read off the queue and `last`.

### StreamHost

`Reactor` and `SseChannel` meet in `StreamSource` and `StreamNotifier`, and each
models the other side of that interface loosely: `Reactor` has producers that
may produce at any time, `SseChannel` has a reactor that drives, parks, blocks
and detaches. `StreamHost` is the contract between the two. Of each stream it
knows whether its host runs it, has parked it, waits for its socket or is done
with it; whether there is something to pull; and whether a wakeup is on its way
(its bell). Data comes with a bell, from whatever thread; a stream parks only
when there is nothing to pull; a parked stream runs again only for its bell; a
bell goes away only when its stream runs, leaves, or the whole loop ends; a
stream that has left never returns.

Both models implement it: `Reactor` as `HostsStreams` (a bell is a producer
between its data and its signal, an id in the list, or one that is being
handled) and `SseChannel` as `FeedsStreams` (a bell is a caller or the pump
between the mutex and `notify()`, or a wakeup at the reactor). So the
reactor's behaviour towards a source, the channel's towards its reactor, and the
loose neighbour that each of the two models contains all lie within one
contract. That bounds both sides of the interface by the same rules; it is not a
proof about the product of the two models, which no module builds.
`SseChannel` leaves out the end of the
loop (`open` is always true); a reactor that ends detaches its streams, which is
`OnDetached` there.

### UnixListener and ServerLifecycle

In `UnixListener` a step is one system call on the path: `bind`, the `lstat`,
probe, second `lstat` and `unlink` of `remove_stale_unix_socket`, `lstat`,
`chmod`, `listen`, and on the way out `lstat`, `unlink`, `close`. Inode numbers
are reused as soon as nothing refers to them, which is what makes a comparison
of identities hard. A process may die between any two steps (`Crash`), and the
operator may remove the path or put a file there.

`ServerLifecycle` follows the thread that owns a `Server` through `start()`
(`phase` is the place in it), with a failure and its unwinding at every step,
the workers that count the latch down, run, stop or fail, `wait()`, `stop()`
from another thread (`StopRequest`, then `StopWakes` over the reactors),
`~Server()`, `reload_tls()` and another `start()`. A TLS context is made by
reading the chain, reading the key and checking the pair, while `RotateChain`
and `RotateKey` replace the files one at a time. The listener of the server is
process `Self` of `UnixListener`; the other processes run concurrently.

Assumed of the caller: `reload_tls()` and `wait()` come from the owner;
`stop()` from another thread comes once `start()` has set `started_`; within an
`unlink_owned_unix_socket` the directory stays readable. The operator touches
the path only while no server stands in the middle of starting on it.
`MaxStarting = 1` and `StopOverlapsWait = FALSE` in the passing run leave out
two races of the code; the runs `unix_race` and `stop_race` show them.

### RequestPath and what it composes

A message is a record of what the parser can tell apart (`RequestParser`):
sizes where a limit looks at them, and for everything else whether it is well
formed and what it names. `Receive` is one read of any size into a buffer at
any address followed by `parse()`, so all splits and moves are covered. Checks
are in the code's order, the first that fails decides. `Router` keeps routes in
registration order and, as the code does, lists of positions: the exact list of
a path, `dynamic_routes_` and `mounts_`. `Select` goes through them in that
order; the first position that serves the method answers, and every other one
that covers the path adds its methods to `Allow`. The router is registered in
the model when a request first needs it; nothing can observe the difference, and it keeps
routers and messages from multiplying. `CallHandler` starts from what a
constructor of `Response` makes, `SetField` is one call of `header()` or a
relative of it (at most `MaxCalls`), and `HandlerAnswers` returns the result, or
500 if the handler threw. `ResponseEncoder`
gives the list of header lines and the size of the body, `ResponseWriter` sends
units of both through a transport that takes any part of them, blocks or fails;
for TLS the units of a blocked `SSL_write_ex` that are already out and the
retry with the coalesced scratch buffer are explicit.

One variable is not the program's: `variants` remembers, for the answer under
way, what `dispatch` returns for the same resource to a request without a
condition, with gzip wanted and with gzip refused. Only an asset is answered
differently (`AssetAnswers`); a handler's response is one for all. `CacheKeyed`
needs it, because the answer itself may be a 304 or a 406 that does not show
what the resource looks like.

Left out of the inputs: asset bundles with two assets of one path, and builds
without zlib.

## 3. What is checked

Every run but the four marked *violation* passes.

| Run | Instance | What it shows |
|---|---|---|
| `admission` | 2 reactors, 4 descriptors, 3 sources (1 outside the allow list) and a Unix peer, limits 3 and 2; 432 allow lists against 293 addresses | Implements `SlotPool`; both counters and the gauge are exact, every slot has one owner, a stop returns everything; the allow list means what its entries say |
| `reactor` | 2 descriptors, 2 producers, 3 connections, 2 stream ids, symmetry | No event, deadline or id reaches the wrong connection; no wakeup is lost; sources are attached exactly while they stream |
| `reactor_live` | 1 descriptor, 2 connections one after the other, 2 producers | Produced data is pulled; a stop ends the loop; the reactor is a host as in `StreamHost` |
| `connection` | 3 tokens, 2 pipelined requests per step, 3 requests per connection, cleartext and TLS | Request budget, stall bound, honest keep-alive, one detach per source, no complete request left waiting (cleartext); deadlines end every connection except a stream that moves |
| `connection_tls` *(violation)* | as `connection` | See findings |
| `sse` | 2 subscribers, 2 application threads, limit 2, symmetry | Live subscribers stay in the list; a parked stream with something to send has a wakeup coming; the channel is a source as in `StreamHost` |
| `sse_stream` | 1 subscriber, 4 events of sizes 1, 2 and 4, budget 3, 2 overflows to a disconnect | Implements `EventFeed`; exact byte budget, order without gaps, heartbeats, end of stream at shutdown |
| `sse_contract` *(violation)* | as `sse` | See findings |
| `server` | 2 processes, 2 inode numbers, 2 workers, 2 TLS listeners, 1 rotation | No server unlinks what is not its own or stale, none leaves its socket behind, the first failure of a worker is what the owner gets, reactors outlive their users, a reload is all or nothing with matching pairs, no operation hangs |
| `stop_race` *(violation)* | 1 process, 2 workers, `stop()` may overlap `wait()` | See findings |
| `unix_race` *(violation)* | 2 processes that may start at once, 3 inode numbers | See findings |
| `request_path` | 37 messages, 13 patterns, up to 3 registrations, every constructor followed by up to 2 calls of `header()`, 2 buffer addresses, heads and bodies of 2 units, 2 frames | The verdict on a message is independent of the split; dispatch finds what was registered; head and body agree; caches are told; the peer gets exactly the response. The properties name the exceptions, `CutMatters`, `CodedTwice` and `AssetNotModified`; see the observations below |

### Why the bounds are enough

* Admission: both limits are reachable while a second thread is inside
  `Reactor::admit`; four descriptors exceed the process limit; a source reaches
  its own limit first or last.
* Reactor: three connections on two descriptors force a reuse; two ids make a
  stale one and a live one meet in the same list; two producers can stand on
  both sides of the drain at once.
* Connection: with two requests per step the third token meets the end of the
  pass budget; with three requests per connection the keep-alive limit is
  reached in a pipeline; every timer is at least 1, and the request budget of 3
  is shorter than the sum of the header and body timeouts, so the clamp bites.
* SSE: a budget of 3 holds several frames and two overflows disconnect, so that
  drop-oldest, reset by a pull, disconnect and a frame larger than the budget
  all happen.
* Allow list: every prefix length of both families and one beyond, and with each
  all addresses that differ from the network in exactly one bit.
* Server: with two processes one is a stale, live or dying neighbour of the
  other; two inode numbers are reused; two workers fail in both orders and one
  thread may fail to start after the other runs; two TLS listeners can load
  different generations; one rotation is enough to fall between two reads.
* Request path: each check of the parser is met by one message and failed by
  another, every limit is met exactly and passed by one; three registrations
  make an exact route, a dynamic one and a mount compete; two calls of
  `header()` make a spelling replace another; two units make a first, a partial
  and a last write, two frames a retry after a stall.

Section 4 proves every safety property and every refinement of these runs
without the bounds.

`CHECK_DEADLOCK FALSE` is used where the system may stop for good: a reactor
that has exited, a channel that is destroyed.

### Fairness

* A thread inside a call keeps running (weak fairness of its steps): nothing in
  these calls waits except for mutexes that are held over finite work.
* A reactor returns to the test of the stop token again and again because a
  turn handles a finite batch: strong fairness of `ExitLoop` in `Admission`,
  weak fairness of the loop in `Reactor`.
* The scan of the deadlines comes at least every `kMaxEpollWait`, however busy
  the connection is: strong fairness of `Tick` and `OnDeadlineExpired`.
* A blocked SSE stream is ended by the write timeout of its connection; that is
  what `IdleConnectionsEnd` shows, and `SseChannel` assumes it.
* `ServerLifecycle`: the owner inside an operation, a worker with something to do
  and a thread inside `stop()` keep running. A pair of files that does not match
  makes `create()` throw; no other failure is assumed to happen.
* Nothing is assumed of peers, of applications that publish, or of a stop.

### Findings

* **A pipelined request may wait inside OpenSSL** (`connection_tls`).
  `drive_read_headers` and `step` decide whether there is more to do by looking
  at `read_buffer_` only. A TLS record can hold more than one `transport_read`
  returns. When the pass budget is exhausted, or after a body, with an empty
  `read_buffer_`, the connection waits for `EPOLLIN` while the next request is
  already decrypted; it is answered only when the peer sends more, and dropped
  without an answer by the idle timeout otherwise. `PlainDrivesUntilBlocked`
  shows that cleartext connections are not affected.
* **A notifier may be used after `on_detached`** (`sse_contract`).
  `StreamSource::on_detached` asks that the source stop using its notifier
  before it returns; `SseSubscriber` calls a copy of it outside its mutex. The
  server tolerates this (`StreamMapExact` is why: a late id leads nowhere).

* **`stop()` and `wait()` in two threads** (`stop_race`). `stop()` is documented
  as thread-safe; it walks `reactors_` without a lock. The stop it requests lets
  the workers end, `wait()` in the owner joins them and clears `reactors_` while
  the loop in `stop()` still has reactors to wake. `run()` has the same window
  through its stop callback.
* **A starting server looks stale** (`unix_race`). Between `bind()` and
  `listen()` a Unix-domain socket refuses a probe exactly like one whose owner
  died. A second server that starts in that window unlinks the path and binds
  its own; the first one then listens where nobody can connect.
  `NoForeignUnlink` holds when starts do not overlap (`MaxStarting = 1`).

Smaller observations, without a run of their own:

* A request line of exactly `max_request_line_bytes` is answered with 414 when a
  read ends between its CR and LF, because the CR is counted to the line until
  the LF is there (`src/src/request.cpp:764`). And `max_header_block_bytes` may be
  configured below `max_request_line_bytes`; then a line that is too long is
  answered with 431 instead of 414 when a read ends between the two limits
  (`src/src/request.cpp:772`). `ParsedAsIfWhole` names these cuts (`CutBehindCR`,
  `CutInLongLine`) and holds for all others; the proof is what brought up the
  second.
* A handler that sets `Content-Encoding` to the empty string gets two such fields
  when its body is compressed. `set_header` (`src/src/response.cpp:190`) accepts
  the empty value; `encode_response` takes it for none when it decides to
  compress, passes it on (`src/src/response_encoder.cpp:193`) and writes its own
  behind it (`:197`). `src/tests/test_compress.cpp:262` says of a handler that
  sets none that "two Content-Encoding fields would frame the body twice".
  `FramingAgrees` names this pair of fields (`CodedTwice`) and shows that no
  other name occurs twice. With `CodedTwice` replaced by `FALSE`, TLC ends in
  such a head after one call of `header()`.
* The 304 of a mounted asset that is not precompressed has no `Vary`, although
  the 200 of the same asset has one when it is of a compressible type and size.
  `asset_response` makes this 304 itself and sets `Vary` for precompressed assets
  only (`src/src/router.cpp:126-132`); `apply_conditional_request`, which merges
  the field into the 304 of a handler's response, leaves one that is a 304
  already alone. `src/src/internal/compress.hpp:15` says of the decision to vary
  "Describes the resource, not one request, so Vary remains correct.", and
  `src/tests/test_compress.cpp:387` of a handler's 304 "a cache must key the 304
  on both language and content coding". `CacheKeyed` names this 304
  (`AssetNotModified`) and shows that every other answer is keyed. With
  `AssetNotModified` replaced by `FALSE`, TLC ends in `GET /a/b` with the entity
  tag of the `text/html` asset `b` mounted at `/a`.
* An error answer to a HEAD request carries a body, because `serialize_error`
  forgets the request; the connection closes behind it, so the framing holds.
* The client CA file is read twice (`src/src/tls_context.cpp:321` and `325`), so
  a rotation between the two can make the advertised names differ from the
  store; the model has only the pair that OpenSSL checks.

## 4. What is proved

All theorems are proved by `tlapm` with the SMT, Zenon and PTL backends, for
every value of the constants that meets the assumptions of the modules:

| Assumption | What it asks |
|---|---|
| `AdmissionAssumption`, `ReactorAssumption` | finite sets of reactors and descriptors, natural limits, distinct special values |
| `CidrAssumption` | entries and addresses are what `inet_pton` and `from_chars` deliver: 4 or 16 bytes, at most one prefix number |
| `FilterAssumption` | the configured list was accepted by `parse` (`start()` throws otherwise), and `AllowList` is what it lets in |
| `ConnectionAssumption` | positive timeouts and limits (`validate_server_options` in `server.cpp` insists on them); "no deadline" is not a number |
| `SseAssumption` | positive frame sizes, overflow limit and interval, natural budgets |
| `UnixAssumption`, `ServerAssumption` | finitely many processes, at least one; the special values of the path are not inodes; at least one worker |
| `WriterAssumption`, `EncoderAssumption` | frames and heads are not empty, natural gzip limits |
| `ParserAssumption` | natural limits; the body limit fits the type lengths are parsed into |
| `RouterAssumption`, `PathAssumption` | the messages, patterns, bundles, responses and calls of `header()` that occur are well formed (sequences of the right kind) |

Four theorems about the server need a hypothesis, stated in the theorem:
`~StopOverlapsWait` for `ReactorsOutliveUse`, and `MaxStarting = 1` for
`OnlyOwnUnlinked`, `LiveListenersKept` and `NothingLeft`. They exclude exactly
the races that `stop_race` and `unix_race` show, so each pair says that the race
is the only way to the violation.

**Admission** (`AdmissionProofs`). `CountsExact` is not inductive: a release
would lower the count of another connection's source if two owners could hold
the same descriptor. So `Ownership` comes first: the types, `SlotsOwned`,
`OneOwner` (a descriptor is in one hand or one table) and `HandsOpen` (a thread
has a descriptor in hand exactly inside `Reactor::admit`, and what is in a hand
or a table is open). It is preserved by every action (`OwnershipStep`) and gives
`TypeCorrect` and `NoSlotLeaks`. On top of it, granting and releasing change
the counters and the set of slots by the same one (`GrantCounts`,
`ReleaseCounts`), which gives `CountersExact`, then `LimitsRespected`.
`AdmissionIsAPool` is the refinement: with `CountsExact` the tests on the two counters are the tests of
`SlotPool` on the held slots (`PoolGrants`), with `SlotsOwned` and `OneOwner`
a release takes exactly one holder away (`PoolReturns`), and every other step
leaves slots and their peers alone (`SamePool`), so that each step of
`Admission` is a step of `SlotPool` or a stutter (`PoolStep`). For the
gauge the invariant says by how much it lags behind the tables in each stage of
each thread (`GaugeLag`), which gives `GaugeCorrect`.

`AllowListHonoured` needs no induction over bits: by integer division with the
eight weights of a byte, two bytes agree under a mask exactly if their first
bits agree (`Masked`, `BitsOfByte`). `BytesAndRest` lifts
that to addresses: the first n bits are whole bytes and the rest of one more.
`RuleMatches` says that clearing the host bits of the network loses nothing
that a match looks at (`MaskTwice`), and `MappedRule` that 96 bits more over
the IPv4-mapped form are the bits over the 32 of IPv4. With `ListParsed` and
`PeerJudged` this is the static half, for every list and address. The other
half is an invariant, `OnlyAllowed`: every network peer that holds a slot is a
source in `AllowList`, which with `Ownership` every step keeps, since a
descriptor with a slot does not change its peer.

**Reactor** (`ReactorProofs`). `NoLostWakeup` needs to know that an id in the
list of notifications leads to the one stream it was issued for. `Inv` joins the
types, `Phases` (which list is non-empty in which phase of the loop, and that a
producer inside `notify()` has an id), `StreamTable` (ids and descriptors are
inverse to each other on live streams and ids are never reused) and the
properties themselves. `Invariance` proves it inductive; `TypeCorrect`,
`WakeupsNotLost`, `StreamIdsExact`, `EventsNotMisdelivered`, `SourcesDetached`
and `PendingListDistinct` follow. `ReactorIsAHost` is the refinement of
`StreamHost`. Besides `Inv` it needs `AliveInLoop`: notifications are refused
only once the loop is left, so inside the loop a bell is never cut short. The
list of ids is walked one at a time, and the proof is about what a step does to
the bells of the *other* streams (`SameBell`): removing the head of the list or
swapping the lists must not silence one of them.

**Connection** (`ConnectionProofs`). The timers only make sense together with
the place in the call and the C++ stack, so `Core` joins the types with
`Control` (which `state_` goes with which `pc`, and that a connection that is
not done has requests left), `Clock` (`request_deadline_` runs exactly from the
first byte to the end of the reading, its rest and the age of the request add up
to the budget, and `deadline_` does not lie behind it), `Stall`, `Announced`
(what the head said about keep-alive is what the end of the response is going to
decide) and `Sourced` (the sources taken over are the detached ones and the one
that is held). It
gives `Typed`, `ClockRuns`, `BudgetKept`, `StallsEnd`, `HeaderHonest` and
`SourcesDetached`. `PlainDrives` needs one thing more, `Framed`: `read_buffer_`,
OpenSSL's bytes and the kernel's, put together, are whole requests one after the
other with at most the last unfinished. Otherwise a suffix left in the buffer
need not be the start of a request.

**SSE** (`SseProofs`). `Inv` adds to the types `Locked` (who holds the mutex is
inside `publish` or `close_all`), `Listed`, `Walked` (the subscribers a
publisher has yet to visit), `Noticed` (a parked stream with frames has a
notification owed by some caller, by the pump or at the reactor), `Counted` and
`Ordered`. The byte count is a recursive function over the queue. What it does
under a push, a drop and a pull would be an induction over data; `SequenceFacts`
replaces it by the least counterexample (`Least`, `UpTo`, `Iterate`), which is
first-order.
Results: `Typed`, `EveryoneListed`, `NoLostWakeup`, `BytesCounted`,
`NewestInOrder`.

`ChannelIsAFeed` is the refinement of `EventFeed`. `FeedAlive` reads the window
of a live subscriber off `Ordered`; `Enqueuing` says what an enqueue does to the
queue, and each of its outcomes is one step of the feed (`PublishOffers`); a
pull is a send (`PullSends`). That a new event or a new subscriber finds
everybody caught up follows from the mutex (`FreeIsCaughtUp`). One strengthening
is needed, `Ended`: a subscriber whose connection is gone is closed, or a late
publish could move the window of one that is over; and one that has not
subscribed is not. `ChannelIsASource` is the refinement of `StreamHost`: a subscriber has a
notifier exactly while it is attached (`Noticed`), so whoever queues a frame or
ends a stream holds a copy of it when the mutex is released (`Produces`), and
the call of that copy changes nothing that the host has not been promised
already (`NotifyHost`).

**Server** (`ServerProofs`). `Inv` joins the types with `Phased` (what exists in
which phase of the owner), `Recorded` (`failure_` is the first failure),
`Latched` (the latch is the number of workers that have yet to count it down)
and `Paired` (contexts hold matching generations). `Shared`, for one start at a
time, is about the path: `OneStarts`, `OwnSockets` (open sockets have distinct
inodes) and `Held` (an entry that is about to be unlinked is the process's own,
or no open socket's). The reuse of inode numbers is why `Held` speaks of what
processes hold open and not of what one has seen. Results: `Typed`,
`FirstFailureReported`, `ReactorsOutliveUse`, `ReloadIsSafe`, `OnlyOwnUnlinked`, `LiveListenersKept`,
`NothingLeft`.

**Writing** (`RequestProofs`). `Pends` says what is still to come: the wire,
followed by the pending units behind `write_offset_`, is everything produced. A
stalled TLS write counts what OpenSSL has already sent, and the scratch buffer
is the same units as the vectors it was copied from. `PeerReceivesResponse`
follows for every cut of the writes.

**Parsing** (`RequestProofs`). `ParsedWhole` rests on the invariant `Afresh`: the
last outcome is that of a fresh parser given all bytes arrived so far at the
current address. `Layout` says where the parts of a message end, `Cuts` that a
prefix is rejected only for a reason that the whole has too (two cuts excepted,
`CutMatters`, see section 3), and `Rebased` and `Resumed` that a resumed parser
on a moved buffer does what a fresh one does. `Lengths` is the part about the
length fields of an accepted request.

**Dispatch** (`RequestProofs`). `IsRouter` is what registration builds: each
route was compiled from an accepted pattern and its position is in exactly the
list in which it is looked up, in ascending order. `Routing` keeps it and the
selection made from it. `FirstHoldsLeast`, `FoundIsCovered` and
`CapturesArePieces` connect the three lists of the code with the declarative
answer of `RoutedRight`, and `DispatchFinds` follows for every set of patterns,
mounts and bundles, registered in any order.

**Responses** (`ResponseProofs`). The calls of a handler keep `WellFormed`: no
two fields of one name, whatever their spelling. `Answering` carries it from the
constructor to the encoder and says that what is encoded is the handler's
response or the 304 made from it. What the encoder does with the framing fields
of a handler, with HEAD, 204, 304, streams and gzip gives `HeadAnnouncesBody`:
`Joined` puts its lists of lines together, and the only two lines of one name
that can meet are those of `CodedTwice`. For `CachesAreTold`, `Answering` also
holds how the answer compares with `variants` (the operator `Variants`): they are
all the same, or the answer has a `Vary` that names `Accept-Encoding`, or it is
the asset's own 304. In the first case a difference can only come from the
encoder, which then writes `Vary`; in the second `NotModifiedFormed` and
`HeadKeyed` carry the field through the 304 and the encoder; the third is the
exception `AssetNotModified`. The two theorems thus say, for every handler and
every bundle, that the two observations of section 3 are the only ones of their
kind.

The type invariants of `Admission`, `Reactor`, `Connection`, `SseChannel` and
`ServerLifecycle`, and `LimitsHold`, are stated by theorems only; no run repeats
them.

Only model-checked is liveness (`StopReleasesEverything`, `ParkedDataIsPulled`,
`StopCompletes`, `IdleConnectionsEnd`, `ShutdownEndsStreams`, `HeartbeatsFlow`,
`OwnerReturns`): the prover handles neither fairness nor `ENABLED`.

## 5. What is not modelled, and the plan

Left out for good: configuration files, status page, observability, JSON, text,
hashing, the bytes of compression and the logger (pure byte-level functions or
output without protocol), the details of TCP binding, metrics other than the
gauge, and OpenSSL's own state beyond what a read or write returns and a blocked
write remembers. Failures of memory allocation are modelled only where they end
a reactor loop or leave `Reactor::admit`.

Worth adding next: `Connection` over `RequestPath`, to show that the abstract
kinds of request of the one are the outcomes of the other; and `StreamHost`
against the stream states of `Connection`, which is the third party to that
contract.
