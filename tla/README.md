# sockify: a TLA+ verification project

sockify (`src/`) accepts WebSocket connections and relays their payload to a TCP
server. It is a single-threaded event loop in C: non-blocking sockets, optional
TLS on either leg, one heap-allocated session per client. This directory holds
TLA+ modules translated from that code, the TLC runs that check them on small
instances and TLAPS proofs for every size. `PROJECT.json` maps each definition
to the lines it stands for.

## 1. Inventory

| Component | Source | State | Operations | What makes it correct |
|---|---|---|---|---|
| Ring buffer | `core/buffer.c` | storage, `read_pos`, `write_pos`, `length`, water marks | write, peek, consume, read, clear | a bounded FIFO, whatever the wrap-around |
| Session | `proxy/proxy.c` 104-851 | handshake/connect/TLS flags, `closing`, `pending_close`, two ring buffers, `client_out`, frame parser, registrations | the callbacks of two descriptors, `session_update_events`, `session_close` | two lossless in-order pipes; whole frames to the client; no missed wake-up; ends when a peer does |
| Server | `proxy/proxy.c` 121-182, 853-1037, 1130-1203 | doubly linked list, `active_connections`, config, time stamps | accept, create, refuse, close, tick, shutdown | list and count agree with the sessions; no descriptor without owner; limit and timeouts kept |
| Event loop | `event/*.c` | table of sources, what the kernel was told, batch of events | add, modify, remove, run | the kernel watches what was asked for last; an event finds its descriptor; what is ready is served |
| Frame parser/writer | `ws/ws_frame.c` | header state, opcode, payload left, mask, fragmentation | feed, write | same messages however the bytes are cut |
| WebSocket handshake | `ws/ws_handshake.c` | none (the caller collects the request) | build the response | finds the end of the request wherever reads cut it, accepts only valid ones |
| Transport, TLS | `transport/`, `tls/` | what the handshake waits for, bytes inside the library | handshake, read, write, destroy | EAGAIN is never an error, an error never EAGAIN |
| Sockets | `net/*.c` | none | listen, accept, connect, send, recv, SO_ERROR | as above |
| Start and end | `core/cli.c`, `main.c`, `proxy/proxy.c` 1039-1203 | configuration, what is acquired | parse, validate, acquire, release | runs as configured or not at all; releases everything, users first |
| SHA-1, base64, byte order, log | `core/` | none | conversions | test vectors |

**Interaction.** `run` waits (at most a second), gets a batch of ready
descriptors, calls each one's callback, then calls the tick. The listener's
callback creates sessions; a session's callbacks read one socket into a buffer and
write the other buffer out, and at their end `session_update_events` sets what
*both* descriptors are registered for. Either callback, or the tick, may close
the session, which frees it.

**What is hard.** Nothing runs in parallel, but the peers and the kernel move
between any two system calls; a write takes part of what it is given; budgets and
water marks end a loop with work left; TLS holds bytes no readiness event reports;
a CLOSE has to wait for a half-sent frame; two events of one session may be in the
same batch, and a callback frees and creates sources while the batch is walked;
any step of the start may fail with others to undo; the clock counts whole seconds. `PROJECT.json` lists each such hazard
at its line with the properties that would catch it.

## 2. Modules

| Module | Models |
|---|---|
| `RingBuffer` | `core/buffer.c`, every operation, storage uninitialised |
| `BoundedFifo` | what a ring buffer promises; `RingBuffer` refines it |
| `RingBufferProofs` | TLAPS proofs about `RingBuffer` |
| `Session` | one session with its sockets and peers, one system call or parser call per step |
| `SessionProperties` | the properties of `Session` and the strengthenings they need |
| `ByteRelay` | what a session promises: two bounded in-order pipes closed together; `Session` refines it |
| `SessionTypeProofs` | TLAPS proof of `Session`'s type invariant |
| `SessionSafetyProofs` | TLAPS proofs of `Session`'s wake-ups, CLOSE output, target-to-client order, the framing of the client's stream and the encrypted target leg |
| `SessionRelayProofs` | TLAPS proofs of room, client-to-target order and the refinement of `ByteRelay` |
| `Server`, `ServerProperties` | accept loop, session list, tick, shutdown; its properties and their strengthenings |
| `ServerProofs` | TLAPS proofs of all safety properties of `Server` |
| `EventLoop`, `EventLoopProperties` | the epoll, kqueue and poll backends under the callbacks of sessions; its properties and their strengthenings |
| `EventLoopProofs` | TLAPS proofs of all safety properties of `EventLoop` |
| `WsHandshake` | `ws/ws_handshake.c` as operators on a request |
| `WsParser`, `WsParserProperties` | `ws/ws_frame.c`, `core/byte_order.c` and the caller that collects the request and feeds frames; the framing rules of RFC 6455 as reference, and the strengthenings |
| `WsParserProofs` | TLAPS proofs of all properties of `WsParser` |
| `Startup`, `StartupProperties` | command line, validation, acquiring and releasing; its properties and their strengthenings |
| `StartupProofs` | TLAPS proofs of all properties of `Startup` |
| `MC...` | TLC instances: client scripts, frames, requests, addresses, symmetry |

The groups meet at narrow places. `Server` and `EventLoop` take a session as
a thing that handles an event, upgrades or closes, which is what `Session` does in
between. `Session` sees the client's bytes as headers and payload pieces; `WsParser`
shows that the parser makes the same of them however they are cut. `Startup` ends
where `Server` and `EventLoop` begin: a listener registered in a loop.

A definition introduced by "Mutant:" is a plausible slip in the code
below it. No specification uses it; substituted for that definition it breaks a
property, which shows the property says something about the code.

### RingBuffer

Variables are the fields of `struct sockify_buffer`. The byte-by-byte loops
are functions over the slots; `Wrap` is the comparison with the capacity the code
makes after each increment. `result` is what the call returned, so the refinement
to `BoundedFifo` covers return codes, counts and the bytes copied out as well.
`queue <- Held(length)` is the refinement mapping.

### Session

`conn`, `closing`, `pending_close`, `c2t`, `t2c`, `client_out`, `ws_parser` are the
fields of the session. `pc` says where in a callback the thread is, `ops` is the
local `read_ops`/`write_ops`, `events` the event mask, `interest` the registrations,
`batch` the events returned and not dispatched yet. `csock` and `tsock` hold
what arrived and was read, the bytes inside the TLS library (`pend`), the fill
of the send buffer and the peer's state.

*Data.* The client's bytes are a script of tokens: parts of the HTTP request, frame
headers, payload bytes. Data byte number *k* of a direction is the number *k*, so
order, loss and duplication show. A header is one token: the parser's header states
consume without producing anything and no property depends on where a header is cut.
A frame to the client is its header, one byte, and its payload.

*Steps.* Each `sockify_transport_read`/`write` is a step together with the processing
up to the next system call, except that each `sockify_ws_parser_feed` is a step of
its own (`pc = "ws"`); peers do not move there, as no system call is made.
`Return` is `session_update_events` followed by the return to the loop.
`session_close` ends the session; the callers that look at `session->closing`
afterwards read freed memory, and the model takes that field to keep its value.

*Environment.* `Masks` allows what epoll, poll and kqueue may report, including
unrequested errors after a reset. `Reads` with TLS returns any part of one record.
`ConnectModes` covers a connect in progress, at once and failing.

### Server

Sessions are named after their descriptors; `node[c]` holds the list links and the
time stamps, all other state of a session is left to `Session` (its callback either
moves bytes, upgrades, connects or closes). The clock counts units of which `Second`
make a second; `time(t)` rounds down as `time(0)` does. Callbacks take no time;
`Elapse` is the wait of at most a second. `CreateFails` has both failures of
`session_create`: after `calloc` (closed while not linked, which
`server_unlink_session` must notice) and of `calloc` (the descriptor stays open:
`leaked`). One event per session and batch: what a second entry for a freed
session does belongs to `EventLoop`.

### EventLoop

`loop.sources` is the backend's table and `loop.kernel` what the kernel was told of
each descriptor: the interest and the pointer it hands back. For poll, which has no
state in the kernel, only the table counts. An operation is an operator that
returns the set of its outcomes, so that a callback can make several of them in one
step, with failures (`NoMemory`, a kevent change that is applied in part).

A wait leaves `batch`. epoll and kqueue hold pointers: the walk takes the entries in
any order, calls whatever source lives at that address now, and if none does,
`CallsFreed` ends in `"undefined"`, because what freed memory holds is up to the
allocator. `Calloc` therefore offers every address the batch still points to and one
new one, which stands for all. poll holds indices: the walk calls the source that is
at index `i` now, with the events of that slot; slots behind the polled ones were
not filled in and may hold anything.

The callbacks are those of `proxy.c` reduced to what they do to the table. What the
environment does during a walk is seen by a callback still to come or by the next
wait, so `Connect` and `Becomes` happen at the wait only. `stop` is left out: nothing
in `src/` calls it. Fewer descriptors than the 128 of a batch are ready, so one wait
reports them all.

### WsHandshake and WsParser

A client sends a request and frames in one stream of bytes. CR, LF and the bytes of
frames are real byte values; the text of a request line is one token (a number above
255), because comparing text is not what cutting the stream can disturb. Frames are
built by `Wire` from their RFC 6455 fields, with any form of the length and a mask;
the parser sees only the bytes. `client` is chosen once: its request, its frames, the
bytes of both and where in them each frame starts; `StreamOk` relates the four. Only
the last frame of a stream may lack a part of its payload; a stream that ends
earlier, in a head or in the request, is one of which no more is received. `HandshakeBytes` is one call of
`session_handle_handshake_bytes`: it looks at all that was collected each time.
`Feed` chooses the room of one call of `sockify_ws_parser_feed`; each round of the
loop in it is one of `Header1` to `Again`. That the caller stops after a CLOSE, and what it
does without room, is part of `Session`; here every byte gets to the parser in the end. The reference in
`WsParserProperties` is the rules for frames; what a payload holds (UTF-8, the code of a CLOSE) is
checked neither by the code nor by the model. TLC's integers end at 2^31, so lengths
from there on are one value, `Huge`.

### Startup

Arguments come one at a time, each overwriting what an earlier one set, so a command
line of any length is covered. A string is empty, usable or refused, a number is
one of `Number`; `parse_uint` reduces it modulo `UintRange`, as the assignment of
`strtoul`'s result to an `unsigned int` does. One timeout stands for the three,
which are parsed alike. Of the strings only `pfx_password` is in no check: it can be given with any
configuration. `held` is what has been acquired and not released, `todo` the
releases the error path at hand still makes, in its order. Closing the sessions at
the end of `sockify_proxy_run` is part of `Server`.

## 3. Runs

Deadlock checking is off where the system may stop: a session that ended, peers
that send no more, a server that is down.

| Run | Instance | Checks |
|---|---|---|
| `ring_buffer` | 3 bytes, 2 byte values, requests up to 4 | `TypeOK`, `PositionsAgree`, refinement of `BoundedFifo` |
| `relay` | plain, buffers of 6 (high-water 4), chunks of 2, send buffers of 1 | order in both directions, whole frames, no overflow, registrations, CLOSE output, refinement of `ByteRelay` |
| `faults` | TLS on both legs, handshakes that stop once, records of 7 and chunks of 6 with buffers of 2, connects in progress or failing, hang-ups, resets, timeouts | order and framing, registrations, no plain payload |
| `live` | buffers of 3, chunks of 1, hang-ups, fairness | delivery both ways, CLOSE completes, hang-up ends the session |
| `server_list` | 4 clients, limit 3, accept budget 2, failures | list, count, descriptors, limit |
| `server_time` | 2 clients, limit 1, half-second clock, all timeouts, fairness | timeouts kept, no starvation |
| `event_loop` | 2 sessions, one target at a time, one failing call, three backends, fairness | table, kernel and sessions agree; interest agrees; pending events resolve; ready descriptors are served unless the walk meets a freed source |
| `ws_parser` | 14 requests besides the usual one, streams of three frames in and out of order, the last one possibly malformed, 9 lengths at their limits, reads of 1 to 4 bytes, room of 1, 3 or 125 | requests and frames taken or refused exactly as the framing rules of RFC 6455 say, room for 125 bytes is enough, frames written read back |
| `startup` | two numbers (0, and one that wraps to 0), two addresses, with and without OpenSSL | runs as configured, nothing left, users released first |

Three runs are expected to find a violation; each states what the repository's
documentation says and shows a behaviour of the code that differs.

| Run | Statement | What the code does |
|---|---|---|
| `tls_stall` | README.md:5, payload is shuttled | a read that leaves part of a TLS record inside OpenSSL waits for a readable socket; the rest is not delivered until the client sends more |
| `tls_immediate` | README.md:108, `--target-tls` verifies the target | a connect that succeeds at once leaves the plain transport in place |
| `stale_event` | README.md:116, one client cannot starve the rest | both descriptors of a session are in one batch, the first callback closes the session, and the loop calls through the second one's freed source (`ev_epoll.c:174`; `ev_kqueue.c:203` is alike) |

Other divergences are visible in the modules and have no run of their own:

* Bytes read before the target's end of stream are dropped with the session
  (`proxy.c:693`), and so is data queued for the target when the answer to a CLOSE is
  out (`proxy.c:646`). `UpDelivered` and `DownDelivered` are stated for sessions
  that go on.
* With a `--buffer-size` smaller than a chunk, frames read along with the request
  that do not fit are dropped and the stream goes on (`proxy.c:517`): `UpInOrder` is
  checked where `SafeSizes` holds.
* `--client-tls-pfx-password` is accepted and has no effect, with `--client-tls` off or with
  another source than a PFX file: `validate_tls` and `proxy_validate_config` do not look at
  it (`cli.c:204`). `RunsAsConfigured` makes no claim about it.
* A control frame that arrives in two reads is handled part by part, because nothing looks at
  `frame_complete`: a ping is answered with two short pongs (`proxy.c:471`,
  `session_handle_ws_message`).
* The low-water mark of README.md:116 has no effect (`TargetEvents` and
  `ClientEvents` test the high-water mark only).
* With README.md:52's milliseconds measured by `time(0)` a session may be dropped
  almost a second early (`elapsed_ms`).
* A timeout of 2^32 milliseconds is accepted and turns the timeout off (`parse_uint`).
* The poll backend calls a source that moved to another index, or was added
  during the walk, with events that are not its own (`Calls`). Callbacks take
  such a call as a spurious event; `ReadyServedOrUndefined` holds all the same.
* When kevent fails after a first change, `source->events` and the kernel differ from
  then on, and a later change may fail as well (`update_filters`);
  `InterestAgrees` leaves out descriptors for which a call failed.

**Bounds.** `MaxTraffic` bounds the script plus the bytes of the target, `MaxTime`
the clock. A buffer of 6 with chunks of 2 satisfies `SafeSizes`, as the defaults do,
and is the smallest in which high-water, full and almost full are
different states; 7 bytes of the target fill it past its capacity if the mark were
not respected. Budgets of 2 are used up by one burst. Send buffers of 1 make
every write partial. `faults` has a buffer smaller than a chunk, where
`SafeSizes` is false and the overflow paths run. Three linked sessions are the
first list with a head, a middle and an end; the fourth client is refused. With
`Second = 2` half a second can be told from a second, and 8 units are enough for
each timeout to pass twice. The symmetry of `server_list` permutes clients, which no
definition tells apart. In `event_loop` two sessions, one with a target (`MaxTargets`), give a table of
four sources, so that a removal from the middle moves an entry across the walk;
a descriptor is not used again, so a session that closed is not reopened, and the
second session takes its place and its address. Interest is none or both and clients speak TLS, so that kqueue
has two filters to change in one call, of an add too; `MaxFailures` bounds the descriptors for which a
modify has failed and that are still open. In `ws_parser` three frames are the shortest
stream with a control frame inside a fragmented message, reads of 4 bytes end
anywhere in a header or a mask, and `MaxRequest` is passed by one of the requests.
`startup` has no bound but the sizes of its constants.

**Fairness.** Weak fairness of the event-loop thread's steps as a whole (one thread that
always has a next instruction), of the peers' draining what is sent to them and,
in `Session`, of the target's answer to a connection attempt. Nothing is assumed
of peers sending or hanging up. In `EventLoop` only the loop's own steps are fair:
a callback returns and a wait ends when something is ready (`FairSpec`);
`EndlessSpec` says the same without asking which step is enabled, since between
two steps of the loop the environment has finitely many.
Without draining peers a session may wait until its idle timeout, which is the
intended back-pressure.

## 4. Proofs

`RingBufferProofs`, for every capacity, byte set and request length:

* `RingTypeCorrect`: `Spec => []TypeOK`.
* `RingPositionsAgree`: `Spec => []PositionsAgree`, inductive together with `TypeOK`.
* `RingImplementsFifo`: `Spec => FifoSpec`. Each operation is a step of
  the queue `Held(length)`; the lemmas say how `Held` changes when bytes are stored
  behind it or positions advance, for which `PositionsAgree` is needed.

`SessionTypeProofs`, for every buffer size, chunk, budget, TLS mode and script:

* `SessionTypeCorrect`: `Spec => []TypeOK`. `TypeOK` is inductive: it contains what
  the arithmetic of the code needs, `Len` of both buffers within `BufSize`, the
  position within the frame, `done <= read <= arrived`, budgets by `pc`. The proof has one lemma per
  action or group of actions; those about parsing use `ScriptAssumption` (a script
  is what some byte string looks like to the proxy).

`SessionSafetyProofs`, under the same assumptions:

* `SessionWakeups`: `Spec => []WakeupsArmed`. The invariant is `ArmedInv`: `TypeOK`,
  `InterestInv` (between callbacks `interest` is what `session_update_events` would
  set now) and `ConnectInv` (a connection attempt has a target). `InterestInv` holds
  because every way out of a callback ends in `Return` or `session_close`, and what
  moves between callbacks, the peers, is not what registrations depend on.
* `SessionClosingHasOutput`: `Spec => []ClosingHasOutput`, from `ClosingInv`, which adds what
  holds inside `session_write_client` and that a pending CLOSE implies `closing`.
* `SessionDownInOrder`: `Spec => []DownInOrder`, inductive together with `TypeOK`. A read
  appends the next numbers (`NumberedAppend`), a chunk moves from the head of
  `target_to_client` to the frame (`CutSeq`), a partial write from the
  head of the frame to the client (`UnsentCut`); a control frame is made only when the
  frame before has nothing unsent, which is where `CanMakeFrame` is needed.
* `SessionClientStream`: `Spec => []ClientStreamOk`. `wire.ok` says nothing of what
  `client_out` holds, so `StreamInv` adds `WireInv`: the frame in `client_out` is the one last
  begun on the wire, sent as far as `client_out` says. With it a new frame is begun
  only where the one before is complete. `UpgradeInv` (no frame before the 101
  response), `ClosingInv` (which CLOSE is still to be made) and `ClosedInv` (nothing is
  dispatched to a closed session) complete it.
* `SessionTargetEncrypted`: `"immediate" \notin ConnectModes => (Spec => []TargetLegEncrypted)`,
  from `LegInv`: a target leg stays plain only until its connection is complete, and
  nothing is written meanwhile. The hypothesis excludes exactly the behaviour that the
  run `tls_immediate` shows; a connect(2) to a remote host is in progress when it returns.

`SessionRelayProofs`, under the same assumptions and, where stated, `SafeSizes`:

* `SessionNoOverflow`: `Spec => []NoOverflowClose` (the property has `SafeSizes` as its own
  condition). `RoomInv` follows the room from the registration, made only below the
  high-water mark, through the batch and the read to the last frame parsed; it needs
  `InterestInv` (nothing is read that is not registered for) and that no second
  event of the client is in the batch.
* `SessionUpInOrder`: `SafeSizes => (Spec => []UpInOrder)`. `ParserInv` says where in the script
  the parser stands inside a frame, and `RoomInv` excludes the early return that drops bytes.
* `SessionImplementsRelay`: `SafeSizes => (Spec => RelaySpec)`. Every action is a read, a delivery
  or the end of one of the pipes, or a stutter. The mapping concatenates a frame's unsent
  part with the buffer behind it; `DownInOrder`, `UpInOrder` and `PipeInv` (no target bytes
  before the upgrade, a data frame is a chunk) bound and order the two queues.

`SafeSizes` relates the sizes as the defaults do (65536, 4096, 8192, 125). It is a
hypothesis, not an assumption: `faults` runs with sizes that violate it.

`StartupProofs`, for every command line, set of numbers and number of addresses:

* `StartupLifecycle`: `Spec => []Lifecycle`, the inductive invariant. `ConfigInv`: options are
  typed and a configuration that got past a check still passes it. `HeldInv`: nothing is
  acquired twice, and each `pc` has one set of things held. `CleanupInv`: `todo` contains
  all that is held, each thing behind its users. The lists of the error paths are
  concatenations; `ConcatOrdered` says when they stay in order, `WithoutHolds` what one release does.
* `StartupNothingLeft`, `StartupUsersFirst`, `StartupRunsAsConfigured` follow from it. The last one
  turns the count of sources in `validate_tls` into the one source there is (`OneSource`); it
  covers the certificate and every option of the egress leg, and claims nothing of the PFX password.

`ServerProofs`, for every finite set of clients, every limit, budget, timeout and clock:

* `ServerTypeCorrect`, `ServerFdsOwned`, `ServerConnectionLimit`, `ServerListConsistent`,
  `ServerDroppedInTime`, from one inductive invariant, `ServerInv`. `ListInv` names the sequence the
  list is (`Listing`) and, during a tick, the place of the cursor in it, with every
  session before it in time (`Ticking`). `UnlinkListing` and `LinkListing` are the heart: unlinking
  the session at place *k* with its four pointer updates leaves the list of the others.
  `OwnerInv` keeps the connections in the queue apart from open descriptors, so that a session that
  fails before it is linked is not found in the list (`CloseUnlinked`). `CountInv` counts.
  `TimeInv`: when the current wait began every session was in time; `NotTimedOut` is
  the arithmetic of whole seconds, for every length of a second, and a wait adds at most one.

`EventLoopProofs`, for every backend, every finite set of sessions and every number of addresses
that is enough for them:

* `EventLoopTableConsistent`, `EventLoopInterestAgrees`, `EventLoopPendingResolves`, from one
  inductive invariant, `LoopInv`. `TableOk` says what the table and the kernel agree on in *any*
  state between two operations, inside a callback too: sources have descriptors and addresses of
  their own (`SourcesOk`), the kernel knows no descriptor without a source and no pointer but
  that source's (`WatchOk`). One lemma per operation shows that each of its outcomes, a failure half-way
  included, keeps it: `AppendTable`, `SetEventsTable`, `SwapRemoveTable` for the table,
  `UpdateFilters` for kqueue's changes, then `AddTable`, `ModifyTable`, `RemoveTable`, `CloseTable`.
* `StateInv` ties the table to the sessions. `BatchInv` is what `PendingResolves` needs: an entry is of
  a registered descriptor or of a session that has been closed, so what is registered
  during a walk has no entry in the batch and cannot be found by one. A remove under poll moves only the
  last source, to a lower index.
* `CallocFresh`: sources and entries of the batch never use up the addresses, so the new one
  `Calloc` offers exists and is no live source's.

`WsParserProofs`, for every request, every sequence of frames, every cut and every room:

* `WsRequestExactly`, `WsDecodedExactly`, `WsRefusedExactly`, `WsRoomSuffices`,
  `WsWrittenReads`, from one inductive invariant, `WsInv`. Its heart is `FramesInv`: there is a frame *k*,
  the one after the last complete message, all before which have been accepted and
  delivered (`Before`), and the parser stands in it as its state says (`Standing`): `pos` is
  `starts[k]` and what the state has read, the fields of the parser are the fields of the frame
  as far as they have been read, the delivered part is the first `payload_offset` bytes, and
  `fragmented_opcode` is set exactly when a message is open (`Open`). One lemma per round of the
  loop moves this by a byte or a piece.
* The lemmas below it are about bytes: `FirstBytes`, `WireAt`, `FrameFacts` (what is at which
  place of the stream), `Split16`, `Split64`, `LengthRead` (reading back an extended length
  and what `finish_length` then refuses), `UnmaskedPayload` (a byte masked twice is itself, from any
  offset), `OpenNext` and `ResetStep` (what `reset_frame` remembers is `Open` of the next frame).
* Of the request: `HeaderEnds` (its empty line is found in what was received exactly when
  all of it was), `LineIs` and `StartsAre` (its lines are its tokens), `Answered` (the result of
  `build_handshake_response` on every prefix of the stream).

Assumptions: `RingAssumption`, `SizeAssumption`, `ModeAssumption`, `ScriptAssumption`,
`ServerAssumption`, `StartupAssumption`, `EventLoopAssumption` and `StreamAssumption` say only that sizes are numbers (positive where
`proxy_validate_config` demands it), modes Boolean, scripts well formed, a client's bytes those of its request and frames, the clients finitely
many and none of them the null pointer or the listener, addresses finitely many and enough. TLC evaluates them on every run.
The strengthenings were checked with TLC on the instances of the runs before they were proved.

Only model-checked: all liveness, which is out of TLAPS's reach
(`UpDelivered`, `DownDelivered` and the other properties of `live`, `SessionServed`,
`ReadyServedOrUndefined`).

## 5. Not modelled

* Comparing and trimming text in the request and on the command line, SHA-1 and
  base64 of the accept key, and logging: functions of one input that keep no state,
  covered by test vectors in `tests/`.
* OpenSSL's own state, certificates, and its rule that a write that has to be
  repeated is repeated with the same bytes. `client_out` stays where it is until it is
  sent; the chunk `session_write_target` peeks may have grown by the time of the retry
  and lies in a local buffer, whose place is the compiler's choice.
* IOCP, whose `run` dispatches nothing, Windows sockets and the TLS stub: variants
  of interfaces that are modelled.
* Name resolution and socket options, `sockify_event_loop_stop`, which has no
  caller, and the contents of memory after `free`.

## 6. Plan

Order of work; all of it is done.

1. `RingBuffer` with refinement and proofs; `Session` with safety, liveness,
   refinement and its type proof.
2. `Server`: list, limit, timeouts.
3. `EventLoop`: three backends, batches, removal from within a callback.
4. `WsHandshake` and `WsParser`, byte by byte against the framing rules of RFC 6455.
5. `Startup`: command line, validation, unwinding.
6. Proofs: every safety property of `Session`, its refinement of `ByteRelay`, and every
   safety property of `Startup` and `Server`.
7. Proofs about `EventLoop`: `TableConsistent` from lemmas about what add, modify and remove
   of each backend do to the table, then `InterestAgrees` and `PendingResolves`.
8. Proofs about `WsParser`: all its properties, from where in the client's frames the parser stands.
