# SonicWS in TLA+

SonicWS is a schema-driven WebSocket library. A server declares two packet
tables (client to server, server to client), sends them to every client in a
schema handshake, and from then on both ends exchange frames of one key byte and
an encoded payload. The repository holds a TypeScript runtime, a Python and a
Rust one that speak the same protocol, a codec core in Rust, and two TypeScript
adapters that carry room broadcasts between server processes.

This directory models the TypeScript runtime, its adapters, the codec core, and the
recovery of the Python runtime: the parts whose correctness depends on the order of things (awaits, callbacks,
timers, sockets that close at the wrong moment), and the way of a value from a
packet's declaration to the listener at the other end.

## Inventory

Sources are under `src/projects/`; `ts` stands for `ts/src/ws`.

| Component | State it keeps | Operations | What makes it correct | What is hard |
|---|---|---|---|---|
| Inbound pipeline of a server connection (`ts/server/SonicWSConnection.ts`) | a lock and a queue per lane, last received value per packet, handshake flag, enabled packets | message, five awaits of `messageHandler`, release, close, handshake timer, enable/disable | one frame's listeners at a time per lane, arrival order, an empty payload means the last value, nothing after close, no lane left locked | every await is an interleaving point; batches, middleware, invalid data and closes meet in the release |
| Send path (`ts/util/packets/PacketUtils.ts`, `send` of both ends) | send lock and queue, last sent hash per packet | `send`, `processPacket`, `handleQueue`, `send_processed` | one encoder at a time, call order on the wire, peer reads what was sent, every call settles | failures and cancellations after state was recorded |
| Server lifecycle (`ts/server/SonicWSServer.ts`) | id pool, connections, tag indexes, recovery sessions with expiry timers | connection, reject, admit, close, tag/join/leave, resume, shutdown, expiry | unique ids, members are connected, a session belongs to one client and expires when it is gone | close during an awaited hook, resume before the close is noticed, timers of earlier closes |
| Recovery replay (server `replayFrame`/`resumeSession`, client `ClientCore.ts`) | sequence numbers, bounded frame buffer, last sequence seen | replay, resume, resumed, reconnect | no missed or repeated replayable frame | new-session sequence numbers before RESUMED, frames in flight |
| Client core (`ts/client/core/ClientCore.ts`) | reading flag, read queue, lanes, reconnect timer, session id | schema handshake, message, reconnect, close | listeners as on the server, reconnect keeps one transport | listener exceptions, close during a backoff |
| RPC (control frames of both ends) | pending requests with timers, responders | request, respond, response, timeout, close | a request settles exactly once | a late answer, a close between the two |
| Batching, rate limits, heartbeat, user timers | interval per packet, counters per second, last activity | batch, flush, trigger, ping, timeout | all of a batch sent once, limits enforced per second, silent peers closed | timers that outlive what they serve |
| Broadcasts and adapters (`SonicWSServer.ts`, `adapters-ts`) | recipients, adapter subscriptions | broadcast, filtered, room, receive, publish, close | a recipient gets each broadcast once | recipients change during awaits, start/close races |
| Packet tables (`PacketUtils.ts`, `Packets.ts`, `PacketHolder.ts`, `SchemaValidation.ts`, `VariantPermutation.ts`, `EnumHandler.ts`) | the table of a server, the client's copy, the registry of enum packages | create packets, enum packets, objects and groups; hold, serialize, deserialize; resolve and expand permutations | both ends have the same schema; a selection is sent as its variant | defaults and clamps, tables a client cannot read, packages known from elsewhere |
| Quantization and record mapping (`Packets.ts`, `PacketUtils.ts`, `HashUtil.ts`) | residual and last hash per packet and connection | `processPacket`, `prepareSend`, `finishReceive`, `listen` | a listener gets what was sent; the error of a sum stays bounded | refused sends move the residual; equal hashes of different values |
| Python acceptance, sessions, recovery, reconnect (`py/src/sonic_ws/server.py`, `client.py`) | stage of each connection's task, sessions with deadlines, tags; the reader task's phase and counters | accept, admit, serve, resume, replay, remove, expire; reconnect, close | as TypeScript | tasks interleave at other points: admission, policy, replay and removal all await |
| Python packets, batches, RPC, dispatch | as TypeScript, with asyncio locks | as TypeScript | as TypeScript | not modelled |
| Rust runtime (`rust/src`) | connection and server state behind mutexes, registry | accept, serve, recv, send, rooms, resume, reconnect | as TypeScript | lock-step races between the server's maps |
| Codec core (`core/src`) | none | varint, zigzag, deltas, ranges, batches, records, validation | decode undoes encode, hostile lengths refused | boundaries of widths and counts |
| Native wrapper (`ts/src/native/wrapper.ts`, `core/src/ffi/wasm.rs`) | none | encode, decode, validate of values, objects and batches | what the core is called with means what the caller meant | number conversions at the boundary, enum packages of an object's columns |
| Debug dashboards, CLI, schema files, browser loader, C and Python bindings | none that matters here | | | not modelled: I/O, presentation, glue |

Interaction: the server's `connection` event creates a session and a connection
object, whose pipeline calls the application's listeners; listeners call `send`,
`join`, `request` on connection objects; the close event runs the pipeline's, the
connection's and the server's handlers; a client that lost its socket opens a
new one and presents its old session over a control frame.

## Modules

| Module | Models |
|---|---|
| `PacketPipeline` | the inbound pipeline of one TypeScript server connection |
| `SerialListeners` | what a lane promises: a first-in first-out server, one frame at a time |
| `MCPacketPipeline` | instance for TLC and payloads |
| `PacketPipelineProofs` | inductive invariants and theorems of the pipeline, and that it implements `SerialListeners` |
| `SendQueue` | the outgoing half of a TypeScript connection, client or server |
| `SendQueueProofs` | inductive invariants and theorems of the send path |
| `ServerLifecycle` | acceptance, ids, rooms, recovery sessions of a TypeScript server |
| `ServerLifecycleProofs` | inductive invariant and theorems of sessions, rooms and tags |
| `SessionRecovery` | one TypeScript client across reconnects, with the frames its server keeps and replays |
| `SessionRecoveryProofs` | inductive invariant and theorems of replay, order and the client's lane |
| `PythonRecovery` | one Python client across reconnects and the tasks of its server's connections |
| `PythonRecoveryProofs` | inductive invariants of both ends: the ownership of sessions, the order of delivery, the completeness of a replay |
| `Requests` | `request` and `respond` of both TypeScript ends over the transports of a reconnecting client |
| `RequestsProofs` | inductive invariant and theorems of RPC |
| `ConnectionTimers` | heartbeat, rate windows, batch intervals and application timeouts of one server connection, in discrete time |
| `ConnectionTimersProofs` | inductive invariant and theorems of the timers |
| `Broadcast`, `MCBroadcast` | broadcasts of every kind while connections come, go, join and leave; batches and the adapter |
| `BroadcastProofs` | inductive invariant and theorems of broadcasts |
| `Adapter` | start, publish, receive and close of the Redis and Postgres adapters |
| `PacketSchema` | packet declarations, tables, groups, enum packages, negotiation (operators) |
| `Quantization` | application values to wire numbers and back, records and rows (operators) |
| `Codec` | the codec core: encode, validate and decode a payload of any kind (operators) |
| `NativeWrapper` | how the TypeScript runtime calls the core, and its own encoders (operators) |
| `PacketCodec` | `processPacket`, `validate`, `listen`, `unravelBatch`: the modules above put together (operators) |
| `Payload`, `MCPayload` | the state machine over them: declare, connect, send, damage, receive; tables and inputs for TLC |

### PacketPipeline

A frame is named by its arrival number, and `stage[n]` is the await at which the
`messageHandler` call of that frame is suspended: `queued` (in `packetQueue`),
`pre` (`onReceive_pre`), `decode` (`packet.listen` or `unravelBatch`), `listen`
(inside `listenPacket`), `post` (`onReceive_post`), then `done`, `cancelled`
(middleware), `invalid` (the handler returned without releasing its lane) or
`abandoned` (`deliverPacket` found the connection closed). `listenLock[l]` and
`packetQueue[l]` are the fields of the same name and the entries of `asyncData`.
Everything the code does between two awaits is one action: releasing a lane
includes shifting the queue and running the next frame's handler up to its own
first await, because JavaScript runs it so.

`listenPacket` awaits one listener after the other: `calls[n]` counts those called
for the value at hand, and `Listeners` says how many a packet has. `Deliver` looks at
`closed` and calls the first one; `NextListener` calls the others, at which nobody looks
at `closed` again. So `NoDeliveryAfterClose` is about values handed over; TLC refutes the
same of single calls (`closed => UNCHANGED calls`), with a connection that closes while
the first of two listeners runs.

What an empty payload stands for is what its sender sent before it (`StandsFor`),
whatever became of that frame here. A frame that `onReceive_pre` cancels is not recorded
in `lastReceived`, so `RereferenceFaithful` excepts empty payloads that repeat such a
frame: after the values 1, 2 (cancelled) and an empty payload, listeners get 1 where the
sender repeated 2. TLC refutes the property without the exception.

A payload is, in this module, the sequence of values it decodes to, `Invalid` standing for a value
that validation refuses. `parseData`'s refusals (size, key, rate, disabled) all
close the socket and are one action, `RejectFrame`. The packet named by
`requireHandshake`, if any, is a variable fixed in the initial state.

The refinement mapping is at the end of the module. Seen from outside, what waits on
a lane is the frame whose handler holds the lock and has not begun to listen, with
`packetQueue` behind it, and what is served is the frame whose listeners run; locks,
awaits and payloads are out of sight. `ImplementsSerialListeners` says that each lane
no batched packet uses is then a `SerialListeners`.

Definitions introduced as faulty variants, here and in the other modules, are
plausible mistakes in the definition that follows them. They are not part of any
specification; each of them, put in the place of the definition it varies, makes
one property fail.

### SendQueue

A call of `send()` is suspended in `onSend_pre` (`pre`), in the queue
(`waiting`), in the encoder (`encode`), on its way back from it (`returned`) or in
`onSend_post` (`post`). `role`
chooses between `ClientCore.send`, which writes before `onSend_post`, and
`SonicWSConnection.send`, which writes after it. `wire` is the sequence of calls
whose frame was given to the socket, and `Received` is what a peer that follows
the re-reference rule makes of it.

`EncodeThenReturn` passes the queue on, or unlocks it, as soon as a call is encoded; the
call writes only when its promise has come back (`ReturnThenWrite`, `ReturnThenPost`).
Promises take a fixed number of ticks, more for a call that waited than for one that found
the queue free, so `ReturnsInTurn` lets the second kind go ahead of the first and
keeps all others in their order. How many ticks apart they are is not counted: a direct
call may overtake whenever the queue it found was unlocked before the write. `WireInOrder` and
`PeerReadsWhatWasSent` except such calls (`Overtakes`). TLC refutes both without the exception:
an empty payload is written before the full one it repeats.

### ServerLifecycle

One action per callback: the `connection` event up to the await of
`onClientConnect`, its two outcomes, the close event with and without a
registered handler, the expiry timer a close arms, tag/join/leave, the RESUME
frame with a synchronous or an awaited policy, shutdown, and the clock. A
session is named by the connection that created it. `delays` is the schedule of a
behaviour, chosen at the start from `Schedules`: whether `onClientConnect` or the
policy may outlast the next event, whether a client may be back before its loss is
noticed, whether the application tags closed connections, and whether an `on_connect`
listener may throw in an application that survives it. The properties name
the delays under which they do not hold. With a policy that is awaited, or a loss
noticed late, two connections can end up with one session, and the close of one
starts the expiry of the other's: TLC refutes `LiveSessionKept`, `RoomsRestored`
(a third connection for the policy) and `SessionsExpire` there. A policy that
consents after its connection closed, or after the session expired, leaves a
session nobody gives up (`NoSessionLeak`), or brings one back.
The close handler is registered last (`handled`), after the awaited
`onClientConnect` and the `on_connect` listeners, so a socket that closes during the
await, or after a listener threw, is admitted for good: it stays in `connections`, and
its session, which no close gives a deadline, is never deleted. `NoSessionLeak`
excepts the sessions of such connections under those schedules (`Missed`), and TLC
refutes it without the exception. After a throw, the client can resume that session while the
dead connection still has it, and its rooms were never recorded.

### SessionRecovery

Composes both ends of recovery over one socket at a time. Connections are
numbered; a session is named by the connection that created it, so "which
session does the client think it has" is a number (`ClientCore.sessionId`). The
server keeps the last `MaxPackets` frames of a session; the client keeps the
sequence number it acknowledges, the serial lane's lock and queue, and the phase
of its reconnect (`connecting`, `ready`, `waiting` for the backoff timer, and
`failed`, `ended`, `broken`). A transport that closes may lose any suffix of what
is under way. `odd` remembers the three circumstances under which the code gives
less than complete replay, and `ReplayComplete` is stated outside them: a
replayable frame sent on the new session before the old one is resumed, a
transport that is lost before RESUMED, and a send on a connection whose session
was taken over. TLC refutes the property without any one of the three.
`ScheduleReconnect` runs the `on_reconnecting` listeners before it arms its timer; one of
them may call `close()`, which finds nothing to clear (`lateTimer`). `ExplicitCloseFinal`
excepts that close; without the exception TLC shows the reconnect that follows it.
`resumeSession` filters the buffer by sequence number; as a buffer is numbered
without gaps, `Missing` is its suffix from the first frame beyond the number.

### PythonRecovery

`stage[c]` is the await of `_accept`, `run`, `resume_session` or `run`'s finally block
at which the task of connection `c` is suspended: `admitting` (`onClientConnect`),
`greeting` (connect listeners), `serving` (the read loop), `authorizing` (the policy),
`replaying` (between two frames of the replay), `closing` (the close hooks), then
`gone`, or `leaked` when a listener or the handshake raised and `_remove` never ran.
The phases of the client are those of `_run`: `handshake`, `reading`, `backoff`,
`ended`, and `broken` when a listener raised outside its try blocks. An exception in a
listener leaves the old socket open, so the server may still serve the connection the
client has given up. Deadlines are abstract: a session that has one may expire at
any time. `odd` lists, besides the three circumstances of `SessionRecovery`, a frame
that is sent between two frames of a replay (`overtaken`) and a connection that gives
up a session it no longer has (`staleOwner`). `max_packets` may be 0 (`server.py:442`):
then `del frames[:-0]` deletes nothing and the buffer has no bound (`Fits`).

### Requests

A call of `request()` is a number; the record that waits for it is
`pendingRequests[end][id]`, where ids go round after `IdLimit` (2^31 - 1 in the
code). Control frames travel in order on one transport and are lost with it; the
client's pending requests and its running responders outlive the transport, the
server's connection object does not. `answer[c]` is the call whose response
settled call `c`. A responder of the client that outlives its transport answers on
the next one, where the server's ids start from 1 again, so its response may
settle another call (`ClientCore.ts:547`): `OwnAnswerOnce` excepts this case only, and
TLC refutes it without the exception.

`request()` encodes through the send queue of its end, like `send()`. `locked` and `waiting` are
that queue, and `Encode` passes it on before the call has its id and its timer (`Issue`). A
refused packet, of a request (`Refuse`) or of a `send()` (`SendRefused`), leaves the queue
locked: the end is `stuck`, calls behind it stay `queued`, and one that was refused after it
had waited is `hung`. No timer exists yet for either, so nothing settles them, and
`EveryCallSettles` excepts exactly these. The queue holds no call of `send()` that succeeds, as
it only delays the others; that a `send()` is refused is bounded to once, before the first
call of `request()`, as later ones add nothing that `Refuse` does not show.

### ConnectionTimers

Time is a counter up to `Horizon`, and a timer is the instant at which it is due;
`Tick` waits for due timers. A heartbeat timer keeps the probe it belongs to, as
the closure does, and timers of earlier probes keep running. `rates` is the
counter of one packet, and `recent[k]` the messages handled in this instant and the
`k` before it.
Batched packets are the instants they were handed over; a flush deletes the
record of its interval without clearing the interval.

The heartbeat starts with the connection, but the handler that stops it is registered after
`onClientConnect` was awaited (`handler`): a connection that was rejected, closed before that, or met a
connect listener that threw, keeps its interval for ever, which then finds no open socket and does nothing. `setTimeout`
does not look at `closed` either. `outlives` records both, and `EndsWithConnection` excepts
what it records and the batch intervals a send on the closed connection starts.

### Broadcast

A cast is one run of `broadcastInternal`, suspended in its first hook, in the
server-wide send queue, in the encoder or in its second hook. A broadcast to all
keeps the live array of connections, the others a snapshot, as the code does.
`Deliver` is the loop over the recipients in one step: rate limits skip a
recipient, an overflow ends the loop. The arrays of connections are sets, as their
order shows only in who came before the overflow: anybody may have. Packets that are batched wait in the
recipient's batch until `Flush`. The other servers of the adapter appear through
`Publish`, `ReceiveOwn` and `ReceiveOther`.

### Adapter

One variable chooses between the two adapters, whose methods differ in what they
await. A database client is `connecting`, `connected`, `failed` or `ended`; the
library may reject a connect or lose a connection at any time. `ClientsEnded` is
stated outside one case: when the connect of one client was rejected, the other,
whose connect succeeds later, is ended by nobody.

### Payload and the modules under it

`PacketSchema`, `Quantization`, `Codec`, `NativeWrapper` and `PacketCodec` are
functions of their arguments: operations that may throw return a set, empty for
an exception. A packet is a record of the fields of the class, with its types and
limits as sequences. `Payload` takes a table through the constructor of a server
(`Declare`), the schema handshake with a client that may know enum packages
already (`Connect`), and lets one packet be sent either way (`Send`, `Receive`),
between TypeScript runtimes and runtimes built on the core alone, for several
messages if it has a memory. `Damage` is a client that does not follow the schema:
it cuts the payload, changes a byte or appends one.

Widths are constants: `GroupBits` 7, `IntBits` 32 and `WordBits` 64 in the code.
Quantized values are counted in quarters (`Unit`), and scales divide the unit, so
that the model's arithmetic is exact where the code rounds doubles. Deflate is
taken to be lossless; the bound on inflated data is modelled. A decoded word becomes a
JavaScript number (`core/src/ffi/wasm.rs:205`), exact up to `NumberBits`, 53 in the code, and
rounded beyond (`AsNumber`): a runtime on the core alone can send such a word as UVARINT, and `RoundTrip`
lets it arrive rounded (`Inexact`). RAW is one value to `finishReceive` (`AsList`). FLOATS, DOUBLES,
HEX and JSON, custom validators, record constructors and `enabled` are left out.

`Legal` says which items a schema allows, and the properties about payloads are
stated for them. It excludes what no kind carries (differences of DELTAS that do
not fit 32 bits wrap, `core/src/codec/encode.rs:114`), and values whose rounding,
up or down, leaves the bounds of the packet, and a table of no rows for an object without
schema, which has no columns to send (`LegalShape`). `Excepted` lists what the code is
known not to keep: an empty STRINGS_ASCII payload, which goes out without the
count that the validator wants; booleans in rows, which are padded to whole
columns; re-referenced packets with batching, and values of equal hashes.

## Runs

| Run | Shows | Bounds, and why they suffice |
|---|---|---|
| `pipeline` | ordered, serialised lanes (a refinement of `SerialListeners`); re-references; handshake order; silence after close; every accepted frame settles | 3 frames: one running, two queued, is the first case in which a queue can be served in the wrong order; 3 packets: plain and re-referenced on one lane, batched on another |
| `send` | one encoder; wire order; the peer reads what was sent; calls settle until one is refused | 3 calls: one encoding, two waiting, or one that overtakes the other two; 2 packets |
| `lifecycle` | live sessions kept; no leak; rooms restored; sessions expire; the two tag indexes agree | prompt: 3 connections (a client that resumes twice), expiry after 1 tick, 3 ticks of clock; 4 schedules with delays: 2 connections, 2 rooms, 2 ticks |
| `lifecycle_ids` | counterexample to unique ids | 4 connections, the fewest that show it |
| `recovery` | what replay delivers, in which order, and what a reconnect may lose; locks have an owner; an explicit close is final | 3 connections (a client that reconnects twice, the second time as a resumed one), 3 frames against a buffer of 2, one retry |
| `recovery_retry` | counterexample: a reconnect that fails before the handshake is not tried again | 2 connections, 2 attempts |
| `python` | what replay delivers and in which order when the server awaits between its steps; whose a session is and when it expires; every backoff ends | 2 connections (a predecessor and its successor), 3 frames against a buffer of 2, one retry |
| `requests` | a call is settled once, by its own response, and every call ends that is not behind a locked queue | 2 calls (a response can meet another call), 2 transports (a response can cross a reconnect), ids that go round after 2 |
| `timers` | a silent peer is closed and no other; no window accepts more than twice the limit; what runs after the end | heartbeats every 2 instants with a timeout of 3, so that probes overlap; windows of 3, batches of 2; 3 intervals; 10 instants cover three probes, three windows and a close after each |
| `broadcast` | at most once per broadcast; one order on all connections; only the audience; all or nobody, but for limits | 2 broadcasts, which can overlap, over 2 connections that come and go (symmetric) |
| `adapter` | clients are ended; silence after close; every call ends | 2 messages, 2 clients, both adapters |
| `payload` | what is sent is delivered; what is legal is accepted; what is accepted decodes in bounds; rounding does not accumulate; tables and permutations agree | groups of 2 bits, integers of 6, words of 7, bytes up to 7: the last group of a varint is narrower than the others, as in the code; values on both sides of each boundary; tables with every kind, objects, batches of up to 3 against a limit of 2, quantized and re-referenced packets for 3 messages, a group with opposites, clamped settings and 10 tables that are refused; 4 registries; one byte damaged; numbers exact up to 6 bits, so that the largest words are rounded |

The types of the variables are stated as `TypeOK` in each state machine but
`Payload`; TLC finds them true in all of these instances, they are proved for all
machines, and they are not listed as properties of the runs.
`pipeline`, `send`, `lifecycle`, `recovery_retry`, `python`, `requests` and `adapter`
check liveness.
Deadlock is not checked: every instance is bounded, and stops when its frames,
calls, connections or instants are used up.

### Fairness

`PacketPipeline` and `SendQueue` assume weak fairness of every suspended handler
or call: the event loop resumes a promise whose awaited work settled, and
middleware, listeners and encoders are assumed to settle (a listener that never
returns does hold its lane for ever). `ServerLifecycle` assumes that time passes,
that due timers fire, and that the hooks settle. `FairSpec` of `SessionRecovery`
assumes it of frames under way, of the client's timers and of listeners.
`PythonRecovery` assumes it of admission, of messages that arrived, of the
end of a socket (the library's pings find it) and of the client's delays.
`Requests` assumes that an encoder ends, that a promise which is settled comes back, and that
timers fire; a call behind a locked queue need not go on, and frames may be lost and responders need not answer. `ConnectionTimers` needs no fairness: that a
silent peer is closed is an invariant of bounded time, as the clock waits for due
timers.
`Adapter` assumes that the promises of the database libraries settle, one way or
the other. Frames, calls, closes and cancellations are never forced.

### What the code does otherwise

Two statements of the documentation are refuted by a run:

- `UniqueIds` (docs/ts/server.md:37): two connected sockets share an id.
- `RetriesUntilExhausted` of `SessionRecovery` (docs/ts/client.md:7): a reconnect that
  fails before the schema is the last.

Five more are excepted by name in the property that is checked, and TLC refutes each of
these without its exception:

- docs/ts/client.md:7 says that an explicit `close()` never reconnects. One that an
  `on_reconnecting` listener calls does not stop that attempt (`ClientCore.ts:204`,
  `ExplicitCloseFinal`).
- README.md:50 says that no function is called after the close. The listeners of a packet
  after the first are called on a connection that closed meanwhile (`PacketUtils.ts:367`,
  `NoDeliveryAfterClose`).
- docs/ts/packets.md:35 says that an empty payload repeats a value. After a cancelled frame it
  is delivered as another value than the one its sender repeated (`SonicWSConnection.ts:385`,
  `RereferenceFaithful`).
- The same line: a direct call that overtakes a queued one has its empty payload read as an older
  value (`PacketUtils.ts:341`, `PeerReadsWhatWasSent`).
- docs/ts/server.md:7 says how long a disconnected session is kept. A socket that closes while
  `onClientConnect` is awaited leaves one that never expires, and stays among the connected
  ones (`SonicWSServer.ts:389`, `NoSessionLeak`).

Others need no search to see, and the property that is checked says what remains:

- README.md:49 promises that callbacks never overlap. Inside the loop over a
  batch the lane is locked again after every sector although the head of its
  queue was started (`SonicWSConnection.ts:421`). `ImplementsSerialListeners`
  holds for the lanes no batched packet uses.
- A send that is refused by `prepareSend`, a size check or the encoder leaves the
  queue of its connection locked (`PacketUtils.ts:333`): later sends and requests never
  settle. `SettlesUntilFailure` holds.
- docs/ts/client.md:25 says that timers are cancelled at close. One that is set on a closed
  connection runs (`Connection.ts:164`), and the close listener of a client's second transport
  clears none (`Connection.ts:156`; the client's timers are not modelled).
- docs/ts/packets.md:136 says that quantized values are divided after decoding
  and that bounds are inclusive. Without a schema the wire numbers are delivered
  (`Packets.ts:388`), and a value at its bound may be rounded past it.
- docs/ts/middleware.md:21 says that the recipients of a broadcast are known
  before the hooks; `broadcast` to all keeps the live array
  (`SonicWSServer.ts:689`).
- In Python, `_remove` finds the session by name (`server.py:578`). If the client
  resumed before its old connection was removed, the session in use gets a deadline,
  after which its frames are neither numbered nor retained (docs/protocol.md:110),
  and the rooms, which are recorded on removal, are not restored
  (docs/py/server.md:40). `SessionFollowsOwner` holds for other histories.
- In Python, a connection is broadcast to while `onClientConnect` is awaited
  (`server.py:525`), so the schema need not be the first message
  (docs/protocol.md:9); the client then gives up the transport (`RefuseTransport`).
  `close()` during the backoff does not stop the next connect (`client.py:131`),
  while docs/py/client.md:9 says that the reader task ends with it.
- A quantized or re-referenced value goes out as a repetition if only its fractions
  or the places where its strings end differ (`HashUtil.ts:31`).
- A listener of a variant's parent runs outside the try block
  (`SonicWSConnection.ts:327`): its exception leaves the lane locked.

The hazards list of `PROJECT.json` names further places where the models only
guarantee a weaker form, with the condition written in the property: a handshake
frame that is refused or cancelled opens the gate all the same
(`HandshakeFirstInLane`), a frame cancelled by `onSend_post` stays recorded as
sent (`PeerReadsWhatWasSent`), a batch of no sectors never releases its lane
(`EveryFrameSettles`), and an awaited policy may leave a session to nobody
(`NoSessionLeak`).

## Proofs

A theorem holds for every value of the constants: any tables, traffic and number
of frames, calls, connections or messages. Each proof module rests on the named
assumption of the module it is about and on nothing else; where a theorem has a
condition, its statement names it. TLC checked each inductive invariant on small
instances first. A leaf that takes the provers long names the one that finds it and the
time it may take. In every proof the step that preserves the invariant has a lemma
per action, or per group of actions that touch the same state alike.

### Pipeline

`PacketPipelineProofs`, from `PipelineAssumption`:

- `TypeCorrect`: `Spec => []TypeOK`;
- `ListenersSerialized`: `Spec => []SerialLaneListeners`;
- `QueuesOrdered`: `Spec => []QueueBehindLock`;
- `SilentAfterClose`: `Spec => NoDeliveryAfterClose`, which is about the values handed to
  listeners, not about the listeners that are left of one;
- `RereferencesFaithful`: `Spec => [](SerialRereferences => RereferenceFaithful)`;
- `HandshakeGoesFirst`: `Spec => []HandshakeFirstInLane`.

None of the first three is inductive alone. Serialised listeners need that at
most one handler of the lane is anywhere between its first await and its release
(`OneRunning`) and that this handler holds the lock (`LaneHeld`), or else an
arriving frame could start beside it. Releasing a lane starts the head of its
queue, so the head must be a frame that is queued and on this lane
(`QueueBehindLock`), and strictly increasing queues make it leave exactly once.
Only batches lock a lane again while another frame runs, so results are left over
on batched packets only (`RestOnlyBatched`). The history's types need that a
decoded frame has a payload (`DecodingHasPayload`). `IInv` is the conjunction. A
step touches the lanes in four ways, each a lemma: a frame arrives
(`HandlePreserves`), a handler moves on (`MovePreserves`), the head of a queue is
started (`StartHeadPreserves`), a lane is released (`ReleasePreserves`).

The two theorems about contents need a second invariant, `ContentInv`. On a lane
without batches a frame begins only when all earlier frames of the lane are over
(`Passed`); so, until the close, `lastReceived` of a packet is what its latest decoded
frame carried (`LastInv`), which is the last frame the sender sent before, unless that one was
cancelled, and a re-reference, whose own handler begins after that
frame is over, reads that value. `SerialRereferences` says that no batched packet
shares the lane of a re-referenced one. The condition is needed: with the batched
packet of the `pipeline` run on that lane, TLC refutes `RereferenceFaithful`,
because frames then overlap (`SonicWSConnection.ts:421`). The instance of the run meets
it. Where a handshake is required, the gate opens when the handshake packet
arrives, and that is the first frame of all (`FirstIsHandshake`); by `Passed` nothing
of its lane starts before it is over.

The refinement is `PipelineServes`, `Spec =>
ImplementsSerialListeners`: under the mapping of `PacketPipeline`, initial states
map to initial states, and each action of the pipeline maps, on every lane, to
an arrival, a start, an end or a drop of `SerialListeners`, or to a stutter. The step
that carries the proof is a release: it ends one frame and starts the handler of
the next in a single step, which outside is an end only, as the next frame still
waits until its listeners begin.

### Send path

`SendQueueProofs`, from `SendAssumption`:

- `TypeCorrect`: `Spec => []TypeOK`;
- `EncoderAlone`: `Spec => []OneEncoder`;
- `NobodyForgotten`: `Spec => []WaitingBehindLock`;
- `SentInOrder`: `Spec => [](InOrder => WireInOrder)`;
- `PeerUnderstands`: `Spec => []PeerReadsWhatWasSent`.

`OneEncoder` is not inductive: a call that takes the queue would be a second
encoder unless the first one holds the lock (`EncoderHoldsLock`), and a hand-over
starts the head of the queue, which must be a call that waits
(`WaitingBehindLock`). Enqueueing, taking and handing over are a lemma each;
every other step moves a call between stages the queue does not care about.

`InOrder` says that the connection is a client's, which writes before `onSend_post`,
or that the hooks of a server connection do not overtake each other. The order of the
wire follows in three parts: calls are encoded in the order they entered, since
those encoded come before the one that encodes and that one before those that wait
(`EntryOrder`); their promises come back in that order, or a direct call goes ahead of one that
waited (`ReturnOrder`); and frames are written in the order the promises came back (`WireOrder`).
What the
peer reads needs the contents as well: an empty payload repeats the last full one
of its packet among the encoded calls (`RepeatInv`), `lastSent` may run ahead of
them only for a call that encodes or was refused, and a refused call leaves
the queue locked, so that nothing is ever encoded against the values it left there
(`StuckInv`). Where no call overtook another and `onSend_post` stopped none, which are the
exceptions of the property, the frames on the wire are the first ones of the calls that entered
and were encoded, so the peer has every frame an empty payload may refer to.

### Server lifecycle

`ServerLifecycleProofs`: `TypeCorrect`, `IndexesAgree` (`TagIndexesAgree`), `NothingLeaks`
(`NoSessionLeak`), `SessionsLive` (`LiveSessionKept`) and `ResumeRestoresRooms`
(`RoomsRestored`). The types need that ids stay in range (`IdsInRange`); the
sessions need to know which connection can have which session (`Origins`): its own until it
resumes, and then that of a known connection. Where no middleware takes its time and no
listener throws, every connection that uses a session has its close still to come
(`NoneMissed`), which is what `NoSessionLeak` asks of an owner. While policies and the
notice of losses are `Prompt` and listeners do not throw, a connection that is let in
has its handler (`HandlerKept`), no two live connections share a session (`OneOwner`), so the
close of one cannot start the expiry of another's (`OwnerKeeps`), and the rooms of a client
are either those of its connection or recorded in its session (`RoomsKept`).

### Recovery

`SessionRecoveryProofs`, from `RecoveryAssumption`: `TypeCorrect`, `LaneReleased`
(`LockHasHandler`), `ReconnectKeepsFrames` (`DropsOnlyWhenBusy`), `CloseIsFinal`
(`ExplicitCloseFinal`), `OrderKept` (`DeliveredInOrder`) and `NothingMissed`
(`ReplayComplete`). The last two are the heart of it.

- Order: the frames delivered, decoding, queued and under way are in the order of
  their sequence numbers per session (`LaneOrder`), and the client's counter is at
  least the number of every frame of the session it counts, while none of the other session is there
  yet (`CounterInv`). Both are relative to the phase of the handshake: what the
  inbox may hold before the schema, before RESUMED and after it (`HandshakeInv`),
  and which sessions exist at all (`NumberInv`).
- Completeness: every retained frame that the client has not counted is on the
  wire or will be asked for with all that follow it (`Complete`). This needs that only
  the client's transport asks, and has sent nothing of its own meanwhile
  (`Asking`), that frames under way ascend (`Ascending`), and that a buffer is
  numbered without gaps (`BufferInv`), so that the filter of `resumeSession`
  returns a suffix.

`PythonRecoveryProofs`, from `PythonRecoveryAssumption`: `TypeCorrect`,
`OwnersKeepSessions` (`SessionFollowsOwner`), `InOrder` (`DeliveredInOrder`) and
`NothingMissed` (`ReplayComplete`). The property of owners is inductive relative to
`TakeoverInv`: a connection has the session it was created with or, once it resumed, an
older one whose connection had got as far as the schema handshake. So a rejected
connection, which had not, takes no session from anybody; a connection that is removed
without being superseded is the last holder of its session; and the session that a
resume drops is its connection's own, which no later one has taken unless it was superseded
(then `staleOwner` is recorded). `TakeoverInv` needs what the client may
ask for, which is only a session whose schema it received, on a link that is
the newest connection (`ClientInv`).

Order and completeness are proved over the steps as the delivery of frames sees them
(`Steps`): a step is quiet, or a task greets, refuses, replays, answers, sends or
resumes, or the client accepts, loses or reads something. Both turn on one question, whose
frames the client's single counter judges: `Counted` is the session it asked back, else its
own, else the one it is about to be given.

- Order (`OrderInv`). The link has either its own session or the counted one, and its
  resume is seen alike from both ends (`LinkInv`); RESUMED is sent once, after all
  else of the resume (`AnswerInv`). So, without an early send, every frame that
  arrives is of the counted session, and a session whose number the client does not know yet has sent
  nothing (`CountingInv`). The counter is beyond all that was delivered of the
  client's sessions (`CounterInv`), which the client's check turns into
  `DeliveredInOrder`. What is left of a replay ascends (`TodoInv`), and what is
  under way has a number that was given out (`GivenInv`).
- Completeness (`ReplayInv`). The counter does not run ahead of the counted session, and a
  resume asks with it (`PlainInv`). What the buffer retains up to the counter was delivered
  (`CountedInv`): no frame arrives before one the client still lacks (`NoGapInv`),
  so the counter never steps over one. What the buffer retains beyond the counter is, on an
  open socket that has the session, in the inbox or in what is left of the replay
  (`UnderWayInv`). The four hold together only: a send must not pass a
  replay (`overtaken`) nor go out on a connection that lost the session (`staleSend`). A
  closed client counts without delivering; but before its end only `close()` closes it
  (`ClosedInv`), and it gets another transport after that only if it was closed during a
  backoff, when there was nothing to count.

### RPC

`RequestsProofs`, from `RequestsAssumption`: `TypeCorrect`, `OneSettles` and
`AnswersAreOwn` (`OwnAnswerOnce`). The queue of an end holds calls that wait, each once and in one
queue only (`QueueInv`), so passing it on disturbs no call that has a record. A record of `pendingRequests` and a timer belong
together, and a call has one timer (`TimersPaired`); a call is settled by whoever
removes both, which is why response and timeout cannot both do it (`SettledBefore`).
That the response is the call's own needs that an id under way stands for one call of its
end (`IdsFresh`), and is proved under `MaxCalls <= IdLimit`: ids go round after
2^31 - 1 (`ClientCore.ts:638`), and a call whose record is still there when its id
comes round again would be mixed up with the next. `OneSettles` needs no such
condition; the `requests` run meets it.

### Broadcasts

`BroadcastProofs`, from `BroadcastAssumption` (there are casts, and the name for sparing
nobody is no connection): `TypeCorrect`, `SentOnce`
(`OncePerBroadcast`), `OneOrder` (`SameOrder`) and `AudienceExact`
(`ExactlyTheAudience`). A connection's line is its wire followed by its batch, as a flush
sends one after the other. What is on a line was put there by a cast that is past its loop
(`LineInv`), so a cast that comes to its loop is on no line, and appends itself to the lines of all
its recipients in one step: in front of the batch if it is not batched, behind it if it
is. So two lines agree on the order of any two casts of one kind (`OrderInv`), and not on a
batched and an unbatched one. The audience needs that a snapshot holds beside
it only connections that were closing already, which never open again
(`CastInv`), and that the live array has everybody who is open (`ConnInv`).

### Adapters

In `ServerLifecycleProofs`, as the server owns and closes its adapter: `AdapterTypeCorrect` and
`CloseEndsClients` (`ClientsEnded`). When a start
has given up, whatever is still connecting does so beside a failed client
(`StartInv`), and a close that goes on finds the start settled or has left nothing that could
connect (`CloseInv`).

### Timers

`ConnectionTimersProofs`, from `TimersAssumption`: `TypeCorrect`, `SilenceNoticed`
(`DeadPeerNoticed`), `TheSilentOnly` (`ClosesTheSilent`), `RateLimited`
(`RateBounded`) and `NothingRunsOn` (`EndsWithConnection`). No timer is overdue, and
intervals run until the close event (`TimersInv`). A beat probes only a
peer that was silent for an interval, so while the connection is open either the next beat
comes within two intervals of the last message, or a probe sent by then is still
unanswered and its timer runs (`HeartInv`); probes whose timers are never cleared do no
harm, as each was sent after an interval of silence. The rate bound needs every span
up to a window (`RateInv`): one that began after the last reset holds what the present
window admitted (`Admitted`), a longer one a limit more. `Horizon` bounds nothing in
these proofs but the clock.

### What stays with TLC

- Liveness: `SessionsExpire`, `EveryCallEnds`, `EveryCallSettles`,
  `EveryFrameSettles`, `SettlesUntilFailure` and the liveness of `PythonRecovery`. The
  prover does not reason about fairness.
- `Payload` and the modules under it: `Codec` and `NativeWrapper` declare recursive operators, which
  the prover does not take, and what a recursive definition computes is proved by
  induction.
- `UniqueIds` and `RetriesUntilExhausted` of `SessionRecovery` are false, as the runs
  that refute them show.

## Not modelled

- The Rust runtime (tokio tasks in parallel with one mutex per map), which needs
  models of its own. Reading it shows hazards that are not among those of the others:
  `join` writes two maps under separate locks (`server.rs:339`), the connection limit
  is read before the accept (`server.rs:124`), and the loop ends on the first error
  of `accept` (`server.rs:232`).
- Of the Python runtime: ids, rooms, adapter, heartbeat, rate limits, backpressure, packets,
  batches and RPC, and that broadcasts which include a leaked connection raise in
  their caller (`asyncio.gather`).
- Of the pipeline: control frames, the listeners of a variant's parent, and the
  client's async lanes and batches. Of the timers: `setInterval`, the handshake
  timeouts and the client's own timers.
- Of payloads: FLOATS, DOUBLES, HEX, JSON, custom validators and constructors.
- Debug dashboards, the command line, type generation, the packet manifest, the
  loader of the WebAssembly module, the C and Python bindings: presentation, input
  and output, conversions.

## Plan

The modules above are done, and every safety property a run checks of a state machine
other than `Payload` is proved. What is worth doing next:

1. `Quantization`: the residual stays within half a unit, as a lemma about one step of
   the encoder, for any scale.
2. Models of the Rust runtime, whose tasks run in parallel.

The runs are few by intent: a component takes one run with its properties
together, and a counterexample run only where the documentation says otherwise.
