# hostc: TLA+ models and proofs

A verification project for hostc, the tunnel that exposes a local server through
a Cloudflare Worker and a Durable Object. The modules translate the code under
`src/`; where a doc and the code disagree the model follows the code, and the
disagreement is a finding (below).

## The system

```
 public client --HTTP/WebSocket--> Worker --> Durable Object "HostcTunnel"
                                                   |  N data channels (WebSockets)
 local server <--fetch/ws-- upstream <-- client SDK (ClientConnection, HostcClient) <-- CLI
```

One tunnel is one Durable Object. A *client connection* is one run of the SDK
against it and has N *data channels*. A public request becomes a *stream*, pinned
to one channel. Frames carry the stream's id, a sequence number and a payload;
two credit windows (per stream and kind, and per channel) bound what a receiver
holds.

| Component | State | Operations | Talks to | Hard behaviours |
| --- | --- | --- | --- | --- |
| Tunnel lifecycle, `durable/tunnel.ts` | active connection, expected channels, next stream id, stream map, tombstones, sockets and their generations, three storage keys, alarm | init (replacement), channel connect, public request, socket message/close/error, alarm, failure | Worker (fetch), runtime (WebSocket events, storage, alarm, hibernation) | late events of replaced sockets; eviction between any two events; failure with streams in progress; an alarm racing closes |
| Response channel, `client-connection.ts`, both `credit.ts`, `tunnel.ts` | coroutine per stream, outbound/inbound windows, frames in flight, pending frames, the public `ReadableStream` | start, data, end, abort; grant; pull; cancel; timeouts | data channel, local origin, public client | check-then-await-then-spend; wake-ups; frames of dead streams; slow readers |
| Request channel, `tunnel.ts`, `client-connection.ts`, `queue.ts` | the same in the other direction, and one serial queue per channel | request body pump, write to the local server, end, abort | data channel, local server | head-of-line blocking; credit frames behind a blocked write |
| WebSocket streams | public socket, local socket, send chains, sequences and credits both ways | accept, message, close, error on both sides | runtime, local server | half-close; `lastSeq` against queued messages; hibernation in the middle; too-big messages |
| HostcClient and connection set-up, `hostc-client.ts`, `client-connection.ts`, `socket.ts` | state, current connection, attempt and delay, forced reason | start loop, stop, forceReconnect, connect, disconnect | tunnel API, CLI listeners | stop during sleep or creation; error events; back-off |
| Tunnel API client, `tunnel-api.ts` | none | create a tunnel, validate the answer, rewrite its URL | Worker | time-outs and late answers; servers of another version |
| Worker, `index.ts`, `router.ts`, `token.ts`, `id.ts` | none | create a tunnel, route a host and a path, sign and verify tokens | Durable Object | token life against timeouts; what a URL that was handed out leads to |
| Protocol, `packages/protocol` | none (pure) | encode, decode, validate, credit arithmetic, channel choice, header filters | everybody | a sender and a receiver that validate apart; widths, boundaries |
| CLI, `config.ts` and commands | the config file | read, set, unset | file system, HostcClient | editors at the same time, dying between two writes |
| Web site, error pages, scripts | pages | | | none modelled |

What makes each correct:

* **Lifecycle.** One active connection; nothing an old socket does matters; what
  is in storage is what memory says; stream ids are never reused; a frame of a
  stream the object issued is never taken for an unknown one; sockets without a
  stream do not stay open; a connection that cannot become ready goes away.
* **Response channel.** Bodies arrive whole, in order and once; windows are kept
  and their credit returns; a sleeping sender wakes; pending data stays within
  its limit; one stream's end does not hurt another.
* **Request channel, WebSocket streams.** The same promises; and nothing a local
  server does to one stream stops another; a close delivers what was sent before it.
* **HostcClient.** At most one live connection; after `stop` nothing connects; a
  lost connection is replaced while not stopped.
* **Protocol.** What one side writes the other reads, byte for byte; headers arrive
  but for those of a hop; credit never wraps; channels are chosen evenly.
* **Worker and Tunnel API client.** A client that connects in time is let in; the
  public URL leads to the object that has the client's channels; a tunnel nobody
  uses goes away.
* **CLI config.** The file is whole, whoever writes it when.

`PROJECT.json` lists the components with their status and, under `hazards`, every
place of this code where one of these can go wrong, with the property that would
show it.

## Modules

| Module | Models | Instances | Proofs |
| --- | --- | --- | --- |
| `HostcTunnel` | the Durable Object's lifecycle | `MCHostcTunnel` | `HostcTunnelProofs` |
| `ByteStream` | abstract specification: byte streams in order, each within a window | | |
| `ResponseChannel` | one data channel with its HTTP responses, client and server side | `MCResponseChannel` | `ResponseChannelProofs`, `SumTheorems` |
| `RequestChannel` | one data channel with its HTTP request bodies, the client's serial queue and the local origin | `MCRequestChannel` | `RequestChannelProofs`, `SumTheorems` |
| `WebSocketStream` | one public WebSocket from end to end | `MCWebSocketStream` | `WebSocketStreamProofs`, `SumTheorems` |
| `HostcClient` | the SDK's reconnect loop, its connections and their data sockets | `MCHostcClient` | `HostcClientProofs` |
| `Protocol` | frame types, header bytes, metadata and validators, limits, credits, channel choice: operators | | `ExchangeProofs` |
| `Headers` | header filters and rewriting: operators over `Protocol` | | `ExchangeProofs` |
| `Exchange` | two peers that write, refuse and read frames with `Headers` | `MCExchange` | `ExchangeProofs` |
| `Worker` | host and path routing, tokens, URLs, the answer to a create request: operators over `Protocol` | | `ProvisioningProofs` |
| `Provisioning` | CLI config, create request, connects and the objects' alarms over `Worker`, with a clock | `MCProvisioning` | `ProvisioningProofs` |

`Exchange` composes the codec and the header filters with both state machines that
use them; `Provisioning` composes the CLI's config, the SDK's set-up, the Worker and
the object's alarm. The operators of `Protocol`, `Headers` and `Worker` keep no state
and are checked through them.

### HostcTunnel

One action is one event the runtime delivers to the object. Storage calls inside
a handler hold further events back (input gate) and nothing leaves before writes
are durable (output gate), so a handler that awaits storage alone is one step;
where a handler waits for something else (`responseStart`, an alarm, a timer) it
is cut there. Every handler starts with `loadConnectionState`; the operators
`Active`, `Expected`, `NextId` and `OpenPublic` are the values it leaves, so each
action is the whole handler, restoring included. A data socket is its connection,
channel and generation; `data` holds the sockets the runtime still lists and
`openData` those whose `readyState` is OPEN, because a socket stops being open
before its close event is handled. The same split exists for public sockets.
`Hibernate` loses memory and keeps sockets and is enabled only when no request is
being served; `Crash` loses sockets too and, as with a real restart, delivers no
close event. `used`, `issued` and `newest` are history variables; `newest` is the last
socket of each channel of the stored connection. `OldSocketsInert` says with it which
sockets were replaced (`Superseded`), for the code keeps no list of them: `IsCurrent`
compares the generations of the sockets that the runtime still lists.

Abstracted: generations are a counter (the code builds increasing numbers from the
clock), tombstones have no cap of 4096 (ids below `nextStreamId` are known in any
case), payloads and credits (any message may be the one that violates them:
`ProtocolError`).

### ResponseChannel

The client's `startHttpProxy` is one coroutine per stream, cut at the places where
another callback may run: the answer of the origin (`fetching`), the wait for room
in the socket before `response.start` (`starting`), the read of a chunk
(`reading`), sleep in `waitForOutbound` (`waiting`) and the look after a wake-up
(`woken`), the wait for room before a data frame, holding a passed credit check
(`cleared`), before `response.end` (`ending`) and `response.abort` (`aborting`).
Handlers of the Durable Object are one step: for HTTP they only await promises
that are already settled. `unread` is the internal queue of the public
`ReadableStream` (its high-water mark is one chunk), `accepted` everything ever
enqueued on it, `pending` the frames that wait for room. Reading a chunk makes
the stream pull, which flushes pending frames, unless it was closed. A connection
ends with its first fault; what follows is `HostcTunnel`'s.

Credits are numbers for every stream, 0 where the code's map has no key (it reads
`?? 0`). Grants are put on the channel as the two frames the code sends; the wait
for capacity before each only delays them, as the channel does. Chunk sizes are
given by `Body` and are at most a window (the code cuts chunks at `maxFrameBytes`,
which is smaller than both windows).

### RequestChannel

The other direction. The Durable Object's `pumpPublicRequestBody` is the coroutine
here, cut as the one of `ResponseChannel`; it looks at its stream when it asks for
credit but not before `request.end`. What differs is the receiver. The client
handles the frames of a channel strictly in turn (`DataChannelQueue`), so `down` is
both the socket and the queue, and `busy` is the stream whose chunk the current
handler is writing: `requestWriter` belongs to a `TransformStream` that holds
nothing itself, so the write is done when the origin has read the chunk
(`OriginReads`), and credit goes back only then. `writer` is that writer as the
origin sees it. The origin may answer and finish early (`ResponseEnds` leaves the
writer as it is, like the code), fail, or drop the rest of the body; the server
may be cancelled, lose its public client or time out, which it does not announce.
A chunk of no bytes aborts its own stream, because a credit frame of 0 bytes is
refused by `encodeMetadata`. The two credit frames of a grant are sent in one step.

### ByteStream

The promise of either HTTP path without its mechanism: chunks accepted in the order
produced, each once, none after the end, and never more than the window sent and
not accepted. Both channels implement it (`ImplementsByteStream`) with two streams
on one channel: the defects below cost completeness and liveness, not order.

### HostcClient

`start()` is one coroutine, cut at its awaits: the back-off (`loop = "sleeping"`),
the tunnel API call (`creating`), `connect()` (`connecting`) and the wait for the
connection to end (`connected`); it ends `returned` or `rejected`. `Iterate` is the
head of its loop and `Finally` its finally block, which every way round the loop
runs. `Stop` and `ForceReconnect` may come between any two steps, and so may the
opening, failing and closing of every data socket. A connection is what `connect()`
did on each of its channels (`channel`) and whether its `close()` ran (`dead`);
`open` holds the sockets that opened and that nobody asked to close. Of the attempt
number only whether it is 0 is kept (`retried`); delays, reasons and URLs are left
out. `Conns` is a pool of connection ids and the only bound: an id is taken again
once the loop has dropped it and no socket of it is opening, so the loop runs for
ever. `listening` says whether the embedder listens to `error` events, and is chosen at
the start: without a listener the emit throws, as Node's does, and neither the CLI nor
the SDK's example has one. `OnceReadyKeepsTrying` therefore says that the loop ends by
itself only then.

### WebSocketStream

One stream, both directions in the same variables indexed by the data kind
(`ws.client`, `ws.server`), because the two sides send alike: a message joins the
send chain (`chain`), and the first of the chain is asking for credit (`waiting`,
`woken`) or waiting for room in the data socket (`cleared`). An end does not go
through the chain: `DeclareEnd` reads `lastSeq` when the close is heard, and
`SendRequestEnd` / `SendResponseEnd` put it on the channel later. A message is its
number; `said` has the sizes, so a message that is too big, empty or larger than the
credit is one of the choices of `PublicSends` and `LocalSends`. `pub` and `loc` are
the two sockets as the code sees them, `srv` and `cli` the two ends of the stream.
`Hibernate` makes the object forget the stream while both sockets stay; what then
comes for the stream closes the public socket (`Awake`). The listeners of the local
socket are on only after `response.start` is out (`SendResponseStart`); what the
local server sends or closes before is not heard. `OtherEvent` stands for an event of
another stream that restores the object's memory. Channel credit is left out: it is
shared with the other streams and is in the two channel modules. A message for a public
socket that is not open is held (`held`); `ServerOverflows` is the limit on what the
object holds for all its streams, which another stream may have used up at any time, and
`PendingTimeout` the timer. A timer is long, and the close of a socket comes first;
the limit is hit at once, also between a close and its event, and then nobody tells the
client (`pub = "unheard"`). The grant that follows a delivery waits for room in the
public socket; the model grants in the same step, which only sends the credit sooner.

### Protocol, Headers, Exchange

A header is really its bytes (`EncodeHeader`, `HeaderOf`), in base `Byte` with widths
`WideBytes` and `LongBytes` for 256, 8 and 4. Metadata is a function from keys to
values; `Json` is `JSON.stringify` followed by `JSON.parse` (what is undefined is left
out), and the length of the text is that of its values. A text is a word, its length
in bytes, and the patterns it matches (`"token"`, `"rooted"`, `"control"`, ...), which
is all that the validators look at. `Headers` has the filters as selections from
sequences, and the object that a local WebSocket's headers are put into
(`FromEntries`): of entries of one name, which only set cookies can be, the last stays.

In `Exchange` each side does with a frame what its handler does: `Says` is the encoder
that may refuse, `ClientFaults` and `ServerFaults` the conditions under which a message
fails the connection, and `parting` how each side let go of the stream. It has one
stream; requests, answers, close codes and reasons come from sets with an ordinary
member and one on each limit. `StrayTurnsUp` puts a message of another version or
program on the channel.

### Worker, Provisioning

`Worker` routes hosts as sequences of labels and paths as sequences of parts.
`Provisioning` adds the processes. Time goes in units of 15 s, the smallest timer:
`CreateTimeout` 1, `ConnectTimeout` 1, `TokenTtl` 4, `AlarmTime` 8; a token may be seen
up to one unit older than the clock says (`lag`), for seconds are cut off. Messages
take any time, so an answer may come after the client gave up; the client's timeouts
are on time, alarms on time or late. `Stops` during the create call or the back-off
before it lets that call and the connect go on, as the code does. A config editor opens, writes and renames a file
of its own, and may die between any two of these.
`Resolves` checks the number of channels that was chosen wherever it comes from:
`MCProvisioning` has a 9 both as option and in the file, and both are refused.

## Runs

| Run | Instance | Shows |
| --- | --- | --- |
| `tunnel_lifecycle` | 2 connections, 2 channels, 2 stream ids, 3 sockets, 1 restart, fairness | one active connection, its streams and its record; no public socket is orphaned; something is left that drops a connection that is not ready, and without a restart it gets ready or is dropped; no id reuse; replaced sockets inert (233,606 states) |
| `response_safety` | 2 bodies of 3 and 2 chunks, windows 2 and 3, pending limit 2 | stream credit, wake-ups, pending limit, sequence, refinement of `ByteStream` (1,033,846 states) |
| `response_finish` | 1 body of 5 chunks, 1 response without body, windows 3 and 2, fairness | responses finish, cancels reach the origin |
| `request_uploads` | a quiet body of 3 chunks and a troubled one of an empty and a full chunk, windows 2 and 2, fairness | stream credit, wake-ups, sequence, clean ends, refinement, and an upload finishes unless the window is lost to aborted ones (184,077 states) |
| `client_lifecycle` | 3 connections of 2 channels, with and without an error listener, `stop` and `forceReconnect` anywhere, fairness | one live connection, no leaked socket, ready means connected, no giving up with a listener, a loss leads to a retry, stop ends the loop |
| `websocket_streams` | 2 messages each way of 0, 1 or 2 bytes, message limit and window 1, fairness | order without holes, wake-ups, sequences and windows kept, closes that are heard reach the other end (616,018 states) |
| `exchange_frames` | 7 requests, 10 answers, 4 closes, 10 stray messages, sizes 0 and 1 | each side reads what the other writes, headers and ends arrive (184,486 states) |
| `provisioning` | 2 attempts, 3 channels, a local and a public server, versions 3 and 4, 2 editors, fairness | the config is whole, a connect in time is accepted, a ready client is reachable, orphans expire (175,794 states) |
| `response_truncated` | 1 body of 2 chunks | finding 1: a truncated body that ends cleanly |
| `response_overspent` | bodies of 3 and 1 chunks, windows 2 | finding 2: a credit violation between honest peers |
| `request_starved` | the instance of `request_uploads` | finding 4: an aborted upload starves another |
| `websocket_miscounted` | 1 message of the local server | finding 3: a close that fails the whole connection |

`Protocol` constants are small in the last two state machines (a base of 256 with
widths 1 or 2, limits of a few bytes) and are those of the code in no run; the proofs
are about every value of them.

**Bounds.** Two connections are enough for replacement to have an old and a new side.
Three sockets in all let one channel be replaced while the other is open, or a socket
of the old connection say something when the new one has both of its own. Two stream
ids allow one stream to end while another lives and an id to be reused by the next
connection. One restart is enough: a second finds what the first left. `MaxStreamId`,
`MaxSockets`, `MaxCrashes` are guards of `PublicRequest`, `ConnectChannel` and `Crash`
and mean that a behaviour stops there. In `ResponseChannel` nothing is bounded but the
bodies: windows and the pending limit are small enough that each of them blocks, and
one body contains an empty chunk. In `RequestChannel` `Answered` and `Troubled` name
the streams to which answers and trouble may come: one stream meets everything in any
order while the other only uploads, so that what one stream does to the other shows.
What the troubled stream can lose of the channel's window is enough to keep the quiet
one's last chunk from fitting ever again: `UploadsFinish` says that an upload finishes
unless that much is lost (`ChannelCreditLost`, `Starved`), and `request_starved` that
it happens. Three connections let the loop hold one while an old one still opens or
closes sockets and a new one is made; two channels let one of them fail while the
other opens. In `WebSocketStream` only the number of messages is bounded
(`MaxMessages`): two let one wait in the chain behind another, and sizes 0, 1 and 2
against a limit and a window of 1 give the empty, the fitting and the refused message.
`Exchange` bounds the messages per direction (`MaxSent`) and the stray message (one,
before the answer); the sets of `MCExchange` have a member on each side of each limit.
In `Provisioning` the number of attempts is that of the ids in `Pool`: two, so that an
answer, a connect or an alarm of the first may fall into the second. `ApartSpec` lets
either the editors run or the client start, for the client reads the file once and
`StoredValues` has whatever editors can leave in it.

**Deadlock** is checked for the tunnel and for provisioning, whose clock never stops;
the channel, WebSocket and exchange runs switch it off because they end when every
body or message was dealt with or the connection failed, and the client run because
the loop really ends after `stop`.

**Fairness.** `HostcTunnel!FairSpec`: an alarm that is set goes off, and of the sockets
that are not open any more one after the other is reported closed (no order is
assumed); both are the runtime's duty.
Nothing is assumed of clients. `ResponseChannel!FairSpec`: runnable coroutines
run, the channel delivers, the origin answers and produces its chunks, and the
public client reads what is there. Requests, cancels, failures and timeouts have
no fairness. `RequestChannel!StalledSpec` has the same for pumps and channel and
nothing for the origin; `FairSpec` adds that the origin reads the bodies it is
sent. `HostcClient!FairSpec`: the loop goes on (the API call and the opening of a
socket have timeouts of 15 s, sleeps end) and asked closes happen; that a call or
a connect ever succeeds is not assumed. `WebSocketStream!FairSpec`: the steps of the
two sides are taken, a local socket opens or fails (the adapter's timeout of 15 s) and
a closing handshake ends; nothing else is assumed of the two endpoints, which need not
send, close or be there. `Provisioning!Fairness`: time passes, timers go off, and the
sockets of a client that left are closed for the object too.

## Findings

1. **Truncated responses** (`response_truncated`). `finishStreamDirection` counts
   received frames. `response.end` closes the public body while chunks are in
   `pendingFrames`, and `cleanupStream` drops them: a public client slower than
   the tunnel sees a short body and no error.
2. **Overspent channel credit** (`response_overspent`). Two streams woken by the
   same grant both pass the check of `waitForOutbound`, then both send;
   `decrementOutbound` throws only after the frame is out. The receiver fails the
   connection. `sendDataPayload` of the Durable Object has the same order of
   steps. A channel with one body at a time is safe.
3. **A close that is counted too early** (`websocket_miscounted`). `lastSeq` of a
   WebSocket's `response.end` is read when the close is heard; a message still in the
   send chain goes out behind with a higher seq, or before the end. The server sees
   `lastSeq mismatch` and fails the connection with every other stream on it.
   `request.end` of the Durable Object is built the same way.
4. **Starved uploads** (`request_starved`). The client drops `request.data` of a stream
   that was aborted before it looks at credits, so what such a frame took of the
   channel's window never comes back. Enough aborted uploads and every other stream of
   the channel waits for credit for ever. `ResponseStarved.cfg` (A below) shows the same
   of responses.

### Configurations to run by hand

Each of these shows one more behaviour that a doc or a note of the repository does
not expect. They are kept beside the runs; `tlc -config X.cfg M` ends with a
counterexample.

* A. `ResponseStarved.cfg` (`AbortsStayLocal`): frames for an aborted stream, and its
  pending frames, are dropped without returning the channel credit they took; the
  other streams of the channel run dry.
* B. `RequestBlocked.cfg` (`CancelReachesOrigin`): the client's queue handles
  `request.abort` after the `request.data` before it, whose write waits for the local
  server. If that does not read, the request of a cancelled upload is never aborted,
  and no other frame of the channel is handled either.
* C. `TunnelRestarted.cfg` (`UnconnectedTunnelsExpire`): after a restart that drops the
  sockets of a ready connection neither an alarm nor a close event is left to clear the
  stored connection.
* D. `ClientGivesUp.cfg` (`NeverGivesUp`): `emit("error")` throws when nobody
  listens, in `start()` inside the catch block: the loop ends after one failed attempt.
  Neither the CLI nor the SDK's example registers a listener.
* E. `WebSocketUnheard.cfg` (`LocalCloseReachesPublic`): a local socket that closes
  before the client's listeners are on is never noticed; the public one stays open.
* F. `WebSocketOverflowed.cfg` (`UnheardReachesLocal`): a frame for a public socket that
  is closing, while the object holds as much as it may, ends the stream before the close
  is heard; the client is not told and the local socket stays open.
* G. `WebSocketHibernated.cfg` (`ForgottenReachesLocal`): a stream that the hibernating
  object forgot keeps its local socket open, for nobody tells the client.
* H. `ExchangeAborts.cfg` (`AbortsArrive`): an abort whose reason is longer than the
  protocol allows is refused by `encodeMetadata`, the error is swallowed, and the other
  side keeps the stream.

Smaller things met on the way: an empty WebSocket message aborts its stream, because a
credit of 0 bytes is refused; `hostc config set` reads, edits and writes without a lock,
so that one of two editors may be lost (never half written); a config that a hand broke
cannot be repaired by `hostc config set`; a public request whose path begins with `//`
is answered with 502.

## Proofs

`HostcTunnelProofs` proves for every set of connections and every bound: type
correctness (`TypeCorrect`), agreement of memory and storage (`RecordIsDurable`),
`StreamsBelong`, `NoIssuedStreamUnknown`, `SendsOnCurrentSocket`, `NobodyOrphaned`,
`NobodyStranded`, `StreamIdsFresh` and `OldSocketsAreInert`, from `NoConnAssumption`
(null is no connection id) and `BoundsAssumption`.

The argument: memory can disappear between any two events, so an invariant that speaks
of memory is not inductive. `IInv` restates each fact about `stored`, which no
eviction touches: memory, when it holds a connection, equals storage
(`DurableRecord`); every id issued under the stored connection is below the stored
next id, and connections in storage were initialised (`IssuedInv`); every open data
socket belongs to the stored connection and has the highest generation of its channel
(`SocketInv`). `Loaded` then shows that what any handler sees after
`loadConnectionState` is what storage holds. The handlers that only end streams and
lose sockets share one lemma (`QuietInv`), failures another (`FailInv`), and each
handler that writes the record has its own. The two action properties follow from the
same invariant; `OldSocketsAreInert` needs besides that the socket a channel of the
stored connection got last is still listed as long as an older one is (`NewestInv`):
were it gone, the highest generation among those that are left would be of a replaced
socket. `NobodyStranded` needs one more part: until a restart, a connection that is
not ready has an alarm, or one of the sockets that made it unready still has its close
coming (`AlarmInv`). `NobodyOrphaned` is inductive on top of the rest: whatever ends a
stream also closes its public socket, and the first handler after a hibernation closes
the sockets it cannot match.

`HostcClientProofs` proves for every pool of connections and every number of
channels (`NoConnAssumption`, `ChannelsAssumption`): `TypeCorrect`, `AtMostOneLive`,
`SocketsGoWithConnection`, `ReadyMeansConnected` and `KeepsTrying`, whether or not
somebody listens to errors. The properties alone are not inductive: that only one connection is
alive rests on the loop's variable and `this.connection` differing only after
`stop`, which closed the connection (`CurrentInv`); that a ready client has all its
sockets rests on a live connection having lost none of those it registered
(`RegisteredInv`) and on the loop waiting for a loss only after every channel was
registered (`ReadyInv`).

`RequestChannelProofs` proves for every set of streams, all bodies and both windows:
`TypeCorrect` (no credit falls below zero), `PumpsAreWoken`, `FramesInSequence`,
`CleanEnds` (the origin sees a clean end only of a whole body), `UploadWindowsConserved` and `ImplementsUploads`, the refinement of
`ByteStream`. The invariant describes the link: while the client knows a stream,
or will when it reads the request, the stream's data frames are exactly the chunks from
`receiveNextSeq` up to `sendNextSeq`, in order (`DataInv`); the request comes before
them (`RequestInv`), the end behind them and only when the body is whole (`EndInv`).
Where the pump is tells how much was sent (`PumpInv`), and what the origin read is what
was taken but for the chunk being written (`WriteInv`). It holds only while there is no
fault: the frame that fails the connection is off the link. One lemma for each kind of
step on the link (kept, taken from, pushed to) serves all actions of that kind. The
credit accounts come on top (`AccountInv`), as differences of prefix sums of the body:
what is in flight was sent and not taken (`FlowInv`), and the pump may have sent the
window plus what the origin has *read*, less the credit frames on their way
(`CreditInv`). `StreamCreditConserved` is stated while `fault = "none"`, because a
connection that failed drops the frame in hand with its credit.

`ResponseChannelProofs` proves for every finite set of streams (`StreamsAssumption`), all
bodies, windows and limits: `TypeCorrect`, `NoSleeperForgotten`, `PendingIsAccounted`,
`NeverOutOfSequence`, `BodiesInOrder` (`InOrder`, which no run lists), `WindowsConserved`,
`StreamWindowRespected`, and `ImplementsStreams`, the refinement of `ByteStream`. The
invariant has three layers, each inductive on top of those before it:

1. `SafeInv`: types, wake-ups and the pending total. A coroutine that has a chunk in
   hand has not sent it; `pendingDataBytes` changes by what a clean-up or a chunk takes.
2. `OrderInv`: while the server knows a stream, the data frames on their way are exactly
   the chunks from `receiveNextSeq` up to `sendNextSeq` (`DataInv`), nothing of a stream
   is there before the client read its request (`FreshInv`), its end comes behind them
   (`EndInv`), and the pending chunks follow what the public body took (`QueueInv`).
3. `AccountInv`: every quantity of bytes is a difference of two prefix sums of the body.
   What is in flight are the chunks between received and sent (`FlowInv`), what the server
   still grants is the window less what is pending (`WindowInv`), and the client may have
   sent the window plus what the public body took (`CreditInv`), whatever of it is still a
   credit frame. A chunk that moves on changes two of these by its size.

With these the window of a stream can never be overrun (`StreamWindowRespected`); the
violation that `response_overspent` finds is one of the channel's window alone. The sums
need induction over data. The induction theorems of the library take an operator and
cannot be cited, so `SumTheorems` derives induction over a *set* of naturals from
`NatLessThanWellFounded` and `WFMin` (`NaturalsFrom`), and from it what `SumFunction` and
`SumFunctionOnSet` compute: one element more or less, one changed, a part set to zero, an
interval cut in two, sequences joined, the frames of a link weighed one by one
(`WeighAppended`, `WeighPopped`). Nothing in `SumTheorems` is about the tunnel.

`WebSocketStreamProofs` proves for all sizes, message limits and windows: `TypeCorrect`,
`SendersAreWoken`, `MessagesInOrder`, `FramesInSequence`, `OnlyClosesFail` and
`WebSocketWindowsConserved`. For each direction the messages are in three places behind
each other: heard, travelling, waiting (`FlowInv`: `SeqInv` for the sequence numbers,
`OrderInv` for the places, `HoleInv` for what is left out between them). When one side
stops, messages are lost, but only behind all that can still be heard, so the order of
what was heard stays. `OnlyClosesFail` says that nothing but a miscounted end (finding 3)
fails the connection, credit violations included. For that `AccountInv` follows the bytes
of one direction: left to the sender, in data frames, held for a public socket that is
not open yet, and in credit frames on the way back. Their total is at most the window,
and exactly the window while the sender can send and the receiver knows the stream; a
sender that is gone still has the one message that was cleared before it went (`Pending`).

`ExchangeProofs` has three parts. The first is about single values, for all widths and
limits: what `encodeMetadata` takes `decodeMetadata` takes after JSON
(`EncodableIsDecodable`), what `normalizeCloseCode` and `normalizeCloseReason` return
passes the validators (`NormalisedClosesPass`), codes and directions of frame types
(`CodesAreDistinct`, `CreditsGoBothWays`), credit arithmetic (`CreditsAreBalanced`), the
round robin (`EveryChannelHasItsTurn`), and that the bytes of a header give back its
fields (by induction over the digits, which are recursive functions, from
`NaturalsFrom`). The second is an algebra of the header filters: a filter selects by name
(`WithIs`), a selection of a selection is one by the names in both (`WithTwice`), and
joining lists or rewriting values commutes with selecting (`WithJoined`, `WithMapped`),
and an object of headers has of each name the latest (`EntriesAreLatest`).
The third is `Exchange`, and proves
`PeersAlwaysUnderstand`, `ReadsAreCanonical`, `EndsAlwaysArrive` and
`HeadersAlwaysArrive` for any requests, answers, closes and strays within the assumptions
below (`ReadIsCanonical`, that there is one way to write a header, is in no run). None of these is inductive. `IInv` adds:

* `Shapes`, `Started`, `Bytes`: the variables' ranges, and what each side has to work
  with once it has started;
* `Legibles`: while no stray turned up, every message on its way can be read in its
  direction, data comes in order without a gap between what was got and what was sent
  (`Runs`), an end says what was sent, no data is behind it, and the start is alone in
  front of everything (`DownStarts`). A reader refuses what is out of sequence, so that
  peers understand each other rests on all of them;
* `EndsComing`, `EndsCame`, `Parted`: an end that was said is on its way or the other side
  is over or has it; what arrived is what was said;
* `StartsAreOwn`, `HeadersCame`: whatever strays turned up, a start on its way is the
  program's own, with the headers it was handed, filtered once on each side.

The assumptions on constants in `Exchange` say what the code is handed.
`LimitsAssumption`: limits as `defaultTunnelLimits` has them, and room for a close in the
metadata; `MaxSent` bounds the run and must fit a sequence number. `AskedAssumption` and
`AnswersAssumption`: headers have a name and a text, and a `Headers` object of fetch has
one entry of each name (but set cookies). `ClosesAssumption`: codes an endpoint can close
with, 1000 to 4999 without the reserved 1004. `StraysAssumption`: a stray is bytes, and
not the start of this very stream; whoever could forge that is the program.

`ProvisioningProofs` proves `FileIsWhole` and `NeverTorn` for any number of editors: what
an editor is about to write is fit for the file from the moment it read, and its
temporary file, which nobody else writes, holds just that when it is renamed.

It also proves `TypeCorrect`, `ConnectsAccepted` and `ReadyReachable`, for every pool of
tunnel ids, any servers, base domain and number of channels. The property that a connect
is accepted speaks of an answer that is there; why it could not be a refusal is in the
clocks of three machines that never meet. `Timely` compares them: while the client has
`left` until it gives up, an object that was created has `alarm >= 7 + left` and
`ttl >= 3 + left` before the answer arrives, and `alarm >= 6 + left` (or all its
channels) and `ttl >= 2 + left` while the client dials; the two units in hand at the end
are the token's `lag` and one to spare. That holds of the current attempt only, so
`OnTheWay` says of every message which attempt it may be for (a create request once,
its answer only after it is gone, dials and replies not before the client has the answer)
and which tunnel it speaks of. `Choice` and `Told` say that the client asked for a valid
number of channels and was told the tunnel of its attempt. The rest is about operators,
and of interest alone: the host that `buildPublicUrl` makes is classified as its tunnel
(`PublicHostIsTunnel`), and the URL of a channel is routed to that channel while the token
lasts (`ChannelsAreRouted`). The assumptions: `PoolAssumption`, ids that the Worker makes
(`t-...`) are distinct and neither `api` nor `www`; `ServersAssumption`, a server is where
a Worker has the API, and only a local one takes its host for another (wrangler with
`routes`); `BaseAssumption`, the public domain is none of localhost.

**Only model-checked.** All liveness: `SettlesOrDrops`, `ResponsesFinish`,
`CancelReachesOrigin`, `LossLeadsToRetry`, `StopEnds`, `UploadsFinish`,
`PublicCloseReachesLocal`, `HeardCloseReachesPublic` and `OrphansExpire`, since the prover
handles neither fairness nor ENABLED. Every invariant, every action property and both
refinements of the passing runs have a theorem. The runs that end in a violation show a
property of the repository's docs that the code does not have, so there is nothing to
prove of it.

## Not modelled

* Wording and layout: error pages, logs, CLI output (`doctor`, `update`, `redact`,
  `spinner`), the web site. Nothing reads them back.
* `fetch`, the `ws` package, `ReadableStream` and the Workers runtime are external: what
  the code relies on is in the actions that stand for them (an origin that answers,
  produces, reads or fails; a queue of one chunk; sockets that deliver or close).
* Cryptography: the HMAC of a token is taken as unforgeable, ids as unused.
* Real time, but for `Provisioning`: elsewhere a timeout may fire whenever what it waits
  for has not happened.
* The tombstone set of the client is unbounded (4096 in the code); several frames per
  WebSocket message do not occur, for `maxWebSocketMessageBytes` is at most a frame.
* Scripts and tests drive the program; they were read for what they expect of it.
