--------------------------- MODULE WebSocketStream ---------------------------
(* One public WebSocket carried over a data channel: the Durable Object          *)
(* (src/apps/server/src/durable/tunnel.ts), the client SDK                       *)
(* (src/packages/client/src/client-connection.ts, adapters/local-origin.ts) and  *)
(* the two endpoints, a public client and a local server.                        *)
(*                                                                               *)
(* Both sides send in the same way: a message joins the send chain of its data   *)
(* kind, waits its turn, then for credit, then for room in the data socket; an   *)
(* end of the direction does not go through the chain. A message fits into one   *)
(* frame. The other streams of the channel and the channel's credit window are   *)
(* those of ResponseChannel and RequestChannel.                                  *)
EXTENDS Integers, Sequences, SequencesExt

CONSTANTS
    Sizes,         \* Sizes[k]: bytes a message of the endpoint of k may have
    MaxMessages,   \* bound: MaxMessages[k] messages are sent
    MaxMessage,    \* limits.maxWebSocketMessageBytes
    StreamCredit   \* limits.streamCreditBytes

\* ws.client: public client to local server; ws.server: the other direction.
Kinds == {"ws.client", "ws.server"}

ASSUME SizesAssumption ==
    Sizes \in [Kinds -> SUBSET Nat] /\ MaxMessages \in [Kinds -> Nat]
ASSUME LimitsAssumption == MaxMessage \in Nat /\ StreamCredit \in Nat

VARIABLES
    \* The endpoints and their sockets.
    pub,     \* the public socket, as the Durable Object sees it
    loc,     \* the local socket, as the client sees it
    said,    \* sizes of the messages an endpoint sent so far
    got,     \* messages that reached the endpoint at the other end, in order
    \* The stream.
    srv,     \* where the stream is on the server
    cli,     \* where it is on the client
    \* Both senders.
    chain,   \* messages in the send chain, the one being sent first
    stage,   \* where the first of them is
    ends,    \* ends that wait for room in the data socket, with their lastSeq
    sent,    \* sendNextSeq
    out,     \* outboundStreamCredit (0 for a missing key)
    \* Both receivers.
    next,    \* receiveNextSeq
    in,      \* inboundStreamCredit (0 for a missing key)
    held,    \* pendingFrames of the server
    \* Frames on the data channel.
    down,    \* server to client
    up,      \* client to server
    fault    \* why one of the sides failed the connection

endpoints == <<pub, loc, said, got>>
stream == <<srv, cli>>
sender == <<chain, stage, ends, sent, out>>
receiver == <<next, in, held>>
vars == <<endpoints, stream, sender, receiver, down, up, fault>>

\* "left": the public client closed, and the event of it is still to come; "unheard":
\* the pending limit took the stream before that, and the client was not told.
Public == {"none", "open", "left", "unheard", "closing", "closed"}
Local == {"none", "connecting", "open", "closing", "closed"}
\* "forgotten": the object hibernated, and its memory went with the stream.
Server == {"absent", "connecting", "open", "gone", "forgotten"}
Client == {"absent", "opening", "starting", "open", "gone"}
Stage == {"idle", "waiting", "woken", "cleared"}

Init == /\ pub = "none" /\ loc = "none"
        /\ said = [k \in Kinds |-> <<>>] /\ got = [k \in Kinds |-> <<>>]
        /\ srv = "absent" /\ cli = "absent"
        /\ chain = [k \in Kinds |-> <<>>] /\ stage = [k \in Kinds |-> "idle"]
        /\ ends = [k \in Kinds |-> <<>>] /\ sent = [k \in Kinds |-> 0]
        /\ out = [k \in Kinds |-> 0] /\ next = [k \in Kinds |-> 0]
        /\ in = [k \in Kinds |-> 0] /\ held = <<>>
        /\ down = <<>> /\ up = <<>> /\ fault = "none"

ToClient(frames) == down' = down \o frames /\ UNCHANGED up
ToServer(frames) == up' = up \o frames /\ UNCHANGED down
Send(k, frame) == IF k = "ws.client" THEN ToClient(<<frame>>) ELSE ToServer(<<frame>>)

\* canSendForStream of the side that sends k.
CanSend(k) == IF k = "ws.client" THEN srv \in {"connecting", "open"}
                                 ELSE cli \in {"opening", "starting", "open"}

Heads(type, link) == link # <<>> /\ Head(link).type = type

-----------------------------------------------------------------------------
(* What both sides do to end or lose a stream.                                *)

\* seedStream, of one side: it sends k and receives the other kind.
Seeded(k) == /\ out' = [out EXCEPT ![k] = StreamCredit]
             /\ in' = [x \in Kinds |-> IF x = k THEN in[x] ELSE StreamCredit]

\* Mutant: nobody wakes the sender of a stream that is gone.
StillWaiting(k) == stage

\* wakeWaiters
Woken(k) == [stage EXCEPT ![k] = IF @ = "waiting" THEN "woken" ELSE @]

\* deleteStream, of the side that sends k: its credits go, its sender wakes.
CreditsGo(k) == /\ out' = [out EXCEPT ![k] = 0]
                /\ in' = [x \in Kinds |-> IF x = k THEN in[x] ELSE 0]
                /\ stage' = Woken(k)

\* cleanupStream of the server; frames that are held are dropped.
ServerCleansUp == /\ srv' = "gone" /\ held' = <<>> /\ CreditsGo("ws.client")

\* publicSocket.close
PublicClosing == IF pub = "open" THEN "closing" ELSE pub

\* abortStream: the public client gets 1011, or 502 while the stream connects.
ServerAborts == ServerCleansUp /\ pub' = PublicClosing

\* Mutant: after hibernation the public socket stays as it was.
AsleepStays == pub

\* closeUnrecoverablePublicSockets, with the first event after hibernation.
Awake == IF srv = "forgotten" THEN PublicClosing ELSE pub

\* upstreamWebSocket.close
LocalClosing == IF loc = "open" THEN "closing" ELSE loc

\* abortLocalStream
ClientAborts == /\ cli' = "gone" /\ loc' = LocalClosing
                /\ CreditsGo("ws.server") /\ UNCHANGED held

-----------------------------------------------------------------------------
(* The send chain of one direction (enqueueStreamSend, sendDataPayload).      *)

Size(k) == said[k][Head(chain[k])]

HasOutbound(k) == out[k] >= Size(k)
Done(k) == chain' = [chain EXCEPT ![k] = Tail(@)]

\* The first message asks for credit (waitForOutbound). A message of a stream that
\* is gone is dropped, without a word.
AskCredit(k) ==
    /\ chain[k] # <<>> /\ stage[k] \in {"idle", "woken"}
    /\ IF CanSend(k)
       THEN /\ stage' = [stage EXCEPT ![k] = IF HasOutbound(k) THEN "cleared" ELSE "waiting"]
            /\ UNCHANGED chain
       ELSE Done(k) /\ stage' = [stage EXCEPT ![k] = "idle"]
    /\ UNCHANGED <<endpoints, stream, ends, sent, out, receiver, down, up, fault>>

\* There is room in the data socket. Whether the stream is still there is not looked
\* at; without credits left decrementOutbound throws, after the frame is out.
SendData(k) ==
    /\ stage[k] = "cleared"
    /\ Send(k, [type |-> "data", seq |-> sent[k], msg |-> Head(chain[k])])
    /\ sent' = [sent EXCEPT ![k] = @ + 1]
    /\ out' = [out EXCEPT ![k] = IF HasOutbound(k) THEN @ - Size(k) ELSE @]
    /\ Done(k) /\ stage' = [stage EXCEPT ![k] = "idle"]
    /\ UNCHANGED <<endpoints, stream, ends, receiver, fault>>

LastSentSeq(k) == sent[k] - 1

\* Mutant: a close that is not passed on.
CloseForgotten(k) == UNCHANGED ends

\* request.end or response.end: lastSeq is read here and sent when there is room.
DeclareEnd(k) == ends' = [ends EXCEPT ![k] = Append(@, LastSentSeq(k))]

\* The end of ws.client goes out; then the public socket is closed and the stream
\* cleaned up.
SendRequestEnd ==
    /\ ends["ws.client"] # <<>>
    /\ ToClient(<<[type |-> "end", last |-> Head(ends["ws.client"])]>>)
    /\ ends' = [ends EXCEPT !["ws.client"] = Tail(@)]
    /\ pub' = PublicClosing
    /\ IF srv = "gone" THEN UNCHANGED <<srv, held, out, in, stage>> ELSE ServerCleansUp
    /\ UNCHANGED <<loc, said, got, cli, chain, sent, next, fault>>

SendResponseEnd ==
    /\ ends["ws.server"] # <<>>
    /\ ToServer(<<[type |-> "end", last |-> Head(ends["ws.server"])]>>)
    /\ ends' = [ends EXCEPT !["ws.server"] = Tail(@)]
    /\ IF cli = "gone" THEN UNCHANGED <<cli, out, in, stage>>
       ELSE cli' = "gone" /\ CreditsGo("ws.server")
    /\ UNCHANGED <<endpoints, srv, chain, sent, next, held, fault>>

-----------------------------------------------------------------------------
(* The public client and the Durable Object.                                  *)

\* handlePublicWebSocket up to the wait for response.start.
PublicConnects ==
    /\ srv = "absent"
    /\ srv' = "connecting" /\ Seeded("ws.client")
    /\ ToClient(<<[type |-> "request"]>>)
    /\ UNCHANGED <<endpoints, cli, chain, stage, ends, sent, next, held, fault>>

\* STREAM_RESPONSE_START_TIMEOUT_MS; the client is not told.
StartTimeout ==
    /\ srv = "connecting"
    /\ ServerAborts
    /\ UNCHANGED <<loc, said, got, cli, chain, ends, sent, next, down, up, fault>>

Speaks(k, bytes) == /\ Len(said[k]) < MaxMessages[k]
                    /\ said' = [said EXCEPT ![k] = Append(@, bytes)]

\* Mutant: a message does not wait for the one before it.
EnqueueFirst(k) == chain' = [chain EXCEPT ![k] = <<Len(said[k]) + 1>> \o @]

Enqueue(k) == chain' = [chain EXCEPT ![k] = Append(@, Len(said[k]) + 1)]

\* handlePublicSocketMessage; messages may still come after close() was called.
PublicSends(bytes) ==
    /\ pub \in {"open", "closing"} /\ Speaks("ws.client", bytes)
    /\ \/ /\ srv \in {"gone", "forgotten"}
          /\ pub' = Awake
          /\ UNCHANGED <<chain, ends>>
       \/ /\ srv = "open" /\ bytes > MaxMessage
          /\ pub' = "closing" /\ DeclareEnd("ws.client")
          /\ UNCHANGED chain
       \/ /\ srv = "open" /\ bytes <= MaxMessage
          /\ Enqueue("ws.client")
          /\ UNCHANGED <<pub, ends>>
    /\ UNCHANGED <<loc, got, stream, stage, sent, out, receiver, down, up, fault>>

\* The public client closes; the event of it is still to come.
PublicLeaves ==
    /\ pub = "open"
    /\ pub' = "left"
    /\ UNCHANGED <<loc, said, got, stream, sender, receiver, down, up, fault>>

\* handlePublicSocketClose up to the wait for room.
PublicClosed ==
    /\ pub \in {"left", "unheard", "closing"}
    /\ pub' = "closed"
    /\ IF srv = "open" THEN DeclareEnd("ws.client") ELSE UNCHANGED ends
    /\ UNCHANGED <<loc, said, got, stream, chain, stage, sent, out, receiver, down, up, fault>>

\* An error event of the public socket is logged, no more (webSocketError).
PublicBreaks ==
    /\ pub = "open"
    /\ pub' = "closed"
    /\ UNCHANGED <<loc, said, got, stream, sender, receiver, down, up, fault>>

\* pendingDataTimeoutMs; the client is not told. The event of a close comes sooner
\* than the timeout.
PendingTimeout ==
    /\ held # <<>> /\ srv = "open" /\ pub # "left"
    /\ ServerAborts
    /\ UNCHANGED <<loc, said, got, cli, chain, ends, sent, next, down, up, fault>>

\* The runtime evicts the object, which has nothing under way and no timer, and keeps
\* its sockets: the stream and its credits are forgotten, the client is not told.
Hibernate ==
    /\ srv = "open" /\ chain["ws.client"] = <<>> /\ ends["ws.client"] = <<>> /\ held = <<>>
    /\ srv' = "forgotten" /\ CreditsGo("ws.client")
    /\ UNCHANGED <<endpoints, cli, chain, ends, sent, next, held, down, up, fault>>

\* Any event of another stream wakes it.
OtherEvent ==
    /\ srv = "forgotten" /\ pub = "open"
    /\ pub' = Awake
    /\ UNCHANGED <<loc, said, got, stream, sender, receiver, down, up, fault>>

-----------------------------------------------------------------------------
(* Durable Object: frames from the client (handleDataChannelMessage).         *)

Fail(why) ==
    /\ fault' = why
    /\ UNCHANGED <<endpoints, stream, sender, receiver>>

\* Frames of a stream that is gone: neither credit nor seq is looked at.
ServerIgnores ==
    /\ \E type \in {"start", "data", "end", "abort"} : Heads(type, up)
    /\ srv \in {"gone", "forgotten"} /\ up' = Tail(up)
    /\ pub' = Awake
    /\ UNCHANGED <<loc, said, got, stream, sender, receiver, down, fault>>

\* response.start: handlePublicWebSocket goes on at once and accepts the public
\* socket, or refuses a subprotocol that was not asked for, silently.
ServerReceivesStart ==
    /\ Heads("start", up) /\ srv = "connecting"
    /\ \/ /\ srv' = "open" /\ pub' = "open"
          /\ UNCHANGED <<out, in, stage, held>>
       \/ ServerAborts
    /\ up' = Tail(up)
    /\ UNCHANGED <<loc, said, got, cli, chain, ends, sent, next, down, fault>>

InSequence(k, frame) == frame.seq = next[k]
EndsInSequence(k, frame) == frame.last = next[k] - 1
Bytes(k, frame) == said[k][frame.msg]

\* Mutant: a frame that is taken is not counted.
NotCounted(k, frame) == UNCHANGED next

\* consumeInbound, checkReceiveSeq, then the grant of the bytes (0 bytes: none).
Consume(k, frame) == next' = [next EXCEPT ![k] = @ + 1]
Credit(bytes) == IF bytes > 0 THEN <<[type |-> "credit", bytes |-> bytes]>> ELSE <<>>
Delivered(k, frame) == got' = [got EXCEPT ![k] = Append(@, frame.msg)]

\* deliverFrame, ws.server: the bytes are granted once they are sent (that the grant
\* waits until the public socket has room only delays it, as the channel may);
\* without an open public socket the frame is held, with its bytes.
ServerTakes(frame) ==
    /\ Consume("ws.server", frame)
    /\ IF pub = "open"
       THEN /\ Delivered("ws.server", frame)
            /\ down' = down \o Credit(Bytes("ws.server", frame))
            /\ UNCHANGED <<in, held>>
       ELSE /\ held' = Append(held, frame.msg)
            /\ in' = [in EXCEPT !["ws.server"] = @ - Bytes("ws.server", frame)]
            /\ UNCHANGED <<got, down>>
    /\ UNCHANGED <<pub, loc, said, stream, sender, fault>>

\* The public socket refuses the message: abortPublicStream.
ServerCannotSend(frame) ==
    /\ pub = "open" /\ Consume("ws.server", frame)
    /\ ServerAborts
    /\ down' = Append(down, [type |-> "abort"])
    /\ UNCHANGED <<loc, said, got, cli, chain, ends, sent, fault>>

\* The public socket is not open, and the frames that the streams of the object hold
\* leave no room for this one (enqueuePendingFrame): abortStream, at once. The client
\* is not told, and a close that is not handled yet will find no stream.
ServerOverflows(frame) ==
    /\ pub # "open" /\ Bytes("ws.server", frame) > 0
    /\ Consume("ws.server", frame)
    /\ ServerCleansUp
    /\ pub' = IF pub = "left" THEN "unheard" ELSE pub
    /\ UNCHANGED <<loc, said, got, cli, chain, ends, sent, down, fault>>

ServerReceivesData ==
    /\ Heads("data", up) /\ srv = "open"
    /\ LET frame == Head(up)
       IN IF Bytes("ws.server", frame) > in["ws.server"]
          THEN Fail("credit.violation") /\ UNCHANGED down
          ELSE IF ~InSequence("ws.server", frame)
          THEN Fail("seq.discontinuity") /\ UNCHANGED down
          ELSE \/ ServerTakes(frame)
               \/ ServerCannotSend(frame)
               \/ ServerOverflows(frame)
    /\ up' = Tail(up)

\* finishStreamDirection
ServerReceivesEnd ==
    /\ Heads("end", up) /\ srv = "open"
    /\ IF ~EndsInSequence("ws.server", Head(up)) THEN Fail("lastSeq.mismatch")
       ELSE /\ ServerCleansUp /\ pub' = PublicClosing
            /\ UNCHANGED <<loc, said, got, cli, chain, ends, sent, next, fault>>
    /\ up' = Tail(up) /\ UNCHANGED down

ServerReceivesAbort ==
    /\ Heads("abort", up) /\ srv \in {"connecting", "open"}
    /\ ServerAborts
    /\ up' = Tail(up)
    /\ UNCHANGED <<loc, said, got, cli, chain, ends, sent, next, down, fault>>

\* applyStreamCredit
Granted(k, bytes) == out' = [out EXCEPT ![k] = @ + bytes] /\ stage' = Woken(k)

ServerReceivesCredit ==
    /\ Heads("credit", up)
    /\ Granted("ws.client", Head(up).bytes)
    /\ up' = Tail(up) /\ pub' = Awake
    /\ UNCHANGED <<loc, said, got, stream, chain, ends, sent, receiver, down, fault>>

-----------------------------------------------------------------------------
(* The local server and what the client hears of it (startWebSocketProxy).    *)

\* handleRequestStart, handleWebSocket up to waitForOpen.
ClientReceivesRequest ==
    /\ Heads("request", down)
    /\ cli' = "opening" /\ loc' = "connecting" /\ Seeded("ws.server")
    /\ down' = Tail(down)
    /\ UNCHANGED <<pub, said, got, srv, chain, stage, ends, sent, next, held, up, fault>>

\* The local socket opens: until the listeners are on, nobody hears it.
LocalAccepts ==
    /\ loc = "connecting"
    /\ loc' = "open" /\ cli' = "starting"
    /\ UNCHANGED <<pub, said, got, srv, sender, receiver, down, up, fault>>

\* It does not open, or not within 15 seconds: abortResponseStream.
LocalRefuses ==
    /\ cli = "opening" /\ loc = "connecting"
    /\ cli' = "gone" /\ loc' = "closed" /\ CreditsGo("ws.server")
    /\ ToServer(<<[type |-> "abort"]>>)
    /\ UNCHANGED <<pub, said, got, srv, chain, ends, sent, next, held, fault>>

\* Room in the data socket: response.start goes out, and the listeners are set.
SendResponseStart ==
    /\ cli = "starting"
    /\ cli' = "open"
    /\ ToServer(<<[type |-> "start"]>>)
    /\ UNCHANGED <<endpoints, srv, sender, receiver, fault>>

\* The onMessage listener. Without it the message is lost; too big a message closes
\* the local socket; the message of a stream that is gone gets no further.
LocalSends(bytes) ==
    /\ loc \in {"open", "closing"} /\ Speaks("ws.server", bytes)
    /\ \/ /\ cli \in {"starting", "gone"}
          /\ UNCHANGED <<loc, chain>>
       \/ /\ cli = "open" /\ bytes > MaxMessage
          /\ loc' = "closing"
          /\ UNCHANGED chain
       \/ /\ cli = "open" /\ bytes <= MaxMessage
          /\ Enqueue("ws.server")
          /\ UNCHANGED loc
    /\ UNCHANGED <<pub, got, stream, stage, ends, sent, out, receiver, down, up, fault>>

\* The onClose listener, up to the wait for room. The closing handshake comes to an
\* end, whoever started it.
LocalCloses ==
    /\ loc \in {"open", "closing"}
    /\ loc' = "closed"
    /\ IF cli = "open" THEN DeclareEnd("ws.server") ELSE UNCHANGED ends
    /\ UNCHANGED <<pub, said, got, stream, chain, stage, sent, out, receiver, down, up, fault>>

-----------------------------------------------------------------------------
(* Client: the frames of the channel, in turn (dispatchStreamFrame).          *)

ClientIgnores ==
    /\ \E type \in {"data", "end", "abort"} : Heads(type, down)
    /\ cli = "gone" /\ down' = Tail(down)
    /\ UNCHANGED <<endpoints, stream, sender, receiver, up, fault>>

\* deliverInboundFrame: a socket that closes takes the message and drops it. For an
\* empty message encodeMetadata refuses the credit frame, and the stream is aborted.
ClientTakes(frame) ==
    /\ Consume("ws.client", frame)
    /\ IF loc = "open" THEN Delivered("ws.client", frame) ELSE UNCHANGED got
    /\ IF Bytes("ws.client", frame) > 0
       THEN /\ up' = up \o Credit(Bytes("ws.client", frame))
            /\ UNCHANGED <<loc, cli, out, in, stage, held>>
       ELSE ClientAborts /\ up' = Append(up, [type |-> "abort"])
    /\ UNCHANGED <<pub, said, srv, chain, ends, sent, fault>>

ClientReceivesData ==
    /\ Heads("data", down) /\ cli # "gone"
    /\ LET frame == Head(down)
       IN IF Bytes("ws.client", frame) > in["ws.client"]
          THEN Fail("credit.violation") /\ UNCHANGED up
          ELSE IF ~InSequence("ws.client", frame)
          THEN Fail("seq.discontinuity") /\ UNCHANGED up
          ELSE ClientTakes(frame)
    /\ down' = Tail(down)

\* finishIncomingDirection: the local socket closes, the stream stays until it has.
ClientReceivesEnd ==
    /\ Heads("end", down) /\ cli # "gone"
    /\ IF ~EndsInSequence("ws.client", Head(down)) THEN Fail("lastSeq.mismatch")
       ELSE /\ loc' = LocalClosing
            /\ UNCHANGED <<pub, said, got, stream, sender, receiver, fault>>
    /\ down' = Tail(down) /\ UNCHANGED up

ClientReceivesAbort ==
    /\ Heads("abort", down) /\ cli # "gone"
    /\ ClientAborts
    /\ down' = Tail(down)
    /\ UNCHANGED <<pub, said, got, srv, chain, ends, sent, next, up, fault>>

ClientReceivesCredit ==
    /\ Heads("credit", down)
    /\ Granted("ws.server", Head(down).bytes)
    /\ down' = Tail(down)
    /\ UNCHANGED <<endpoints, stream, chain, ends, sent, receiver, up, fault>>

-----------------------------------------------------------------------------
Sends(k) == AskCredit(k) \/ SendData(k)
ServerSteps == \/ SendRequestEnd \/ Sends("ws.client") \/ PublicClosed
           \/ ServerIgnores \/ ServerReceivesStart \/ ServerReceivesData
           \/ ServerReceivesEnd \/ ServerReceivesAbort \/ ServerReceivesCredit
ClientSteps == \/ SendResponseStart \/ SendResponseEnd \/ Sends("ws.server")
           \/ ClientReceivesRequest \/ ClientIgnores \/ ClientReceivesData
           \/ ClientReceivesEnd \/ ClientReceivesAbort \/ ClientReceivesCredit
Endpoints == \/ PublicConnects \/ PublicLeaves \/ PublicBreaks
             \/ LocalAccepts \/ LocalRefuses \/ LocalCloses
             \/ \E bytes \in Sizes["ws.client"] : PublicSends(bytes)
             \/ \E bytes \in Sizes["ws.server"] : LocalSends(bytes)
Timeouts == StartTimeout \/ PendingTimeout \/ Hibernate \/ OtherEvent

Next == fault = "none" /\ (ServerSteps \/ ClientSteps \/ Endpoints \/ Timeouts)

Spec == Init /\ [][Next]_vars

\* The runtimes run what is runnable and the data socket delivers. A local socket
\* opens or fails within 15 seconds, and the ws library ends a closing handshake
\* by itself. Nothing else is assumed of the endpoints.
FairSpec == /\ Spec
            /\ WF_vars(fault = "none" /\ ServerSteps)
            /\ WF_vars(fault = "none" /\ ClientSteps)
            /\ WF_vars(fault = "none" /\ (LocalAccepts \/ LocalRefuses))
            /\ WF_vars(fault = "none" /\ loc = "closing" /\ LocalCloses)

-----------------------------------------------------------------------------
(* What holds.                                                                *)

\* Type invariant.
TypeOK ==
    /\ pub \in Public /\ loc \in Local /\ srv \in Server /\ cli \in Client
    /\ said \in [Kinds -> Seq(Nat)] /\ got \in [Kinds -> Seq(Nat)]
    /\ chain \in [Kinds -> Seq(Nat)] /\ stage \in [Kinds -> Stage]
    /\ ends \in [Kinds -> Seq(Int)] /\ sent \in [Kinds -> Nat]
    /\ out \in [Kinds -> Nat] /\ next \in [Kinds -> Nat]
    /\ in \in [Kinds -> Nat] /\ held \in Seq(Nat)
    /\ fault \in {"none", "credit.violation", "seq.discontinuity", "lastSeq.mismatch"}

\* Each endpoint hears the other's messages in order and none twice; what is left out
\* before the last one heard was too big, or sent before the client listened.
InOrder ==
    \A k \in Kinds : \A i \in DOMAIN got[k] :
        LET before == IF i > 1 THEN got[k][i - 1] ELSE IF k = "ws.client" THEN 0
                                                  ELSE got[k][i] - 1
        IN /\ before < got[k][i]
           /\ \A m \in before + 1 .. got[k][i] - 1 : said[k][m] > MaxMessage

\* Bytes of k that travel, or are held for a public socket that is not open.
DataInFlight(k, link) ==
    SumFunction([i \in DOMAIN link |-> IF link[i].type = "data" THEN Bytes(k, link[i]) ELSE 0])
CreditInFlight(link) ==
    SumFunction([i \in DOMAIN link |-> IF link[i].type = "credit" THEN link[i].bytes ELSE 0])
Held(k) == IF k = "ws.client" THEN 0
           ELSE SumFunction([i \in DOMAIN held |-> said[k][held[i]]])

\* While both sides know the stream, every byte of each window is in one place.
StreamCreditConserved ==
    cli \in {"opening", "starting", "open"} /\ srv \in {"connecting", "open"} =>
        /\ out["ws.client"] + DataInFlight("ws.client", down) + CreditInFlight(up)
              = StreamCredit
        /\ out["ws.server"] + DataInFlight("ws.server", up) + CreditInFlight(down)
              + Held("ws.server") = StreamCredit
        /\ in["ws.server"] = StreamCredit - Held("ws.server")

\* A sender sleeps only while its stream is there and the credit it wants is not:
\* whatever ends the stream wakes it.
NoLostWakeup ==
    \A k \in Kinds : stage[k] = "waiting" => CanSend(k) /\ ~HasOutbound(k)

\* Nothing of the public socket reaches the client before its listeners are on, so
\* its queue for early frames (pendingInboundFrames) is never needed and never
\* overtaken; and no message is handed to a public socket that was not accepted.
UpstreamFirst ==
    /\ (\E f \in Range(down) : f.type \in {"data", "end", "abort"}) =>
           cli \in {"open", "gone"}
    /\ held # <<>> => pub # "none"

\* The only fault a stream can bring on the connection is the end that does not
\* count a message still in the chain: sequences and windows are kept.
OnlyCloseFaults == fault \in {"none", "lastSeq.mismatch"}

\* A public client that closes ends the stream on the server and closes the local
\* socket, whatever is queued, on its way or waiting for credit, unless the object
\* hibernates before it hears of the close, or a frame of the local server comes
\* before it while the object holds as much as it may.
PublicCloseReachesLocal ==
    pub = "left" /\ srv = "open" ~>
        \/ srv = "gone" /\ loc = "closed"
        \/ srv = "forgotten" \/ pub = "unheard" \/ fault # "none"

\* A close of the local server that the client hears reaches the public client, also
\* after hibernation, when its response.end is a frame of no known stream.
HeardCloseReachesPublic ==
    ends["ws.server"] # <<>> ~> pub # "open" \/ fault # "none"

-----------------------------------------------------------------------------
(* What does not hold.                                                        *)

\* protocol-v4.md: when the local WebSocket closes, response.end is sent, which
\* closes the public WebSocket. A close before the listeners are on is not heard.
LocalCloseReachesPublic == loc = "closed" ~> pub # "open" \/ fault # "none"

\* The local socket of a stream that the object forgot does not stay open.
ForgottenReachesLocal == srv = "forgotten" ~> loc # "open" \/ fault # "none"

\* The local socket of a public client that left before the pending limit was hit
\* does not stay open.
UnheardReachesLocal == pub = "unheard" ~> loc # "open" \/ fault # "none"

\* protocol-v4.md: the close of a public or local WebSocket is a stream-level event
\* that must not close the clientConnection. lastSeq is read before the wait for
\* room, and a message of the chain may be sent during the wait.
ClosesStayLocal == fault = "none"
=============================================================================
