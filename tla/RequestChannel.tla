--------------------------- MODULE RequestChannel ---------------------------
(* One data channel and the HTTP request bodies it carries, from the Durable     *)
(* Object (src/apps/server/src/durable/tunnel.ts) to the client SDK              *)
(* (src/packages/client/src/client-connection.ts, queue.ts) and the local        *)
(* origin. Every request has a body; of the responses only start and end are     *)
(* here (ResponseChannel has their bodies).                                      *)
(*                                                                               *)
(* The client handles the frames of a channel one after the other: a frame is    *)
(* not looked at before the handler of the one before it is done, and a handler  *)
(* that writes to the local request waits until the origin has read the chunk    *)
(* (the writer is that of a TransformStream without any room of its own).        *)
EXTENDS Integers, Sequences, SequencesExt

CONSTANTS
    Streams,        \* stream ids
    NoStream,       \* no stream
    Body,           \* Body[s]: chunk sizes, in bytes, of the request of s
    Answered,       \* bound: streams whose origin may answer
    Troubled,       \* bound: streams that may be cancelled, time out or fail
    StreamCredit,   \* limits.streamCreditBytes
    ChannelCredit   \* limits.channelCreditBytes

ASSUME NoStreamAssumption == NoStream \notin Streams
ASSUME BodyAssumption == Body \in [Streams -> Seq(Nat)]
ASSUME BoundsAssumption == Answered \subseteq Streams /\ Troubled \subseteq Streams
ASSUME LimitsAssumption == StreamCredit \in Nat /\ ChannelCredit \in Nat

VARIABLES
    \* Durable Object.
    pc,          \* where pumpPublicRequestBody of a stream is
    open,        \* the streams map
    started,     \* streams whose response started
    sent,        \* sendNextSeq of request.body
    outStream,   \* outboundStreamCredit (0 for a missing key)
    outChannel,  \* outboundChannelCredit
    \* Frames on the data channel.
    down,        \* server to client, the ones queued at the client included
    up,          \* client to server
    \* Client.
    busy,        \* the stream whose chunk the channel's handler is writing
    live,        \* StreamRegistry.streams
    next,        \* receiveNextSeq of request.body
    inStream,    \* inboundStreamCredit (0 for a missing key)
    inChannel,   \* inboundChannelCredit
    \* Local origin.
    writer,      \* requestWriter, as the origin's request body sees it
    read,        \* chunks the origin read, in order
    answered,    \* streams whose response.start was sent
    fault        \* why the client failed the connection

server == <<pc, open, started, sent, outStream, outChannel>>
client == <<busy, live, next, inStream, inChannel>>
origin == <<writer, read, answered>>
vars == <<server, down, up, client, origin, fault>>

Place == {"absent", "reading", "waiting", "woken", "cleared", "ending",
          "aborting", "gone"}
Writer == {"none", "open", "closed", "errored"}

Init == /\ pc = [s \in Streams |-> "absent"] /\ open = {} /\ started = {}
        /\ sent = [s \in Streams |-> 0]
        /\ outStream = [s \in Streams |-> 0] /\ outChannel = ChannelCredit
        /\ down = <<>> /\ up = <<>>
        /\ busy = NoStream /\ live = {}
        /\ next = [s \in Streams |-> 0]
        /\ inStream = [s \in Streams |-> 0] /\ inChannel = ChannelCredit
        /\ writer = [s \in Streams |-> "none"]
        /\ read = [s \in Streams |-> <<>>] /\ answered = {}
        /\ fault = "none"

Size(s, n) == Body[s][n + 1]

\* sendMetadataFrameByChannel and socket.send of each side; room in the socket only
\* delays a frame, as the channel does.
ToClientSend(frame) == down' = Append(down, frame)
ToServerSend(frames) == up' = up \o frames

-----------------------------------------------------------------------------
(* Durable Object: credits and the end of a stream.                           *)

\* Mutant: the sleeping pumps are not told.
NobodyWoken == pc

\* wakeWaiters
Woken == [s \in Streams |-> IF pc[s] = "waiting" THEN "woken" ELSE pc[s]]

Go(s, place) == pc' = [pc EXCEPT ![s] = place]

\* Mutant: the window of the stream is not looked at.
HasChannelCredit(s) == outChannel >= Size(s, sent[s])

HasOutbound(s) == LET bytes == Size(s, sent[s])
                  IN outStream[s] >= bytes /\ outChannel >= bytes

\* canSendForStream
CanSend(s) == s \in open

\* abortStream and cleanupStream: every waiter is woken.
CleanUp(s) ==
    /\ open' = open \ {s}
    /\ outStream' = [outStream EXCEPT ![s] = 0]
    /\ started' = started \ {s}

\* The catch block of pumpPublicRequestBody: only a stream still registered is
\* aborted, and the client told.
PumpFails(s) ==
    IF CanSend(s)
    THEN CleanUp(s) /\ pc' = [Woken EXCEPT ![s] = "aborting"]
    ELSE Go(s, "gone") /\ UNCHANGED <<open, outStream, started>>

-----------------------------------------------------------------------------
(* Durable Object: the pump of one request (pumpPublicRequestBody).           *)

\* handlePublicHttp up to the wait for the response.
PublicRequest(s) ==
    /\ pc[s] = "absent"
    /\ Go(s, "reading")
    /\ open' = open \cup {s}
    /\ outStream' = [outStream EXCEPT ![s] = StreamCredit]
    /\ ToClientSend([type |-> "request", id |-> s])
    /\ UNCHANGED <<started, sent, outChannel, up, client, origin, fault>>

\* A chunk is there, or a sleeper was woken: waitForOutbound.
AskCredit(s) ==
    /\ \/ pc[s] = "reading" /\ sent[s] < Len(Body[s])
       \/ pc[s] = "woken"
    /\ IF ~CanSend(s) THEN PumpFails(s)
       ELSE /\ Go(s, IF HasOutbound(s) THEN "cleared" ELSE "waiting")
            /\ UNCHANGED <<open, outStream, started>>
    /\ UNCHANGED <<sent, outChannel, down, up, client, origin, fault>>

\* Mutant: only the channel's credit is spent.
ChannelCreditOnly(s, bytes) ==
    /\ outStream' = outStream
    /\ outChannel' = outChannel - bytes

\* decrementOutbound
Spend(s, bytes) ==
    /\ outStream' = [outStream EXCEPT ![s] = @ - bytes]
    /\ outChannel' = outChannel - bytes

\* There is room in the socket; decrementOutbound throws after the frame is out.
SendData(s) ==
    /\ pc[s] = "cleared"
    /\ ToClientSend([type |-> "data", id |-> s, seq |-> sent[s]])
    /\ sent' = [sent EXCEPT ![s] = @ + 1]
    /\ IF HasOutbound(s)
       THEN /\ Spend(s, Size(s, sent[s]))
            /\ Go(s, "reading")
            /\ UNCHANGED <<open, started>>
       ELSE PumpFails(s) /\ UNCHANGED outChannel
    /\ UNCHANGED <<up, client, origin, fault>>

\* The public body is at its end; the stream is not looked at.
BodyRead(s) ==
    /\ pc[s] = "reading" /\ sent[s] = Len(Body[s])
    /\ Go(s, "ending")
    /\ UNCHANGED <<open, started, sent, outStream, outChannel, down, up, client, origin, fault>>

\* Mutant: the seq that would come next.
NextSeq(s) == sent[s]

LastSentSeq(s) == sent[s] - 1

SendEnd(s) ==
    /\ pc[s] = "ending"
    /\ Go(s, "gone")
    /\ ToClientSend([type |-> "end", id |-> s, last |-> LastSentSeq(s)])
    /\ UNCHANGED <<open, started, sent, outStream, outChannel, up, client, origin, fault>>

\* The public client goes away during its upload.
BodyFails(s) ==
    /\ s \in Troubled /\ pc[s] = "reading"
    /\ PumpFails(s)
    /\ UNCHANGED <<sent, outChannel, down, up, client, origin, fault>>

SendAbort(s) ==
    /\ pc[s] = "aborting"
    /\ Go(s, "gone")
    /\ ToClientSend([type |-> "abort", id |-> s])
    /\ UNCHANGED <<open, started, sent, outStream, outChannel, up, client, origin, fault>>

-----------------------------------------------------------------------------
(* Durable Object: the response and frames from the client.                   *)

\* The public client cancels the response: abortPublicStream.
PublicCancel(s) ==
    /\ s \in Troubled \cap started
    /\ CleanUp(s) /\ pc' = Woken
    /\ ToClientSend([type |-> "abort", id |-> s])
    /\ UNCHANGED <<sent, outChannel, up, client, origin, fault>>

\* STREAM_RESPONSE_START_TIMEOUT_MS: the client is not told.
Timeout(s) ==
    /\ s \in Troubled \cap (open \ started)
    /\ CleanUp(s) /\ pc' = Woken
    /\ UNCHANGED <<sent, outChannel, down, up, client, origin, fault>>

ToServer(type) == up # <<>> /\ Head(up).type = type

ReceiveStreamCredit ==
    /\ ToServer("stream.credit")
    /\ outStream' = [outStream EXCEPT ![Head(up).id] = @ + Head(up).bytes]
    /\ pc' = Woken
    /\ up' = Tail(up)
    /\ UNCHANGED <<open, started, sent, outChannel, down, client, origin, fault>>

ReceiveChannelCredit ==
    /\ ToServer("channel.credit")
    /\ outChannel' = outChannel + Head(up).bytes
    /\ pc' = Woken
    /\ up' = Tail(up)
    /\ UNCHANGED <<open, started, sent, outStream, down, client, origin, fault>>

ReceiveStart ==
    /\ ToServer("start")
    /\ started' = started \cup ({Head(up).id} \cap open)
    /\ up' = Tail(up)
    /\ UNCHANGED <<pc, open, sent, outStream, outChannel, down, client, origin, fault>>

\* The end of a response, or its abort, ends the stream, also when the pump still
\* has chunks to send.
ReceiveEndOrAbort ==
    /\ ToServer("end") \/ ToServer("abort")
    /\ LET s == Head(up).id
       IN IF s \in open THEN CleanUp(s) /\ pc' = Woken
          ELSE UNCHANGED <<pc, open, outStream, started>>
    /\ up' = Tail(up)
    /\ UNCHANGED <<sent, outChannel, down, client, origin, fault>>

-----------------------------------------------------------------------------
(* Client: the frames of the channel, in turn (handleDataMessage).            *)

\* Mutant: a frame does not wait until the one before it was dealt with.
AnyTurn(type) == down # <<>> /\ Head(down).type = type

\* The handler of the frame before is done.
Turn(type) == busy = NoStream /\ down # <<>> /\ Head(down).type = type

\* abortLocalStream: the local request is aborted, its body errors.
AbortLocal(s) ==
    /\ live' = live \ {s}
    /\ inStream' = [inStream EXCEPT ![s] = 0]
    /\ writer' = [writer EXCEPT ![s] = IF @ = "closed" THEN @ ELSE "errored"]

\* abortResponseStream: only a stream still registered tells the server.
AbortResponse(s) ==
    /\ AbortLocal(s)
    /\ ToServerSend(IF s \in live THEN <<[type |-> "abort", id |-> s]>> ELSE <<>>)

\* A frame for a closed stream: neither credit nor seq is looked at.
IgnoreFrame ==
    /\ \E type \in {"data", "end", "abort"} : Turn(type)
    /\ Head(down).id \notin live
    /\ down' = Tail(down)
    /\ UNCHANGED <<server, up, client, origin, fault>>

\* seedStream
Seed(s) == inStream' = [inStream EXCEPT ![s] = StreamCredit]

\* handleRequestStart, startHttpProxy up to the local request.
ReceiveRequest ==
    /\ Turn("request")
    /\ LET s == Head(down).id
       IN /\ live' = live \cup {s}
          /\ Seed(s)
          /\ writer' = [writer EXCEPT ![s] = "open"]
    /\ down' = Tail(down)
    /\ UNCHANGED <<server, up, busy, next, inChannel, read, answered, fault>>

Fail(why) ==
    /\ fault' = why
    /\ UNCHANGED <<up, client, origin>>

\* consumeInbound refuses what is beyond either window.
HasInbound(s, bytes) == inStream[s] >= bytes /\ inChannel >= bytes

\* checkReceiveSeq, checkReceiveEndSeq
InSequence(s, seq) == seq = next[s]
EndsInSequence(s, last) == last = next[s] - 1

\* deliverInboundFrame up to the write: it fails on an errored writer.
TakeChunk(s, bytes) ==
    /\ inChannel' = inChannel - bytes
    /\ next' = [next EXCEPT ![s] = @ + 1]
    /\ IF writer[s] = "errored"
       THEN AbortResponse(s) /\ UNCHANGED busy
       ELSE /\ busy' = s
            /\ inStream' = [inStream EXCEPT ![s] = @ - bytes]
            /\ UNCHANGED <<up, live, writer>>
    /\ UNCHANGED <<read, answered, fault>>

ReceiveData ==
    /\ Turn("data") /\ Head(down).id \in live
    /\ LET s == Head(down).id
           bytes == Size(s, Head(down).seq)
       IN IF ~HasInbound(s, bytes) THEN Fail("credit.violation")
          ELSE IF ~InSequence(s, Head(down).seq) THEN Fail("seq.discontinuity")
          ELSE TakeChunk(s, bytes)
    /\ down' = Tail(down)
    /\ UNCHANGED server

\* finishIncomingDirection: closing an errored writer fails.
ReceiveEnd ==
    /\ Turn("end") /\ Head(down).id \in live
    /\ LET s == Head(down).id
       IN IF ~EndsInSequence(s, Head(down).last) THEN Fail("lastSeq.mismatch")
          ELSE IF writer[s] = "errored"
          THEN AbortResponse(s) /\ UNCHANGED <<busy, next, inChannel, read, answered, fault>>
          ELSE /\ writer' = [writer EXCEPT ![s] = "closed"]
               /\ UNCHANGED <<up, client, read, answered, fault>>
    /\ down' = Tail(down)
    /\ UNCHANGED server

ReceiveAbort ==
    /\ Turn("abort") /\ Head(down).id \in live
    /\ AbortLocal(Head(down).id)
    /\ down' = Tail(down)
    /\ UNCHANGED <<server, up, busy, next, inChannel, read, answered, fault>>

-----------------------------------------------------------------------------
(* The local origin and what the client does for it.                          *)

\* The two credit frames of grantInboundCredit.
Credits(s, bytes) == << [type |-> "stream.credit", id |-> s, bytes |-> bytes],
                        [type |-> "channel.credit", bytes |-> bytes] >>

\* grantInbound, for a chunk the origin has read: also when the stream was closed
\* meanwhile.
Grant(s, bytes) ==
    /\ inStream' = [inStream EXCEPT ![s] = @ + bytes]
    /\ inChannel' = inChannel + bytes

\* The write is done. A stream.credit frame of 0 bytes is invalid: encodeMetadata
\* throws, and an empty chunk aborts its own stream.
OriginReads(s) ==
    /\ busy = s
    /\ busy' = NoStream
    /\ read' = [read EXCEPT ![s] = Append(@, next[s] - 1)]
    /\ LET bytes == Size(s, next[s] - 1)
       IN IF bytes > 0
          THEN /\ Grant(s, bytes) /\ ToServerSend(Credits(s, bytes))
               /\ UNCHANGED <<live, writer>>
          ELSE IF s \in live THEN AbortResponse(s) /\ UNCHANGED inChannel
          ELSE UNCHANGED <<inStream, inChannel, up, live, writer>>
    /\ UNCHANGED <<server, down, next, answered, fault>>

\* handleHttp resolves, response.start is sent.
OriginAnswers(s) ==
    /\ s \in Answered \cap (live \ answered)
    /\ answered' = answered \cup {s}
    /\ ToServerSend(<<[type |-> "start", id |-> s]>>)
    /\ UNCHANGED <<server, down, client, writer, read, fault>>

\* The response is complete: response.end is sent and the stream cleaned up. The
\* writer of the request is left as it is.
ResponseEnds(s) ==
    /\ s \in live \cap answered
    /\ live' = live \ {s}
    /\ inStream' = [inStream EXCEPT ![s] = 0]
    /\ ToServerSend(<<[type |-> "end", id |-> s]>>)
    /\ UNCHANGED <<server, down, busy, next, inChannel, origin, fault>>

\* Mutant: the blocked write goes on and takes what the origin reads later.
StillBlocked(s) == busy

\* What becomes of a blocked write whose writer errors.
Unblocked(s) == IF busy = s THEN NoStream ELSE busy

\* The local request or the read of its response fails.
OriginFails(s) ==
    /\ s \in Troubled \cap live
    /\ AbortResponse(s)
    /\ busy' = Unblocked(s)
    /\ UNCHANGED <<server, down, next, inChannel, read, answered, fault>>

\* The origin wants no more of the request body: a blocked write fails at once
\* and aborts the stream, a later one when it comes.
OriginDropsBody(s) ==
    /\ s \in Troubled /\ writer[s] = "open"
    /\ writer' = [writer EXCEPT ![s] = "errored"]
    /\ busy' = Unblocked(s)
    /\ IF busy = s /\ s \in live
       THEN /\ live' = live \ {s}
            /\ inStream' = [inStream EXCEPT ![s] = 0]
            /\ ToServerSend(<<[type |-> "abort", id |-> s]>>)
       ELSE UNCHANGED <<live, inStream, up>>
    /\ UNCHANGED <<server, down, next, inChannel, read, answered, fault>>

-----------------------------------------------------------------------------
Pump(s) == AskCredit(s) \/ SendData(s) \/ BodyRead(s) \/ SendEnd(s) \/ SendAbort(s)
ServerReceives == \/ ReceiveStreamCredit \/ ReceiveChannelCredit
                  \/ ReceiveStart \/ ReceiveEndOrAbort
ClientReceives == \/ IgnoreFrame \/ ReceiveRequest \/ ReceiveData
                  \/ ReceiveEnd \/ ReceiveAbort
Local(s) == \/ OriginReads(s) \/ OriginAnswers(s) \/ ResponseEnds(s)
            \/ OriginFails(s) \/ OriginDropsBody(s)

Next == /\ fault = "none"
        /\ \/ ClientReceives \/ ServerReceives
           \/ \E s \in Streams : \/ PublicRequest(s) \/ Pump(s) \/ BodyFails(s)
                                 \/ PublicCancel(s) \/ Timeout(s) \/ Local(s)

Spec == Init /\ [][Next]_vars

\* The runtimes run what is runnable and sockets deliver. Nothing is assumed of
\* public clients and of the origin.
StalledSpec == /\ Spec
               /\ WF_vars(fault = "none" /\ ClientReceives)
               /\ WF_vars(fault = "none" /\ ServerReceives)
               /\ \A s \in Streams : WF_vars(fault = "none" /\ Pump(s))

\* Moreover the origin reads the bodies it is sent.
FairSpec == StalledSpec /\ \A s \in Streams : WF_vars(fault = "none" /\ OriginReads(s))

-----------------------------------------------------------------------------
(* What holds.                                                                *)

\* Type invariant.
TypeOK ==
    /\ pc \in [Streams -> Place] /\ started \subseteq open /\ open \subseteq Streams
    /\ sent \in [Streams -> Nat]
    /\ outStream \in [Streams -> Nat] /\ outChannel \in Nat
    /\ busy \in Streams \cup {NoStream} /\ live \subseteq Streams
    /\ next \in [Streams -> Nat]
    /\ inStream \in [Streams -> Nat] /\ inChannel \in Nat
    /\ writer \in [Streams -> Writer]
    /\ read \in [Streams -> Seq(Nat)] /\ answered \subseteq Streams
    /\ fault \in {"none", "credit.violation", "seq.discontinuity", "lastSeq.mismatch"}

\* Bytes of s in data frames that the client has not taken, or is writing.
DataInFlight(s) ==
    SumFunction([i \in DOMAIN down |-> IF down[i].type = "data" /\ down[i].id = s
                                       THEN Size(s, down[i].seq) ELSE 0])
BeingWritten(s) == IF busy = s THEN Size(s, next[s] - 1) ELSE 0
CreditInFlight(s) ==
    SumFunction([i \in DOMAIN up |-> IF up[i].type = "stream.credit" /\ up[i].id = s
                                     THEN up[i].bytes ELSE 0])

\* While the connection is up and both sides know a stream, every byte of its window
\* is in exactly one place: credit of the server, a data frame, the write, a credit
\* frame.
StreamCreditConserved ==
    fault = "none" => \A s \in live \cap open :
        /\ outStream[s] + DataInFlight(s) + BeingWritten(s) + CreditInFlight(s)
              = StreamCredit
        /\ inStream[s] = StreamCredit - BeingWritten(s)

\* A pump sleeps in waitForOutbound only while its stream is registered and the
\* credit it wants is missing.
NoLostWakeup == \A s \in Streams : pc[s] = "waiting" => s \in open /\ ~HasOutbound(s)

\* However streams are aborted, answered early or timed out, no frame is out of
\* sequence or ends a body with the wrong count: such a fault would take down
\* every stream of the connection.
NoProtocolError == fault \notin {"seq.discontinuity", "lastSeq.mismatch"}

\* A request body that ends, ends complete: the origin saw an end of the body only
\* after every chunk, in order.
CleanEndIsWhole ==
    \A s \in Streams : writer[s] = "closed" =>
        read[s] = [n \in 1..Len(Body[s]) |-> n - 1]

\* Seen from outside, request bodies are byte streams in order, each within its
\* window, that take nothing once they ended.
Bytestream == INSTANCE ByteStream WITH
                  Window <- StreamCredit,
                  accepted <- read,
                  ended <- {s \in Streams : writer[s] \in {"closed", "errored"}}
ImplementsByteStream == Bytestream!Spec

\* What the channel's window has lost for good: no credit of the server, in no data
\* frame, not being written, in no credit frame. Frames of closed streams are
\* dropped and writes that fail are given up without a grant.
ChannelCreditLost ==
    ChannelCredit
    - ( outChannel
        + SumFunction([i \in DOMAIN down |->
              IF down[i].type = "data" THEN Size(down[i].id, down[i].seq) ELSE 0])
        + SumFunction([s \in Streams |-> BeingWritten(s)])
        + SumFunction([i \in DOMAIN up |->
              IF up[i].type = "channel.credit" THEN up[i].bytes ELSE 0]) )

\* The next chunk of s does not fit any more into what is left of the window.
Starved(s) == pc[s] = "waiting" /\ ChannelCreditLost + Size(s, sent[s]) > ChannelCredit

\* An upload gets through to an origin that reads it, unless one of the sides ends
\* the stream, or aborted streams of the same channel have cost so much of the
\* channel's window that the next chunk exceeds the rest: whatever is not lost
\* comes back as credit and wakes the pump.
UploadsFinish ==
    \A s \in Streams :
        s \in open ~> (writer[s] = "closed" \/ s \notin open \/ fault # "none" \/ Starved(s))

-----------------------------------------------------------------------------
(* What does not hold.                                                        *)

\* protocol-v4.md: request.abort of an active stream aborts the local request.
\* The frame waits its turn behind the write of a chunk that the origin does not
\* read, and with it every frame of the channel.
CancelReachesOrigin ==
    \A s \in Streams :
        pc[s] = "aborting" ~> (writer[s] = "errored" \/ s \notin live \/ fault # "none")

\* protocol-v4.md: an abort concerns one stream, the other streams and the connection
\* go on. Data frames of the aborted stream that the client drops take their part
\* of the channel's window with them.
AbortSparesOthers ==
    \A s \in Streams \ Troubled :
        s \in open ~> (writer[s] = "closed" \/ s \notin open \/ fault # "none")
=============================================================================
