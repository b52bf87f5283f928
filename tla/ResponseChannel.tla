--------------------------- MODULE ResponseChannel ---------------------------
(* One data channel and the HTTP response bodies it carries, from the client     *)
(* SDK (src/packages/client/src/client-connection.ts, credit.ts) to the Durable  *)
(* Object (src/apps/server/src/durable/tunnel.ts, credit.ts).                    *)
(*                                                                               *)
(* JavaScript runs one callback at a time. A coroutine of the client is cut      *)
(* where it waits for something else than a microtask of its own: the origin,    *)
(* credit, room in the socket. A handler of the Durable Object is one step: what *)
(* it awaits here is already there.                                              *)
(*                                                                               *)
(* A chunk is named by its number, which is also the seq of its frame; the       *)
(* origin of stream s produces Len(Body[s]) of them. The connection ends with    *)
(* the first fault (HostcTunnel has what follows).                               *)
EXTENDS Integers, Sequences, SequencesExt, FiniteSetsExt

CONSTANTS
    Streams,        \* stream ids the public side uses
    Body,           \* Body[s]: chunk sizes, in bytes, of the response to s
    StreamCredit,   \* limits.streamCreditBytes
    ChannelCredit,  \* limits.channelCreditBytes
    PendingLimit,   \* limits.pendingDataBytes
    HighWater       \* chunks the public ReadableStream takes unread

ASSUME StreamsAssumption == IsFiniteSet(Streams)
ASSUME BodyAssumption == Body \in [Streams -> Seq(Nat)]
ASSUME LimitsAssumption == /\ StreamCredit \in Nat
                           /\ ChannelCredit \in Nat
                           /\ PendingLimit \in Nat
                           /\ HighWater \in Nat \ {0}

VARIABLES
    \* Client.
    pc,            \* where the coroutine that serves a stream is
    live,          \* StreamRegistry.streams
    sent,          \* sendNextSeq of response.body
    outStream,     \* outboundStreamCredit (0 for a missing key)
    outChannel,    \* outboundChannelCredit
    \* Frames on the data channel.
    up,            \* client to server
    down,          \* server to client
    \* Durable Object.
    phase,         \* "waiting" and "open" streams are in the streams map
    next,          \* receiveNextSeq of response.body
    pending,       \* pendingFrames
    pendingTotal,  \* pendingDataBytes
    inStream,      \* inboundStreamCredit (0 for a missing key)
    inChannel,     \* inboundChannelCredit
    \* Public response.
    accepted,      \* chunks enqueued on the responseController, in order
    unread,        \* how many of them the public client has not read
    outcome,       \* how the stream ended
    fault          \* why the connection failed

client == <<pc, live, sent, outStream, outChannel>>
server == <<phase, next, pending, pendingTotal, inStream, inChannel>>
response == <<accepted, unread, outcome>>
vars == <<client, up, down, server, response, fault>>

Place == {"absent", "fetching", "starting", "reading", "waiting", "woken",
          "cleared", "ending", "aborting", "gone"}
Phase == {"absent", "waiting", "open", "closed"}
Outcome == {"none", "ended", "error", "cancelled"}

Init == /\ pc = [s \in Streams |-> "absent"] /\ live = {}
        /\ sent = [s \in Streams |-> 0]
        /\ outStream = [s \in Streams |-> 0] /\ outChannel = ChannelCredit
        /\ up = <<>> /\ down = <<>>
        /\ phase = [s \in Streams |-> "absent"]
        /\ next = [s \in Streams |-> 0]
        /\ pending = [s \in Streams |-> <<>>] /\ pendingTotal = 0
        /\ inStream = [s \in Streams |-> 0] /\ inChannel = ChannelCredit
        /\ accepted = [s \in Streams |-> <<>>]
        /\ unread = [s \in Streams |-> 0]
        /\ outcome = [s \in Streams |-> "none"]
        /\ fault = "none"

-----------------------------------------------------------------------------
(* Chunks and frames.                                                         *)

Size(s, n) == Body[s][n + 1]
Bytes(s, chunks) == SumFunction([i \in DOMAIN chunks |-> Size(s, chunks[i])])

\* grantInbound: the frames that return the credit of one accepted chunk, none
\* for an empty one.
CreditFrames(s, n) ==
    IF Size(s, n) = 0 THEN <<>>
    ELSE << [type |-> "stream.credit", id |-> s, bytes |-> Size(s, n)],
            [type |-> "channel.credit", bytes |-> Size(s, n)] >>
Grants(s, chunks) ==
    LET frames[n \in 0..Len(chunks)] ==
            IF n = 0 THEN <<>> ELSE frames[n - 1] \o CreditFrames(s, chunks[n])
    IN frames[Len(chunks)]

-----------------------------------------------------------------------------
(* Client: credits and the end of a stream.                                   *)

\* Mutant: the sleeping senders are not told.
NobodyWoken == pc

\* wakeWaiters: every coroutine asleep in waitForOutbound looks again.
Woken == [s \in Streams |-> IF pc[s] = "waiting" THEN "woken" ELSE pc[s]]

\* The coroutines after one of them, s, moved to place.
Go(s, place) == pc' = [pc EXCEPT ![s] = place]
GoAndWake(s, place) == pc' = [Woken EXCEPT ![s] = place]

\* Mutant: the window of the stream is not looked at.
HasChannelCredit(s) == outChannel >= Size(s, sent[s])

HasOutbound(s) == LET bytes == Size(s, sent[s])
                  IN outStream[s] >= bytes /\ outChannel >= bytes

\* cleanupStream, from the coroutine of s on its way to place.
CleanUp(s, place) ==
    IF s \in live
    THEN /\ live' = live \ {s}
         /\ outStream' = [outStream EXCEPT ![s] = 0]
         /\ GoAndWake(s, place)
    ELSE /\ Go(s, place)
         /\ UNCHANGED <<live, outStream>>

\* abortResponseStream: only a stream still registered tells the server.
AbortResponse(s) == CleanUp(s, IF s \in live THEN "aborting" ELSE "gone")

-----------------------------------------------------------------------------
(* Client: the coroutine of one stream (startHttpProxy).                      *)

\* The origin answered. canSendForStream fails once the stream is aborted.
Answered(s) ==
    /\ pc[s] = "fetching"
    /\ Go(s, IF s \in live THEN "starting" ELSE "gone")
    /\ UNCHANGED <<live, sent, outStream, outChannel, up, down, server, response, fault>>

SendStart(s) ==
    /\ pc[s] = "starting"
    /\ Go(s, "reading")
    /\ up' = Append(up, [type |-> "start", id |-> s])
    /\ UNCHANGED <<live, sent, outStream, outChannel, down, server, response, fault>>

\* A chunk is there, or a sleeper was woken: waitForOutbound.
AskCredit(s) ==
    /\ \/ pc[s] = "reading" /\ sent[s] < Len(Body[s])
       \/ pc[s] = "woken"
    /\ Go(s, IF s \notin live THEN "gone"
             ELSE IF HasOutbound(s) THEN "cleared" ELSE "waiting")
    /\ UNCHANGED <<live, sent, outStream, outChannel, up, down, server, response, fault>>

\* Mutant: only the channel's credit is spent.
ChannelCreditOnly(s, bytes) ==
    /\ outStream' = outStream
    /\ outChannel' = outChannel - bytes

\* decrementOutbound
Spend(s, bytes) ==
    /\ outStream' = [outStream EXCEPT ![s] = @ - bytes]
    /\ outChannel' = outChannel - bytes

\* There is room in the socket. Neither the stream nor the credit is looked at
\* again; decrementOutbound, which throws without credit, comes after the frame.
SendData(s) ==
    /\ pc[s] = "cleared"
    /\ up' = Append(up, [type |-> "data", id |-> s, seq |-> sent[s]])
    /\ sent' = [sent EXCEPT ![s] = @ + 1]
    /\ IF HasOutbound(s)
       THEN /\ Spend(s, Size(s, sent[s]))
            /\ Go(s, "reading")
            /\ UNCHANGED live
       ELSE AbortResponse(s) /\ UNCHANGED outChannel
    /\ UNCHANGED <<down, server, response, fault>>

BodyRead(s) ==
    /\ pc[s] = "reading" /\ sent[s] = Len(Body[s])
    /\ Go(s, IF s \in live THEN "ending" ELSE "gone")
    /\ UNCHANGED <<live, sent, outStream, outChannel, up, down, server, response, fault>>

\* Mutant: the seq that would come next.
NextSeq(s) == sent[s]

LastSentSeq(s) == sent[s] - 1

SendEnd(s) ==
    /\ pc[s] = "ending"
    /\ up' = Append(up, [type |-> "end", id |-> s, last |-> LastSentSeq(s)])
    /\ CleanUp(s, "gone")
    /\ UNCHANGED <<sent, outChannel, down, server, response, fault>>

\* The local request or the read of its body fails.
OriginFails(s) ==
    /\ pc[s] \in {"fetching", "reading"}
    /\ AbortResponse(s)
    /\ UNCHANGED <<sent, outChannel, up, down, server, response, fault>>

SendAbort(s) ==
    /\ pc[s] = "aborting"
    /\ up' = Append(up, [type |-> "abort", id |-> s])
    /\ Go(s, "gone")
    /\ UNCHANGED <<live, sent, outStream, outChannel, down, server, response, fault>>

-----------------------------------------------------------------------------
(* Client: frames from the server (handleDataMessage).                        *)

ToClient(type) == down # <<>> /\ Head(down).type = type

\* handleRequestStart
ReceiveRequest ==
    /\ ToClient("request")
    /\ LET s == Head(down).id
       IN /\ live' = live \cup {s}
          /\ outStream' = [outStream EXCEPT ![s] = StreamCredit]
          /\ Go(s, "fetching")
    /\ down' = Tail(down)
    /\ UNCHANGED <<sent, outChannel, up, server, response, fault>>

\* applyStreamCredit: also for a stream that is closed.
ReceiveStreamCredit ==
    /\ ToClient("stream.credit")
    /\ outStream' = [outStream EXCEPT ![Head(down).id] = @ + Head(down).bytes]
    /\ pc' = Woken
    /\ down' = Tail(down)
    /\ UNCHANGED <<live, sent, outChannel, up, server, response, fault>>

ReceiveChannelCredit ==
    /\ ToClient("channel.credit")
    /\ outChannel' = outChannel + Head(down).bytes
    /\ pc' = Woken
    /\ down' = Tail(down)
    /\ UNCHANGED <<live, sent, outStream, up, server, response, fault>>

\* abortLocalStream; ignored for a closed stream.
ReceiveRequestAbort ==
    /\ ToClient("request.abort")
    /\ LET s == Head(down).id
       IN IF s \in live
          THEN /\ live' = live \ {s}
               /\ outStream' = [outStream EXCEPT ![s] = 0]
               /\ pc' = Woken
          ELSE UNCHANGED <<live, outStream, pc>>
    /\ down' = Tail(down)
    /\ UNCHANGED <<sent, outChannel, up, server, response, fault>>

-----------------------------------------------------------------------------
(* Durable Object: accepting chunks and ending streams.                       *)

Open(s) == phase[s] \in {"waiting", "open"}

\* desiredSize of the responseController, none before the response starts.
Room(s) == IF phase[s] = "open" THEN HighWater - unread[s] ELSE 0

\* deliverFrame for the chunks: the responseController takes them and their
\* credit goes back, to the counters at once and to the client as frames.
Accept(s, chunks) ==
    /\ accepted' = [accepted EXCEPT ![s] = @ \o chunks]
    /\ down' = down \o Grants(s, chunks)

\* How many pending frames flushPendingFrames delivers into `room`.
Pulled(s, room) == IF Len(pending[s]) < room THEN Len(pending[s]) ELSE room

\* flushPendingFrames, with `left` chunks unread before it.
Flush(s, left) ==
    LET n == Pulled(s, HighWater - left)
        chunks == SubSeq(pending[s], 1, n)
    IN /\ Accept(s, chunks)
       /\ unread' = [unread EXCEPT ![s] = left + n]
       /\ pending' = [pending EXCEPT ![s] = SubSeq(@, n + 1, Len(@))]
       /\ pendingTotal' = pendingTotal - Bytes(s, chunks)
       /\ inStream' = [inStream EXCEPT ![s] = @ + Bytes(s, chunks)]
       /\ inChannel' = inChannel + Bytes(s, chunks)

\* Mutant: a cleaned-up stream keeps its share of the limit.
TotalKept(S) == pendingTotal

PendingBytes == [s \in Streams |-> Bytes(s, pending[s])]

\* pendingDataBytes once cleanupStream has dropped the frames of S.
TotalWithout(S) ==
    LET total == pendingTotal - SumFunctionOnSet(PendingBytes, S)
    IN IF total < 0 THEN 0 ELSE total

\* cleanupStream
CleanUpStreams(S) ==
    /\ phase' = [s \in Streams |-> IF s \in S THEN "closed" ELSE phase[s]]
    /\ pending' = [s \in Streams |-> IF s \in S THEN <<>> ELSE pending[s]]
    /\ pendingTotal' = TotalWithout(S)
    /\ inStream' = [s \in Streams |-> IF s \in S THEN 0 ELSE inStream[s]]

\* abortStream: the public response errors, what it holds unread is lost.
AbortStreams(S, how) ==
    /\ CleanUpStreams(S)
    /\ outcome' = [s \in Streams |-> IF s \in S THEN how ELSE outcome[s]]
    /\ unread' = [s \in Streams |-> IF s \in S THEN 0 ELSE unread[s]]

\* failClientConnection, as far as this channel goes.
Fail(why) ==
    /\ fault' = why
    /\ AbortStreams({s \in Streams : Open(s)}, "error")
    /\ UNCHANGED <<next, inChannel, accepted, down>>

-----------------------------------------------------------------------------
(* Durable Object: the public request and the public response.                *)

\* handlePublicHttp up to the wait for the response.
PublicRequest(s) ==
    /\ phase[s] = "absent"
    /\ phase' = [phase EXCEPT ![s] = "waiting"]
    /\ inStream' = [inStream EXCEPT ![s] = StreamCredit]
    /\ down' = Append(down, [type |-> "request", id |-> s])
    /\ UNCHANGED <<client, up, next, pending, pendingTotal, inChannel, response, fault>>

\* The public client reads a chunk; the room it leaves makes the public body
\* pull, unless it is closed.
Read(s) ==
    /\ unread[s] > 0
    /\ IF phase[s] = "open" THEN Flush(s, unread[s] - 1)
       ELSE /\ unread' = [unread EXCEPT ![s] = @ - 1]
            /\ UNCHANGED <<accepted, down, pending, pendingTotal, inStream, inChannel>>
    /\ UNCHANGED <<client, up, phase, next, outcome, fault>>

\* abortPublicStream: the public client cancels, or its request body fails.
PublicAbort(s) ==
    /\ Open(s)
    /\ AbortStreams({s}, "cancelled")
    /\ down' = Append(down, [type |-> "request.abort", id |-> s])
    /\ UNCHANGED <<client, up, next, inChannel, accepted, fault>>

\* STREAM_RESPONSE_START_TIMEOUT_MS, or armPendingFrameTimeout: the client is
\* not told.
Timeout(s) ==
    /\ phase[s] = "waiting" \/ pending[s] # <<>>
    /\ AbortStreams({s}, "error")
    /\ UNCHANGED <<client, up, down, next, inChannel, accepted, fault>>

-----------------------------------------------------------------------------
(* Durable Object: frames from the client (handleDataChannelMessage).         *)

ToServer(type) == up # <<>> /\ Head(up).type = type

\* A frame for a stream that is no more: neither credit nor seq is looked at.
IgnoreFrame ==
    /\ up # <<>> /\ ~Open(Head(up).id)
    /\ up' = Tail(up)
    /\ UNCHANGED <<client, down, server, response, fault>>

\* A response with a body opens the public one, whose start and pull flush.
ReceiveStart(s) ==
    /\ ToServer("start") /\ Head(up).id = s /\ phase[s] = "waiting"
    /\ phase' = [phase EXCEPT ![s] = "open"]
    /\ Flush(s, 0)
    /\ up' = Tail(up)
    /\ UNCHANGED <<client, next, outcome, fault>>

\* A response without a body ends the stream.
ReceiveBodyless(s) ==
    /\ ToServer("start") /\ Head(up).id = s /\ phase[s] = "waiting"
    /\ Body[s] = <<>>
    /\ CleanUpStreams({s})
    /\ outcome' = [outcome EXCEPT ![s] = "ended"]
    /\ up' = Tail(up)
    /\ UNCHANGED <<client, down, next, inChannel, accepted, unread, fault>>

\* handlePublicHttp refuses the response (its status cannot be proxied).
RefuseStart(s) ==
    /\ ToServer("start") /\ Head(up).id = s /\ phase[s] = "waiting"
    /\ AbortStreams({s}, "error")
    /\ up' = Tail(up)
    /\ UNCHANGED <<client, down, next, inChannel, accepted, fault>>

\* The frame is taken in: consumeInbound, checkReceiveSeq.
Consume(s, bytes) ==
    /\ inStream' = [inStream EXCEPT ![s] = @ - bytes]
    /\ inChannel' = inChannel - bytes
    /\ next' = [next EXCEPT ![s] = @ + 1]

\* deliverFrame succeeds: consumed and granted at once. Frames that are pending
\* are not looked at.
DeliverChunk(s) ==
    /\ Room(s) > 0
    /\ Accept(s, <<Head(up).seq>>)
    /\ unread' = [unread EXCEPT ![s] = @ + 1]
    /\ next' = [next EXCEPT ![s] = @ + 1]
    /\ UNCHANGED <<phase, pending, pendingTotal, inStream, inChannel, outcome>>

\* enqueuePendingFrame
BufferChunk(s) ==
    LET bytes == Size(s, Head(up).seq)
    IN /\ Room(s) = 0 /\ pendingTotal + bytes <= PendingLimit
       /\ pending' = [pending EXCEPT ![s] = Append(@, Head(up).seq)]
       /\ pendingTotal' = pendingTotal + bytes
       /\ Consume(s, bytes)
       /\ UNCHANGED <<phase, down, response>>

RefuseChunk(s) ==
    LET bytes == Size(s, Head(up).seq)
    IN /\ Room(s) = 0 /\ pendingTotal + bytes > PendingLimit
       /\ inChannel' = inChannel - bytes
       /\ next' = [next EXCEPT ![s] = @ + 1]
       /\ AbortStreams({s}, "error")
       /\ UNCHANGED <<down, accepted>>

\* consumeInbound refuses what is beyond either window.
HasInbound(s, bytes) == inStream[s] >= bytes /\ inChannel >= bytes

\* checkReceiveSeq and checkReceiveEndSeq: frames received count, delivered or not.
InSequence(s, seq) == seq = next[s]
EndsInSequence(s, last) == last = next[s] - 1

ReceiveData(s) ==
    /\ ToServer("data") /\ Head(up).id = s /\ Open(s)
    /\ LET bytes == Size(s, Head(up).seq)
       IN IF ~HasInbound(s, bytes) THEN Fail("credit.violation")
          ELSE IF ~InSequence(s, Head(up).seq) THEN Fail("protocol.error")
          ELSE /\ DeliverChunk(s) \/ BufferChunk(s) \/ RefuseChunk(s)
               /\ UNCHANGED fault
    /\ up' = Tail(up)
    /\ UNCHANGED client

\* finishStreamDirection: the public body closes after what it holds unread;
\* the pending frames go with the stream.
FinishResponse(s) ==
    /\ CleanUpStreams({s})
    /\ outcome' = [outcome EXCEPT ![s] = "ended"]
    /\ UNCHANGED <<next, inChannel, accepted, unread, down, fault>>

ReceiveEnd(s) ==
    /\ ToServer("end") /\ Head(up).id = s /\ Open(s)
    /\ IF ~EndsInSequence(s, Head(up).last) THEN Fail("protocol.error")
       ELSE FinishResponse(s)
    /\ up' = Tail(up)
    /\ UNCHANGED client

ReceiveAbort(s) ==
    /\ ToServer("abort") /\ Head(up).id = s /\ Open(s)
    /\ AbortStreams({s}, "error")
    /\ up' = Tail(up)
    /\ UNCHANGED <<client, down, next, inChannel, accepted, fault>>

-----------------------------------------------------------------------------
Coroutine(s) == \/ Answered(s) \/ SendStart(s) \/ AskCredit(s) \/ SendData(s)
                \/ BodyRead(s) \/ SendEnd(s) \/ SendAbort(s)
ClientReceives == \/ ReceiveRequest \/ ReceiveStreamCredit
                  \/ ReceiveChannelCredit \/ ReceiveRequestAbort
ServerReceives == \/ IgnoreFrame
                  \/ \E s \in Streams :
                       \/ ReceiveStart(s) \/ ReceiveBodyless(s) \/ RefuseStart(s)
                       \/ ReceiveData(s) \/ ReceiveEnd(s) \/ ReceiveAbort(s)
Trouble(s) == OriginFails(s) \/ PublicAbort(s) \/ Timeout(s)

Next == /\ fault = "none"
        /\ \/ ClientReceives \/ ServerReceives
           \/ \E s \in Streams : \/ PublicRequest(s) \/ Coroutine(s)
                                 \/ Read(s) \/ Trouble(s)

Spec == Init /\ [][Next]_vars

\* The runtimes run what is runnable, sockets deliver, origins answer and public
\* clients read; nobody has to ask, cancel, fail or be late.
FairSpec == /\ Spec
            /\ WF_vars(fault = "none" /\ ClientReceives)
            /\ WF_vars(fault = "none" /\ ServerReceives)
            /\ \A s \in Streams : /\ WF_vars(fault = "none" /\ Coroutine(s))
                                  /\ WF_vars(fault = "none" /\ Read(s))

-----------------------------------------------------------------------------
(* What holds.                                                                *)

\* Type invariant.
TypeOK ==
    /\ pc \in [Streams -> Place] /\ live \subseteq Streams
    /\ sent \in [Streams -> Nat]
    /\ outStream \in [Streams -> Nat] /\ outChannel \in Nat
    /\ phase \in [Streams -> Phase]
    /\ next \in [Streams -> Nat]
    /\ pending \in [Streams -> Seq(Nat)] /\ pendingTotal \in Nat
    /\ inStream \in [Streams -> Nat] /\ inChannel \in Nat
    /\ accepted \in [Streams -> Seq(Nat)]
    /\ unread \in [Streams -> 0..HighWater]
    /\ outcome \in [Streams -> Outcome]
    /\ fault \in {"none", "credit.violation", "protocol.error"}

\* While a stream is registered on the server, what the public body took and
\* what is pending are together exactly the chunks received, in order: a frame
\* that is delivered directly never overtakes pending ones, because the public
\* body pulls whenever it has room.
InOrder ==
    \A s \in Streams :
        Open(s) => accepted[s] \o pending[s] = [i \in 1..next[s] |-> i - 1]

\* Bytes of s in frames on their way.
DataInFlight(s) ==
    SumFunction([i \in DOMAIN up |-> IF up[i].type = "data" /\ up[i].id = s
                                     THEN Size(s, up[i].seq) ELSE 0])
CreditInFlight(s) ==
    SumFunction([i \in DOMAIN down |-> IF down[i].type = "stream.credit" /\ down[i].id = s
                                       THEN down[i].bytes ELSE 0])

\* While a stream is registered on both sides, every byte of its window is in
\* exactly one place: credit of the client, a data frame, a pending frame or a
\* credit frame.
StreamCreditConserved ==
    \A s \in live :
        Open(s) => /\ outStream[s] + DataInFlight(s) + Bytes(s, pending[s])
                         + CreditInFlight(s) = StreamCredit
                   /\ inStream[s] = StreamCredit - Bytes(s, pending[s])

\* A coroutine sleeps in waitForOutbound only while its stream is registered
\* and the credit it wants is missing: no grant and no abort is missed.
NoLostWakeup == \A s \in Streams : pc[s] = "waiting" => s \in live /\ ~HasOutbound(s)

\* pendingDataBytes counts the pending frames of the registered streams and
\* stays within the limit, however streams end.
PendingAccounted ==
    /\ pendingTotal = SumFunction(PendingBytes)
    /\ pendingTotal <= PendingLimit

\* Whatever is aborted or late, the client's frames never look out of sequence
\* to the server: no seq gap, no wrong lastSeq.
NoProtocolError == fault # "protocol.error"

\* Seen from outside, the channel is a set of byte streams in order, each within
\* its window, that take nothing once they ended.
Bytestream == INSTANCE ByteStream WITH
                  Window <- StreamCredit,
                  ended <- {s \in Streams : phase[s] = "closed"}
ImplementsByteStream == Bytestream!Spec

\* A data channel that carries one body at a time keeps both windows: the
\* server never sees more than it granted.
NoCreditViolation == fault # "credit.violation"

\* A response whose public client keeps reading ends, on a channel that carries
\* one body at a time: credit always comes back and always wakes the sender.
ResponsesFinish ==
    \A s \in Streams : phase[s] = "waiting" ~> (outcome[s] # "none" \/ fault # "none")

\* When the public side gives up, the local origin is told: the coroutine that
\* serves the stream stops.
CancelReachesOrigin ==
    \A s \in Streams : outcome[s] = "cancelled" ~> (pc[s] = "gone" \/ fault # "none")

-----------------------------------------------------------------------------
(* What does not hold.                                                        *)

\* protocol-v4.md: the seq and lastSeq rules let the receiver know that it has
\* all of a body when it ends. The server ends the public body cleanly while
\* chunks that were received are still pending, and drops them.
CleanEndIsComplete ==
    \A s \in Streams : outcome[s] = "ended" => Len(accepted[s]) = Len(Body[s])

\* protocol-v4.md: a stream-level error affects one stream. The channel credit
\* that an aborted stream's frames took never comes back, and the other streams
\* of the channel run dry.
AbortsStayLocal ==
    \A s \in Streams : phase[s] = "open" ~> (outcome[s] # "none" \/ fault # "none")
=============================================================================
