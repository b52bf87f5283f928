------------------------------ MODULE Exchange ------------------------------
(* One public request and its answer as what is written on the data channel:    *)
(* what the Durable Object (src/apps/server/src/durable/tunnel.ts) and the       *)
(* client (src/packages/client/src/client-connection.ts) put into frames, refuse *)
(* to put into frames, and make of the frames they read, with the headers on     *)
(* their way through (adapters/local-origin.ts).                                 *)
(*                                                                               *)
(* The stream has id 1. Windows, waiting and the sharing of a channel are those  *)
(* of RequestChannel, ResponseChannel and WebSocketStream: here each side writes *)
(* a frame as soon as it has something to say.                                   *)
EXTENDS Headers

CONSTANTS
    Asked,       \* public requests
    Answers,     \* what local servers answer: a response, or an accepted WebSocket
    Closes,      \* close codes and reasons of WebSockets
    Troubles,    \* texts of errors, on both sides
    Sizes,       \* bytes of a chunk or message
    MaxSent,     \* bound: chunks or messages sent in each direction
    Strays,      \* messages of another program or version that turn up
    MaxFrame, MaxMetadata,   \* limits of the tunnel
    None

\* The server writes within the limits it hands out, defaultTunnelLimits: safe integers,
\* metadata within a frame and within what the peer decodes, and with room for a close.
ASSUME LimitsAssumption ==
    /\ MaxFrame \in 1 .. MaxSafe /\ MaxFrame < Power(LongBytes)
    /\ MaxMetadata \in 1 .. MaxFrame
    /\ DefaultMetadata \in Nat /\ MaxMetadata <= DefaultMetadata
    /\ MaxReason \in 0 .. MaxMetadata - 1
    /\ Sizes \subseteq 0 .. MaxFrame
    /\ MaxSent \in 0 .. MaxSafe /\ MaxSent < Power(WideBytes)

\* What the two programs are handed: texts with a length, headers with a name and a text.
\* The Headers of a fetch join headers of one name, but the cookies that are set. Nobody
\* closes a WebSocket with 1004, which is reserved.
IsText(v) == v = Text(v.word, v.bytes, v.looks) /\ v.bytes \in Nat
AreTexts(items) == items \in Seq(Range(items)) /\ \A v \in Range(items) : IsText(v)
AreHeaders(headers) ==
    /\ headers \in Seq(Range(headers))
    /\ \A h \in Range(headers) : h = Header(h.name.word, h.value) /\ IsText(h.value)
ASSUME AskedAssumption == \A r \in Asked :
    /\ r.kind \in {"http", "websocket"} /\ r.hasBody \in BOOLEAN
    /\ IsText(r.method) /\ IsText(r.target)
    /\ AreHeaders(r.headers) /\ Len(With(r.headers, {"accept-encoding"})) <= 1
    /\ r.kind = "websocket" => AreTexts(r.protocols)
ASSUME AnswersAssumption == \A a \in Answers :
    /\ a.kind = "http" => /\ a.hasBody \in BOOLEAN /\ a.status = Number(a.status.n)
                          /\ AreHeaders(a.headers)
    /\ a.kind = "websocket" => a.protocol = Undefined \/ IsText(a.protocol)
ASSUME ClosesAssumption == \A c \in Closes :
    c.code \in {Number(n) : n \in 1000 .. 4999 \ {1004}} /\ IsText(c.reason)
ASSUME TroublesAssumption == \A v \in Troubles : IsText(v)

VARIABLES
    server,   \* the stream on the server
    client,   \* and on the client
    request,  \* what the public client asked
    local,    \* what reached the local server
    public,   \* what reached the public client
    answer,   \* what the local server answered
    sent,     \* sent[side]: sendNextSeq of the side
    got,      \* got[side]: receiveNextSeq of the side
    parting,  \* parting[side]: how the side let go of the stream, and with what
    down, up, \* messages on their way to the client and to the server
    taken,    \* the header of the last message a side read without a fault
    stray,    \* whether a stray message turned up
    fault     \* which side failed the connection

ends == <<request, local, public, answer>>
counts == <<sent, got>>
vars == <<server, client, ends, counts, parting, down, up, taken, stray, fault>>

Sides == {"server", "client"}
Nothing == [how |-> "none"]
Init == /\ server = "none" /\ client = "none"
        /\ request = None /\ local = None /\ public = None /\ answer = None
        /\ sent = [s \in Sides |-> 0] /\ got = [s \in Sides |-> 0]
        /\ parting = [s \in Sides |-> Nothing]
        /\ down = <<>> /\ up = <<>> /\ taken = None /\ stray = FALSE /\ fault = "none"

-----------------------------------------------------------------------------
(* Writing a frame.                                                           *)

HeaderFor(type, flags, seq, bytes) ==
    [type |-> type, flags |-> flags, seq |-> seq, length |-> bytes,
     stream |-> IF type = "channel_credit" THEN 0 ELSE 1]
\* sendMetadataFrameByChannel throws before it sends anything, or sends.
Says(type, meta) ==
    Encodable(meta, type, MaxMetadata) /\ MetadataBytes(Json(meta)) <= MaxFrame
Frame(type, meta) ==
    LET bytes == MetadataBytes(Json(meta))
    IN [bytes |-> EncodeHeader(HeaderFor(type, 0, 0, bytes)),
        payload |-> [bytes |-> bytes, json |-> Json(meta)]]
Data(type, flags, seq, bytes) ==
    [bytes |-> EncodeHeader(HeaderFor(type, flags, seq, bytes)),
     payload |-> [bytes |-> bytes, json |-> Undefined]]
Said(type, meta) == IF Says(type, meta) THEN <<Frame(type, meta)>> ELSE <<>>

IsSocket == request.kind = "websocket"
BodyKind(side) == IF side = "server" THEN IF IsSocket THEN "ws.client" ELSE "request.body"
                                     ELSE IF IsSocket THEN "ws.server" ELSE "response.body"
OwnFlags == IF IsSocket THEN {1, 2} ELSE {0}

\* The metadata the two sides write.
RequestStart(r) ==
    [kind |-> Text(r.kind, 1, {}), method |-> r.method, target |-> r.target,
     headers |-> List(IF r.kind = "http" THEN ForwardedHttp(r.headers)
                                         ELSE ForwardedWebSocket(r.headers)),
     hasBody |-> Bool(r.hasBody),
     protocols |-> IF r.kind = "http" THEN Undefined ELSE List(r.protocols)]
ResponseStart(a) ==
    IF IsSocket THEN [status |-> Number(101), headers |-> List(<<>>),
                      hasBody |-> Bool(FALSE), protocol |-> a.protocol]
    ELSE [status |-> a.status, headers |-> List(FilterResponse(Entries(a.headers))),
          hasBody |-> Bool(a.hasBody)]
BodyEnd(side) == [kind |-> Text(BodyKind(side), 1, {}), lastSeq |-> Number(sent[side] - 1)]
SocketEnd(side, close) ==
    [kind |-> Text(BodyKind(side), 1, {}), lastSeq |-> Number(sent[side] - 1),
     code |-> NormalCode(close.code), reason |-> NormalReason(close.reason)]
Abort(reason) == [reason |-> reason]

\* filterHopByHopHeaders throws on headers that are not valid.
Filterable(headers) == IsHeaders(List(headers))

\* The answer of the server itself.
BadGateway == [by |-> "server", status |-> Number(502), headers |-> <<>>, ended |-> Undefined]

\* A side lets go of the stream.
Parts(side, how) == parting' = [parting EXCEPT ![side] = how]

-----------------------------------------------------------------------------
(* The server speaks.                                                         *)

\* handlePublicHttp, handlePublicWebSocket, up to request.start: what cannot be
\* sent is answered with 502.
PublicRequest(r) ==
    /\ server = "none" /\ fault = "none"
    /\ request' = r
    /\ IF Filterable(Entries(r.headers)) /\ Says("request_start", RequestStart(r))
       THEN /\ server' = "waiting" /\ down' = Append(down, Frame("request_start", RequestStart(r)))
            /\ UNCHANGED <<public, parting>>
       ELSE /\ server' = "over" /\ public' = BadGateway
            /\ Parts("server", [how |-> "refused"]) /\ UNCHANGED down
    /\ UNCHANGED <<client, local, answer, counts, up, taken, stray, fault>>

ServerOpen == server \in {"waiting", "answered"} /\ fault = "none"
Uploading == /\ ServerOpen /\ parting["server"] = Nothing
             /\ IF IsSocket THEN server = "answered" ELSE request.hasBody

PublicSends(bytes, flags) ==
    /\ Uploading /\ sent["server"] < MaxSent /\ flags \in OwnFlags
    /\ down' = Append(down, Data("request_data", flags, sent["server"], bytes))
    /\ sent' = [sent EXCEPT !["server"] = @ + 1]
    /\ UNCHANGED <<server, client, ends, got, parting, up, taken, stray, fault>>

\* The end of pumpPublicRequestBody: the stream stays for the response.
PublicEnds ==
    /\ ServerOpen /\ ~IsSocket /\ parting["server"] = Nothing
    /\ Parts("server", [how |-> "ended"])
    /\ down' = down \o Said("request_end", BodyEnd("server"))
    /\ UNCHANGED <<server, client, ends, counts, up, taken, stray, fault>>

\* handlePublicSocketClose
PublicCloses(close) ==
    /\ server = "answered" /\ IsSocket /\ fault = "none"
    /\ Says("request_end", SocketEnd("server", close))
    /\ down' = down \o Said("request_end", SocketEnd("server", close))
    /\ server' = "over" /\ Parts("server", [how |-> "closed", close |-> close])
    /\ UNCHANGED <<client, ends, counts, up, taken, stray, fault>>

\* The public body breaks, or the public client cancels: abortPublicStream and the
\* catch of pumpPublicRequestBody swallow what request.abort throws.
PublicBreaks(reason) ==
    /\ ServerOpen /\ ~IsSocket
    /\ server' = "over" /\ Parts("server", [how |-> "aborted"])
    /\ public' = IF server = "waiting" THEN BadGateway ELSE public
    /\ down' = down \o Said("request_abort", Abort(reason))
    /\ UNCHANGED <<client, request, local, answer, counts, up, taken, stray, fault>>

-----------------------------------------------------------------------------
(* The client speaks.                                                         *)

\* abortResponseStream: a failure of the local server, or of the client itself.
Aborted(reason) ==
    /\ client' = "over" /\ Parts("client", [how |-> "aborted"])
    /\ up' = up \o Said("response_abort", Abort(reason))

\* Errors the code makes itself are short.
OwnError == Text("refused", 1, {})

\* startHttpProxy and startWebSocketProxy once the local server answered; what
\* cannot be said of the answer aborts the stream.
LocalAnswers(a) ==
    /\ client = "asking" /\ fault = "none" /\ a.kind = request.kind
    /\ answer' = a
    /\ IF (a.kind = "http" => Filterable(Entries(a.headers)))
              /\ Says("response_start", ResponseStart(a))
       THEN /\ client' = "serving" /\ up' = up \o Said("response_start", ResponseStart(a))
            /\ UNCHANGED parting
       ELSE Aborted(OwnError)
    /\ UNCHANGED <<server, request, local, public, counts, down, taken, stray, fault>>

Serving == client = "serving" /\ fault = "none"

LocalSends(bytes, flags) ==
    /\ Serving /\ sent["client"] < MaxSent /\ flags \in OwnFlags
    /\ IF IsSocket THEN TRUE ELSE answer.hasBody
    /\ up' = Append(up, Data("response_data", flags, sent["client"], bytes))
    /\ sent' = [sent EXCEPT !["client"] = @ + 1]
    /\ UNCHANGED <<server, client, ends, got, parting, down, taken, stray, fault>>

LocalEnds ==
    /\ Serving /\ ~IsSocket
    /\ client' = "over" /\ Parts("client", [how |-> "ended"])
    /\ up' = up \o Said("response_end", BodyEnd("client"))
    /\ UNCHANGED <<server, ends, counts, down, taken, stray, fault>>

\* onClose: the stream goes, whether or not the end could be said.
LocalCloses(close) ==
    /\ Serving /\ IsSocket
    /\ client' = "over" /\ Parts("client", [how |-> "closed", close |-> close])
    /\ up' = up \o Said("response_end", SocketEnd("client", close))
    /\ UNCHANGED <<server, ends, counts, down, taken, stray, fault>>

LocalFails(reason) ==
    /\ client \in {"asking", "serving"} /\ fault = "none"
    /\ Aborted(reason)
    /\ UNCHANGED <<server, ends, counts, down, taken, stray, fault>>

-----------------------------------------------------------------------------
(* Reading a frame.                                                           *)

Type(m) == HeaderOf(m.bytes).type
\* decodeFrameView and isValidFrameForDirection
Accepted(m, direction) ==
    Readable(m.bytes, m.payload, MaxFrame) /\ ValidForDirection(Type(m), direction)
Understood(m) == Decodable(m.payload, Type(m), DefaultMetadata)
Credits == {"stream_credit", "channel_credit"}
\* A frame of the stream itself, and data that continues it.
OfStream(m) == HeaderOf(m.bytes).stream = 1
InTurn(side, m) == /\ HeaderOf(m.bytes).flags \in OwnFlags
                   /\ HeaderOf(m.bytes).seq = got[side]
EndsInTurn(side, peer, m) == /\ Understood(m)
                             /\ m.payload.json["kind"].word = BodyKind(peer)
                             /\ m.payload.json["lastSeq"].n = got[side] - 1
Counts(side) == got' = [got EXCEPT ![side] = @ + 1]

\* Each side grants credit for what it delivered.
Grants(side, bytes) ==
    Said("stream_credit", [kind |-> Text(BodyKind(side), 1, {}), bytes |-> Number(bytes)])
        \o Said("channel_credit", [bytes |-> Number(bytes)])

\* handleDataMessage: what the client cannot take fails the connection.
ClientFaults(m) ==
    \/ ~Accepted(m, "server-to-client")
    \/ Type(m) \in Credits /\ ~Understood(m)
    \/ /\ Type(m) \notin Credits /\ ~(OfStream(m) /\ client = "over")
       /\ IF Type(m) = "request_start" THEN ~Understood(m) \/ (OfStream(m) /\ client # "none")
          ELSE \/ ~OfStream(m) \/ client = "none"
               \/ CASE Type(m) = "request_data" -> ~InTurn("client", m)
                    [] Type(m) = "request_end" -> ~EndsInTurn("client", "server", m)
                    [] OTHER -> ~Understood(m)

\* handleRequestStart, and the adapter's half of the headers.
AsksLocal(m) ==
    LET meta == m.payload.json IN
    /\ client' = "asking"
    /\ local' = [kind |-> meta["kind"].word, target |-> meta["target"],
                 headers |-> IF meta["kind"].word = "http" THEN LocalHttp(meta["headers"].items)
                             ELSE LocalWebSocket(meta["headers"].items),
                 ended |-> Undefined]
    /\ UNCHANGED <<got, parting, up>>

\* dispatchStreamFrame, for request.data: an empty message aborts the stream, for
\* no credit can be said for it.
TakesData(m) ==
    LET bytes == m.payload.bytes IN
    /\ Counts("client")
    /\ IF bytes = 0 THEN Aborted(OwnError)
       ELSE up' = up \o Grants("server", bytes) /\ UNCHANGED <<client, parting>>
    /\ UNCHANGED local

TakesRequestEnd(m) ==
    /\ local' = [local EXCEPT !.ended = m.payload.json] /\ UNCHANGED <<client, got, parting, up>>
TakesAbort ==
    /\ client' = "over" /\ Parts("client", [how |-> "told"]) /\ UNCHANGED <<local, got, up>>
LeavesClient == UNCHANGED <<client, local, got, parting, up>>

ClientReads(m) ==
    IF ~OfStream(m) \/ Type(m) \in Credits \/ client = "over" THEN LeavesClient
    ELSE CASE Type(m) = "request_start" -> AsksLocal(m)
           [] Type(m) = "request_data" -> TakesData(m)
           [] Type(m) = "request_end" -> TakesRequestEnd(m)
           [] Type(m) = "request_abort" -> TakesAbort

ClientReceives ==
    /\ down # <<>> /\ fault = "none" /\ down' = Tail(down)
    /\ IF ClientFaults(Head(down))
       THEN fault' = "client" /\ LeavesClient /\ UNCHANGED taken
       ELSE /\ taken' = Head(down).bytes /\ ClientReads(Head(down))
            /\ UNCHANGED fault
    /\ UNCHANGED <<server, request, public, answer, sent, stray>>

\* handleDataChannelMessage. Frames of a stream that is over are ignored.
ServerFaults(m) ==
    \/ ~Accepted(m, "client-to-server")
    \/ Type(m) \in Credits /\ ~Understood(m)
    \/ /\ Type(m) \notin Credits /\ ~(OfStream(m) /\ server = "over")
       /\ \/ ~OfStream(m) \/ server = "none"
          \/ CASE Type(m) = "response_data" -> ~InTurn("server", m)
               [] Type(m) = "response_end" -> ~EndsInTurn("server", "client", m)
               [] OTHER -> ~Understood(m)

\* handlePublicHttp and handlePublicWebSocket, from responseStart on: an answer that
\* cannot be passed on becomes 502, and the stream is aborted silently.
Passable(meta) ==
    IF IsSocket
    THEN /\ meta["status"].n = 101
         /\ Given(meta, "protocol") => meta["protocol"] \in Range(request.protocols)
    ELSE /\ meta["status"].n >= 200
         /\ meta["hasBody"].b => meta["status"].n \notin {204, 205, 304}
TakesStart(m) ==
    LET meta == m.payload.json IN
    IF server # "waiting" THEN UNCHANGED <<server, public, parting>>
    ELSE IF ~Passable(meta)
    THEN /\ server' = "over" /\ public' = BadGateway
         /\ Parts("server", [how |-> "silent"])
    ELSE /\ public' = [by |-> "local", status |-> meta["status"], ended |-> Undefined,
                       headers |-> FilterResponse(meta["headers"].items)]
         /\ server' = IF IsSocket \/ meta["hasBody"].b THEN "answered" ELSE "over"
         /\ UNCHANGED parting

\* finishStreamDirection: the public body or socket is closed, if there is one.
TakesResponseEnd(m) ==
    /\ server' = "over"
    /\ public' = IF server = "answered" THEN [public EXCEPT !.ended = m.payload.json] ELSE public
    /\ UNCHANGED parting

TakesResponseAbort ==
    /\ server' = "over" /\ Parts("server", [how |-> "told"])
    /\ public' = IF server = "waiting" THEN BadGateway ELSE public

LeavesServer == UNCHANGED <<server, public, got, parting, down>>

ServerReads(m) ==
    IF ~OfStream(m) \/ Type(m) \in Credits \/ server = "over" THEN LeavesServer
    ELSE IF Type(m) = "response_data"
    THEN /\ Counts("server") /\ down' = down \o Grants("client", m.payload.bytes)
         /\ UNCHANGED <<server, public, parting>>
    ELSE /\ CASE Type(m) = "response_start" -> TakesStart(m)
              [] Type(m) = "response_end" -> TakesResponseEnd(m)
              [] Type(m) = "response_abort" -> TakesResponseAbort
         /\ UNCHANGED <<got, down>>

ServerReceives ==
    /\ up # <<>> /\ fault = "none" /\ up' = Tail(up)
    /\ IF ServerFaults(Head(up))
       THEN fault' = "server" /\ LeavesServer /\ UNCHANGED taken
       ELSE /\ taken' = Head(up).bytes /\ ServerReads(Head(up))
            /\ UNCHANGED fault
    /\ UNCHANGED <<client, request, local, answer, sent, stray>>

\* A peer of another version, or none of this program, writes on the channel (bound:
\* once, before the local server answers, and when nothing else is on its way), but
\* not the start of this stream.
ASSUME StraysAssumption == \A m \in Strays :
    /\ m.bytes \in Seq(0 .. Byte - 1)
    /\ Readable(m.bytes, m.payload, MaxFrame) => Type(m) \notin {"request_start", "response_start"}
StrayTurnsUp(m) ==
    /\ ~stray /\ fault = "none" /\ answer = None /\ stray' = TRUE
    /\ \/ down = <<>> /\ down' = <<m>> /\ UNCHANGED up
       \/ up = <<>> /\ up' = <<m>> /\ UNCHANGED down
    /\ UNCHANGED <<server, client, ends, counts, parting, taken, fault>>

Next ==
    \/ \E r \in Asked : PublicRequest(r)
    \/ \E bytes \in Sizes, flags \in DataFlags :
           PublicSends(bytes, flags) \/ LocalSends(bytes, flags)
    \/ PublicEnds \/ LocalEnds
    \/ \E close \in Closes : PublicCloses(close) \/ LocalCloses(close)
    \/ \E reason \in Troubles : PublicBreaks(reason) \/ LocalFails(reason)
    \/ \E a \in Answers : LocalAnswers(a)
    \/ ClientReceives \/ ServerReceives
    \/ \E m \in Strays : StrayTurnsUp(m)

Spec == Init /\ [][Next]_vars

-----------------------------------------------------------------------------
(* Properties.                                                                *)

\* What one side writes, the other reads: whatever requests, answers, close codes and
\* errors come, only a message of somebody else makes a side fail the connection.
\* (encodeMetadata and decodeMetadata validate apart, and with limits of their own.)
PeersUnderstand == fault # "none" => stray

\* There is one way to write a frame: a header that decodeFrameHeader takes is, byte for
\* byte, the one encodeFrameHeader writes, also if somebody else wrote it.
ReadIsCanonical == taken # None => EncodeHeader(HeaderOf(taken)) = taken

\* End to end, from the public client to the local server and back: what belongs to a
\* hop stays there (RFC 9110's list and what Connection names), the local server is
\* asked for an unencoded answer, its own name stands for the tunnel's, and everything
\* else arrives once and in order, cookies behind. A local WebSocket is opened with an
\* object of headers: of repeated ones, which only set-cookie can be, it gets the last.
HopOnly(headers) == HopByHop \cup Listed(headers)
Localise1(h) == IF Named(h, {"origin", "referer"}) THEN [h EXCEPT !.value = Localise(@)] ELSE h
Latest(headers) == IF headers = <<>> THEN <<>> ELSE <<headers[Len(headers)]>>
HeadersArrive ==
    /\ local # None =>
       LET asked == Entries(request.headers)
           kept == Without(asked, HopOnly(asked) \cup {"host", "content-length", "accept-encoding"}
                                  \cup IF IsSocket THEN WebSocketNames ELSE {})
           due == [i \in DOMAIN kept |-> Localise1(kept[i])]
           came == Without(local.headers, {"accept-encoding"})
       IN /\ IF ~IsSocket THEN came = due
             ELSE \A h \in Range(due) \cup Range(came) :
                      With(came, {h.name.word}) = Latest(With(due, {h.name.word}))
          /\ With(local.headers, {"accept-encoding"}) = <<Header("accept-encoding", Identity)>>
    /\ (public # None /\ public.by = "local" /\ ~IsSocket) =>
       public.headers = Entries(Without(answer.headers, HopOnly(answer.headers)
                                           \cup {"content-encoding", "content-length"}))

\* A body that ended and a WebSocket that closed are never left open at the other end,
\* and a close keeps its code wherever an application may use that code, however the
\* close came about (1005 and 1006 are no codes to send; reasons may be long).
SameCode(ended, parted) ==
    parted.how = "closed" =>
        ended["code"] = IF parted.close.code.n \in {1005, 1006} THEN Number(1000)
                        ELSE parted.close.code
EndsArrive ==
    /\ (parting["client"].how \in {"ended", "closed"} /\ up = <<>> /\ fault = "none") =>
           server = "over"
    /\ (parting["server"].how \in {"ended", "closed"} /\ down = <<>> /\ fault = "none") =>
           client = "over" \/ (client # "none" /\ local.ended # Undefined)
    /\ (public # None /\ public.ended # Undefined /\ ~stray) =>
           SameCode(public.ended, parting["client"])
    /\ (local # None /\ local.ended # Undefined /\ ~stray) =>
           SameCode(local.ended, parting["server"])

\* src/docs/refactor/protocol-v4.md:789: when the local request fails the client sends
\* response.abort, and when the public client leaves, the server sends request.abort: the
\* other side does not keep a stream that is over.
AbortsArrive ==
    /\ (parting["client"].how = "aborted" /\ up = <<>> /\ fault = "none") => server = "over"
    /\ (parting["server"].how = "aborted" /\ down = <<>> /\ fault = "none") =>
           client \in {"none", "over"}
=============================================================================
