------------------------------ MODULE Protocol ------------------------------
(* What both sides of a data channel agree on                                  *)
(* (src/packages/protocol/src/index.ts): the frame types, the header of a frame *)
(* as bytes, the metadata a frame may carry, limits, credits and the choice of  *)
(* a channel. Pure functions, no state.                                         *)
(*                                                                              *)
(* Numbers keep their width: a byte has Byte values, stream ids and sequence    *)
(* numbers take WideBytes bytes, the payload length takes LongBytes. A text is  *)
(* what the validators look at: its word, its length and the patterns it fits.  *)
EXTENDS Integers, Sequences, SequencesExt

CONSTANTS
    Byte, WideBytes, LongBytes,   \* 256, 8 and 4
    MaxSafe,          \* Number.MAX_SAFE_INTEGER, also MAX_CREDIT_BYTES
    MaxReason,        \* MAX_CLOSE_REASON_BYTES
    MaxUrl,           \* MAX_URL_BYTES
    MaxName, MaxValue, MaxHeaders, MaxHeaderCount, \* MAX_HEADER_*_BYTES, _COUNT
    MaxChannels,      \* MAX_DATA_CHANNELS
    DefaultMetadata   \* DEFAULT_MAX_METADATA_BYTES

ASSUME WireAssumption == /\ Byte \in Nat /\ Byte > 80
                         /\ WideBytes \in Nat \ {0} /\ LongBytes \in Nat \ {0}
ASSUME SafeAssumption == MaxSafe \in Nat \ {0} /\ MaxChannels \in Nat \ {0}

-----------------------------------------------------------------------------
(* Frame types.                                                                *)

Code == [request_start |-> 16, request_data |-> 17, request_end |-> 18,
         request_abort |-> 19, response_start |-> 32, response_data |-> 33,
         response_end |-> 34, response_abort |-> 35, stream_credit |-> 48,
         channel_credit |-> 49]
FrameTypes == DOMAIN Code
Codes == {Code[type] : type \in FrameTypes}
TypeOf(code) == CHOOSE type \in FrameTypes : Code[type] = code

Requests == {"request_start", "request_data", "request_end", "request_abort"}
Responses == {"response_start", "response_data", "response_end", "response_abort"}
DataTypes == {"request_data", "response_data"}
MetadataTypes == FrameTypes \ DataTypes

\* getFrameTypeDirection, isValidFrameForDirection: credits go both ways.
Direction(type) == IF type \in Requests THEN "server-to-client"
                   ELSE IF type \in Responses THEN "client-to-server" ELSE "both"
ValidForDirection(type, direction) ==
    direction = "both" \/ Direction(type) \in {"both", direction}

-----------------------------------------------------------------------------
(* The header of a frame: 5 bytes, the stream, the seq, the payload length.    *)

Power(n) == LET power[k \in 0 .. n] == IF k = 0 THEN 1 ELSE Byte * power[k - 1]
            IN power[n]
BigEndian(n, bytes) ==
    LET rest[k \in 0 .. bytes] == IF k = 0 THEN n ELSE rest[k - 1] \div Byte
    IN [i \in 1 .. bytes |-> rest[bytes - i] % Byte]
NumberOf(bytes) ==
    LET upto[k \in 0 .. Len(bytes)] == IF k = 0 THEN 0 ELSE Byte * upto[k - 1] + bytes[k]
    IN upto[Len(bytes)]

Magic == <<72, 67>>
Version == 4
HeaderBytes == 5 + 2 * WideBytes + LongBytes
DataFlags == {0, 1, 2}      \* none, a text, a binary WebSocket message

\* assertValidFrameHeader
ValidHeader(h) ==
    /\ h.type \in FrameTypes /\ h.flags \in 0 .. Byte - 1
    /\ h.stream \in 0 .. Power(WideBytes) - 1 /\ h.seq \in 0 .. Power(WideBytes) - 1
    /\ h.length \in 0 .. Power(LongBytes) - 1
    /\ h.type = "channel_credit" <=> h.stream = 0
    /\ h.type \in MetadataTypes => h.flags = 0 /\ h.seq = 0
    /\ h.type \in DataTypes => h.flags \in DataFlags

Positive(n) == n \in 1 .. MaxSafe
\* encodeFrameHeader and decodeFrameHeader refuse the same headers.
ValidFor(h, maxFrame) == ValidHeader(h) /\ Positive(maxFrame) /\ h.length <= maxFrame

EncodeHeader(h) == Magic \o <<Version, Code[h.type], h.flags>>
    \o BigEndian(h.stream, WideBytes) \o BigEndian(h.seq, WideBytes)
    \o BigEndian(h.length, LongBytes)

HeaderOf(bytes) ==
    [type   |-> TypeOf(bytes[4]), flags |-> bytes[5],
     stream |-> NumberOf(SubSeq(bytes, 6, 5 + WideBytes)),
     seq    |-> NumberOf(SubSeq(bytes, 6 + WideBytes, 5 + 2 * WideBytes)),
     length |-> NumberOf(SubSeq(bytes, 6 + 2 * WideBytes, HeaderBytes))]

\* decodeFrameView of a message: the bytes of its header, and its payload.
Readable(bytes, payload, maxFrame) ==
    /\ Len(bytes) = HeaderBytes
    /\ SubSeq(bytes, 1, 2) = Magic /\ bytes[3] = Version /\ bytes[4] \in Codes
    /\ ValidFor(HeaderOf(bytes), maxFrame)
    /\ payload.bytes = HeaderOf(bytes).length

-----------------------------------------------------------------------------
(* Metadata: a function from keys to values.                                   *)

Undefined == [is |-> "undefined"]
Number(n) == [is |-> "number", n |-> n]     \* a safe integer
Bool(b) == [is |-> "boolean", b |-> b]
List(items) == [is |-> "list", items |-> items]
Text(word, bytes, looks) ==
    [is |-> "text", word |-> word, bytes |-> bytes, looks |-> looks]

\* An item of a list is a text or a header.
ItemBytes(x) == IF "is" \in DOMAIN x THEN x.bytes ELSE x.name.bytes + x.value.bytes
Field(meta, key) == IF key \in DOMAIN meta THEN meta[key] ELSE Undefined
Given(meta, key) == Field(meta, key) # Undefined
OneOf(v, words) == v.is = "text" /\ v.word \in words

Weight(v) == CASE v.is = "text" -> v.bytes
               [] v.is = "list" -> SumFunction([i \in DOMAIN v.items |-> ItemBytes(v.items[i])])
               [] OTHER -> 0
\* The texts of a metadata object; keys and punctuation are left out.
MetadataBytes(meta) == SumFunction([key \in DOMAIN meta |-> Weight(meta[key])])
\* JSON.stringify, then JSON.parse: what is undefined is left out.
Json(meta) == [key \in {k \in DOMAIN meta : Given(meta, k)} |-> meta[key]]

IsToken(v, max) == v.is = "text" /\ v.bytes \in 1 .. max /\ "token" \in v.looks
IsMethod(v) == IsToken(v, 64)
IsProtocol(v) == IsToken(v, 128)
IsStatus(v) == v.is = "number" /\ v.n \in 100 .. 599
IsBool(v) == v.is = "boolean"
IsLastSeq(v) == v.is = "number" /\ v.n \in -1 .. MaxSafe
IsCreditBytes(v) == v.is = "number" /\ Positive(v.n)
IsReason(v) == v.is = "text" /\ v.bytes <= MaxReason

\* isValidTarget: in origin form, with neither // in front nor a backslash.
IsTarget(v) == /\ v.is = "text" /\ v.bytes \in 1 .. MaxUrl /\ "rooted" \in v.looks
               /\ v.looks \cap {"double-slash", "backslash", "control"} = {}

IsHeader(h) == /\ IsToken(h.name, MaxName)
               /\ h.value.bytes <= MaxValue /\ "control" \notin h.value.looks
IsHeaders(v) == /\ v.is = "list" /\ Len(v.items) <= MaxHeaderCount
                /\ \A i \in DOMAIN v.items : IsHeader(v.items[i])
                /\ Weight(v) <= MaxHeaders

\* normalizeCloseCode, normalizeCloseReason: line breaks become blanks, and what
\* does not fit is cut off.
CloseCodes == 1000 .. 4999 \ {1004, 1005, 1006}
\* Mutant: the code is passed on as it came.
RawCode(v) == v
NormalCode(v) == IF v.is = "number" /\ v.n \in CloseCodes THEN v ELSE Number(1000)
NormalReason(v) ==
    IF v = Undefined THEN Text("", 0, {})
    ELSE [v EXCEPT !.bytes = IF @ <= MaxReason THEN @ ELSE MaxReason,
                   !.looks = @ \ {"line-break"}]
IsClose(code, reason) ==
    /\ code = Undefined \/ NormalCode(code) = code
    /\ reason = Undefined \/ IsReason(reason)

IsRequestStart(meta) ==
    /\ DOMAIN meta \subseteq {"kind", "method", "target", "headers", "hasBody", "protocols"}
    /\ OneOf(Field(meta, "kind"), {"http", "websocket"})
    /\ IsMethod(Field(meta, "method")) /\ IsTarget(Field(meta, "target"))
    /\ IsHeaders(Field(meta, "headers")) /\ IsBool(Field(meta, "hasBody"))
    /\ OneOf(meta["kind"], {"websocket"}) => ~meta["hasBody"].b
    /\ Given(meta, "protocols") =>
           LET v == meta["protocols"]
           IN /\ v.is = "list" /\ Len(v.items) <= 32
              /\ \A i \in DOMAIN v.items : IsProtocol(v.items[i])
              /\ OneOf(meta["kind"], {"websocket"})

\* isRequestEndMetadata and isResponseEndMetadata: only a socket has a close code.
IsEnd(meta, body, socket) ==
    /\ DOMAIN meta \subseteq {"kind", "lastSeq", "code", "reason"}
    /\ OneOf(Field(meta, "kind"), {body, socket}) /\ IsLastSeq(Field(meta, "lastSeq"))
    /\ IF OneOf(meta["kind"], {body}) THEN ~Given(meta, "code") /\ ~Given(meta, "reason")
       ELSE IsClose(Field(meta, "code"), Field(meta, "reason"))

IsAbort(meta) == DOMAIN meta \subseteq {"reason"} /\ IsReason(Field(meta, "reason"))

IsResponseStart(meta) ==
    /\ DOMAIN meta \subseteq {"status", "headers", "hasBody", "protocol"}
    /\ IsStatus(Field(meta, "status")) /\ IsHeaders(Field(meta, "headers"))
    /\ IsBool(Field(meta, "hasBody"))
    /\ Given(meta, "protocol") => IsProtocol(meta["protocol"])

DataKinds == {"request.body", "response.body", "ws.client", "ws.server"}
IsStreamCredit(meta) ==
    /\ DOMAIN meta \subseteq {"kind", "bytes"}
    /\ OneOf(Field(meta, "kind"), DataKinds) /\ IsCreditBytes(Field(meta, "bytes"))
IsChannelCredit(meta) == DOMAIN meta \subseteq {"bytes"} /\ IsCreditBytes(Field(meta, "bytes"))

\* isMetadataForFrameType
IsMetadataFor(meta, type) ==
    CASE type = "request_start" -> IsRequestStart(meta)
      [] type = "request_end" -> IsEnd(meta, "request.body", "ws.client")
      [] type = "response_start" -> IsResponseStart(meta)
      [] type = "response_end" -> IsEnd(meta, "response.body", "ws.server")
      [] type \in {"request_abort", "response_abort"} -> IsAbort(meta)
      [] type = "stream_credit" -> IsStreamCredit(meta)
      [] type = "channel_credit" -> IsChannelCredit(meta)
      [] OTHER -> FALSE

\* Mutant: encodeMetadata does not validate.
EncodableUnchecked(meta, type, max) == Positive(max) /\ MetadataBytes(Json(meta)) <= max
\* encodeMetadata looks at the object, decodeMetadata at what JSON made of it.
Encodable(meta, type, max) ==
    IsMetadataFor(meta, type) /\ Positive(max) /\ MetadataBytes(Json(meta)) <= max
Decodable(payload, type, max) ==
    /\ payload.bytes <= max /\ payload.json # Undefined
    /\ IsMetadataFor(payload.json, type)

-----------------------------------------------------------------------------
(* Credits, channels, limits and what is said of a new tunnel.                 *)

\* A balance is a safe integer. The code throws for anything else, for a credit of 0
\* bytes, and when more is consumed than there is.
Balances == 0 .. MaxSafe
AddCredit(current, bytes) == IF current + bytes > MaxSafe THEN MaxSafe ELSE current + bytes
HasCredit(current, bytes) == current \in Balances /\ bytes \in 0 .. current
ConsumeCredit(current, bytes) == current - bytes

IsChannelCount(n) == n \in 1 .. MaxChannels
IsChannelId(id, channels) == IsChannelCount(channels) /\ id \in 0 .. channels - 1

\* chooseNextDataChannel: round robin.
Chosen(next, channels) == next % channels
ChooseNext(next, channels) == [channel |-> Chosen(next, channels), next |-> next + 1]

\* isTunnelLimits
IsLimits(limits) ==
    /\ DOMAIN limits = {"maxFrame", "maxMetadata", "maxMessage", "streamCredit",
                        "channelCredit", "pendingData", "pendingTimeout"}
    /\ \A key \in DOMAIN limits : Positive(limits[key])
    /\ limits.maxMetadata <= limits.maxFrame /\ limits.maxMessage <= limits.maxFrame

\* defaultTunnelLimits, in KiB and seconds.
DefaultLimits ==
    [maxFrame |-> 1024, maxMetadata |-> 64, maxMessage |-> 1024, streamCredit |-> 1024,
     channelCredit |-> 4096, pendingData |-> 4096, pendingTimeout |-> 120]

\* isCreateEphemeralTunnelResponse
IsCreateResponse(v) ==
    /\ DOMAIN v = {"kind", "version", "tunnel", "publicUrl", "conn", "dataUrl",
                   "token", "channels", "limits"}
    /\ v.kind = "ephemeral" /\ v.version = Version
    /\ "id" \in v.tunnel.looks /\ "id" \in v.conn.looks
    /\ v.publicUrl.scheme \in {"http", "https"} /\ v.dataUrl.scheme \in {"ws", "wss"}
    /\ IsChannelCount(v.channels) /\ IsLimits(v.limits)
=============================================================================
