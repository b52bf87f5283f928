--------------------------- MODULE ExchangeProofs ---------------------------
(* Theorems about what two programs write to each other and make of it, for       *)
(* every width, limit, request, answer, close and error, and for anything that     *)
(* somebody else writes. First what Protocol promises for single values: what a    *)
(* sender may encode its peer accepts, a frame reads as it was written, a credit   *)
(* is given back exactly below the limit. Then the operators of Headers, as an     *)
(* algebra of filters. Then Exchange itself: IInv holds in every state, and with   *)
(* it the four properties the runs check.                                          *)
EXTENDS Exchange, SumTheorems

-----------------------------------------------------------------------------
(* Metadata.                                                                   *)

\* What JSON leaves of a metadata object reads as before, key by key.
LEMMA JsonKeeps ==
    ASSUME NEW meta, NEW key
    PROVE  /\ Field(Json(meta), key) = Field(meta, key)
           /\ Given(Json(meta), key) <=> Given(meta, key)
           /\ Given(meta, key) => Json(meta)[key] = meta[key]
           /\ Given(meta, key) => key \in DOMAIN meta
           /\ Given(meta, key) => Field(meta, key) = meta[key]
<1>1. DOMAIN Json(meta) = {k \in DOMAIN meta : Given(meta, k)}
  BY DEF Json
<1>2. \A k \in DOMAIN Json(meta) : Json(meta)[k] = meta[k]
  BY DEF Json
<1>3. Field(Json(meta), key) = Field(meta, key)
  BY <1>1, <1>2 DEF Field, Given
<1> QED
  BY <1>1, <1>2, <1>3 DEF Field, Given

\* What `JSON.stringify` writes has no key that the metadata did not have.
LEMMA JsonShrinks ==
    ASSUME NEW meta, NEW keys, DOMAIN meta \subseteq keys
    PROVE  DOMAIN Json(meta) \subseteq keys
  BY DEF Json

\* Every validator of texts, numbers and lists asks for another kind than undefined.
LEMMA NotUndefined ==
    ASSUME NEW v, v.is \in {"text", "number", "boolean", "list"}
    PROVE  v # Undefined
  BY DEF Undefined

\* A request start that is valid before it is written is valid after it is read.
LEMMA StartDecodes ==
    ASSUME NEW meta, IsRequestStart(meta)
    PROVE  IsRequestStart(Json(meta))
<1> DEFINE json == Json(meta)
<1>1. \A key : /\ Field(json, key) = Field(meta, key)
               /\ Given(json, key) <=> Given(meta, key)
               /\ Given(meta, key) => json[key] = meta[key]
  BY JsonKeeps
<1>2. Given(meta, "kind") /\ Given(meta, "hasBody")
  <2>1. Field(meta, "kind").is = "text" /\ Field(meta, "hasBody").is = "boolean"
    BY DEF IsRequestStart, OneOf, IsBool
  <2> QED
    BY <2>1 DEF Given, Undefined
<1>3. json["kind"] = meta["kind"] /\ json["hasBody"] = meta["hasBody"]
  BY <1>1, <1>2
<1>4. DOMAIN json \subseteq {"kind", "method", "target", "headers", "hasBody", "protocols"}
  BY JsonShrinks DEF IsRequestStart
<1>5. Given(json, "protocols") => json["protocols"] = meta["protocols"] /\ Given(meta, "protocols")
  BY <1>1
<1> HIDE DEF json
<1>6. IsRequestStart(json)
  BY <1>1, <1>3, <1>4, <1>5 DEF IsRequestStart
<1> QED
  BY <1>6 DEF json

\* The same of a response start.
LEMMA ResponseStartDecodes ==
    ASSUME NEW meta, IsResponseStart(meta)
    PROVE  IsResponseStart(Json(meta))
<1> DEFINE json == Json(meta)
<1>1. \A key : /\ Field(json, key) = Field(meta, key)
               /\ Given(json, key) <=> Given(meta, key)
               /\ Given(meta, key) => json[key] = meta[key]
  BY JsonKeeps
<1>2. DOMAIN json \subseteq {"status", "headers", "hasBody", "protocol"}
  BY JsonShrinks DEF IsResponseStart
<1> HIDE DEF json
<1>3. IsResponseStart(json)
  BY <1>1, <1>2 DEF IsResponseStart
<1> QED
  BY <1>3 DEF json

\* The same of the end of either direction, with or without a close.
LEMMA EndDecodes ==
    ASSUME NEW meta, NEW body, NEW socket, IsEnd(meta, body, socket)
    PROVE  IsEnd(Json(meta), body, socket)
<1> DEFINE json == Json(meta)
<1>1. \A key : /\ Field(json, key) = Field(meta, key)
               /\ Given(json, key) <=> Given(meta, key)
               /\ Given(meta, key) => json[key] = meta[key]
  BY JsonKeeps
<1>2. Given(meta, "kind")
  <2>1. Field(meta, "kind").is = "text"
    BY DEF IsEnd, OneOf
  <2> QED
    BY <2>1 DEF Given, Undefined
<1>3. json["kind"] = meta["kind"]
  BY <1>1, <1>2
<1>4. DOMAIN json \subseteq {"kind", "lastSeq", "code", "reason"}
  BY JsonShrinks DEF IsEnd
<1> HIDE DEF json
<1>5. IsEnd(json, body, socket)
  BY <1>1, <1>3, <1>4 DEF IsEnd
<1> QED
  BY <1>5 DEF json

\* The same of an abort and of the two credits.
LEMMA SmallDecodes ==
    ASSUME NEW meta
    PROVE  /\ IsAbort(meta) => IsAbort(Json(meta))
           /\ IsStreamCredit(meta) => IsStreamCredit(Json(meta))
           /\ IsChannelCredit(meta) => IsChannelCredit(Json(meta))
<1>1. \A key : Field(Json(meta), key) = Field(meta, key)
  BY JsonKeeps
<1>2. \A keys : DOMAIN meta \subseteq keys => DOMAIN Json(meta) \subseteq keys
  BY JsonShrinks
<1> QED
  BY <1>1, <1>2 DEF IsAbort, IsStreamCredit, IsChannelCredit

\* A frame's metadata stays valid for its type through JSON: what one side checks
\* before it sends is what the other checks when it reads.
LEMMA MetadataDecodes ==
    ASSUME NEW meta, NEW type \in FrameTypes, IsMetadataFor(meta, type)
    PROVE  IsMetadataFor(Json(meta), type)
<1>1. FrameTypes = {"request_start", "request_data", "request_end", "request_abort",
                    "response_start", "response_data", "response_end",
                    "response_abort", "stream_credit", "channel_credit"}
  BY DEF FrameTypes, Code
<1>2. CASE type = "request_start"
  BY <1>2, StartDecodes DEF IsMetadataFor
<1>3. CASE type = "response_start"
  BY <1>3, ResponseStartDecodes DEF IsMetadataFor
<1>4. CASE type \in {"request_end", "response_end"}
  BY <1>4, EndDecodes DEF IsMetadataFor
<1>5. CASE type \in {"request_abort", "response_abort", "stream_credit", "channel_credit"}
  BY <1>5, SmallDecodes DEF IsMetadataFor
<1>6. CASE type \in DataTypes
  BY <1>6 DEF IsMetadataFor, DataTypes
<1> QED
  BY <1>1, <1>2, <1>3, <1>4, <1>5, <1>6 DEF DataTypes

\* No validator accepts the metadata that is undefined as a whole.
LEMMA ObjectsOnly ==
    ASSUME NEW meta, NEW type \in FrameTypes, IsMetadataFor(meta, type)
    PROVE  meta # Undefined
<1>1. DOMAIN Undefined = {"is"}
  BY DEF Undefined
<1>2. FrameTypes = {"request_start", "request_data", "request_end", "request_abort",
                    "response_start", "response_data", "response_end",
                    "response_abort", "stream_credit", "channel_credit"}
  BY DEF FrameTypes, Code
<1>3. \/ IsRequestStart(meta) \/ IsResponseStart(meta) \/ IsAbort(meta)
      \/ IsEnd(meta, "request.body", "ws.client") \/ IsEnd(meta, "response.body", "ws.server")
      \/ IsStreamCredit(meta) \/ IsChannelCredit(meta)
  BY <1>2 DEF IsMetadataFor
<1>4. "is" \notin DOMAIN meta
  BY <1>3 DEF IsRequestStart, IsResponseStart, IsAbort, IsEnd, IsStreamCredit, IsChannelCredit
<1> QED
  BY <1>1, <1>4

\* What encodeMetadata accepts, decodeMetadata of the peer accepts with the same
\* limit, although the one looks at an object that may have undefined values and
\* the other at what JSON left of it.
THEOREM EncodableIsDecodable ==
    ASSUME NEW meta, NEW type \in FrameTypes, NEW max, Encodable(meta, type, max)
    PROVE  Decodable([bytes |-> MetadataBytes(Json(meta)), json |-> Json(meta)], type, max)
<1>1. IsMetadataFor(Json(meta), type) /\ MetadataBytes(Json(meta)) <= max
  BY MetadataDecodes DEF Encodable
<1>2. Json(meta) # Undefined
  BY <1>1, ObjectsOnly
<1> QED
  BY <1>1, <1>2 DEF Decodable

-----------------------------------------------------------------------------
(* The end of a socket.                                                        *)

\* What normalizeCloseCode and normalizeCloseReason make of any code and reason,
\* the validator of the end's metadata accepts: the end of a socket can always be
\* encoded, whatever the peer closed with.
THEOREM NormalisedClosesPass ==
    ASSUME NEW code, NEW word, NEW bytes \in Nat, NEW looks, MaxReason \in Nat
    PROVE  IsClose(NormalCode(code), NormalReason(Text(word, bytes, looks)))
<1>1. 1000 \in CloseCodes
  BY DEF CloseCodes
<1>2. NormalCode(NormalCode(code)) = NormalCode(code)
  BY <1>1 DEF NormalCode, Number
<1>3. Text(word, bytes, looks) # Undefined
  BY DEF Text, Undefined
<1> DEFINE kept == IF bytes <= MaxReason THEN bytes ELSE MaxReason
           reason == NormalReason(Text(word, bytes, looks))
<1>4. reason.is = "text" /\ reason.bytes = kept
  <2> DEFINE rest == looks \ {"line-break"}
  <2>1. reason = Text(word, kept, rest)
    BY <1>3, Zenon DEF NormalReason, Text
  <2> HIDE DEF rest, kept, reason
  <2> QED
    BY <2>1 DEF Text
<1>5. kept <= MaxReason
  OBVIOUS
<1>6. IsReason(reason)
  BY <1>4, <1>5 DEF IsReason
<1> QED
  BY <1>2, <1>6 DEF IsClose

-----------------------------------------------------------------------------
(* Frames and directions.                                                      *)

\* Every frame type has a code of its own, so the type that was encoded is read.
THEOREM CodesAreDistinct ==
    \A type \in FrameTypes : Code[type] \in Codes /\ TypeOf(Code[type]) = type
<1>1. \A a, b \in FrameTypes : Code[a] = Code[b] => a = b
  BY DEF FrameTypes, Code
<1>2. ASSUME NEW type \in FrameTypes PROVE TypeOf(Code[type]) = type
  BY <1>1 DEF TypeOf
<1> QED
  BY <1>2 DEF Codes

\* A frame that is valid towards one side is valid towards the other only if it is
\* a credit, and only a channel credit belongs to no stream: what one side may send,
\* but a credit, it may not receive.
THEOREM CreditsGoBothWays ==
    \A type \in FrameTypes :
        (/\ ValidForDirection(type, "server-to-client")
         /\ ValidForDirection(type, "client-to-server"))
        <=> type \in {"stream_credit", "channel_credit"}
<1>1. FrameTypes = Requests \cup Responses \cup {"stream_credit", "channel_credit"}
  BY DEF FrameTypes, Code, Requests, Responses
<1>2. Requests \cap Responses = {} /\ {"stream_credit", "channel_credit"} \cap (Requests \cup Responses) = {}
  BY DEF Requests, Responses
<1> QED
  BY <1>1, <1>2 DEF ValidForDirection, Direction

-----------------------------------------------------------------------------
(* Credits.                                                                    *)

\* Balances stay safe integers, and a credit that is spent can be given back: the
\* balance is as before, unless the spent credit came on top of what saturation
\* cut off, and never more than granted.
THEOREM CreditsAreBalanced ==
    \A current \in Balances, bytes \in 1 .. MaxSafe :
        /\ AddCredit(current, bytes) \in Balances
        /\ current <= AddCredit(current, bytes)
        /\ HasCredit(current, bytes) =>
               /\ ConsumeCredit(current, bytes) \in Balances
               /\ AddCredit(ConsumeCredit(current, bytes), bytes) = current
        /\ HasCredit(AddCredit(current, bytes), bytes)
        /\ ConsumeCredit(AddCredit(current, bytes), bytes) <= current
        /\ current + bytes <= MaxSafe =>
               ConsumeCredit(AddCredit(current, bytes), bytes) = current
  BY SafeAssumption DEF Balances, AddCredit, HasCredit, ConsumeCredit

-----------------------------------------------------------------------------
(* The choice of a channel.                                                    *)

\* Quotient and remainder are what division says, and the remainder is unique.
LEMMA RemainderOf ==
    ASSUME NEW m \in Nat \ {0}
    PROVE  /\ \A n \in Nat : /\ n \div m \in Int /\ n % m \in 0 .. m - 1
                             /\ n = (m * (n \div m)) + (n % m)
           /\ \A n \in Int : \A q \in Int, r \in 0 .. m - 1 : n = (m * q) + r => n % m = r
  OBVIOUS

\* chooseNextDataChannel always names a channel of the connection, and as many
\* choices in a row as there are channels use every one of them: no channel is
\* passed over, however many streams came before.
THEOREM EveryChannelHasItsTurn ==
    ASSUME NEW next \in Nat, NEW channels \in Nat, IsChannelCount(channels)
    PROVE  /\ IsChannelId(Chosen(next, channels), channels)
           /\ \A id \in 0 .. channels - 1 : \E turn \in 0 .. channels - 1 :
                  Chosen(next + turn, channels) = id
<1>0. channels \in Nat \ {0}
  BY SafeAssumption DEF IsChannelCount
<1> DEFINE q == next \div channels
           r == next % channels
<1>1. q \in Int /\ r \in 0 .. channels - 1 /\ next = channels * q + r
  BY <1>0, RemainderOf
<1>2. \A n \in Int : \A p \in Int, l \in 0 .. channels - 1 :
          n = channels * p + l => n % channels = l
  BY <1>0, RemainderOf
<1>3. IsChannelId(Chosen(next, channels), channels)
  BY <1>1 DEF IsChannelId, Chosen
<1> HIDE DEF q, r
<1>4. ASSUME NEW id \in 0 .. channels - 1
      PROVE  \E turn \in 0 .. channels - 1 : Chosen(next + turn, channels) = id
  <2>1. CASE r <= id
    <3>1. id - r \in 0 .. channels - 1 /\ next + (id - r) \in Int
      BY <1>0, <1>1, <2>1
    <3>2. next + (id - r) = channels * q + id
      BY <1>0, <1>1
    <3>3. (next + (id - r)) % channels = id
      BY <1>1, <1>2, <3>1, <3>2, Zenon
    <3> QED
      BY <3>1, <3>3 DEF Chosen
  <2>2. CASE id < r
    <3> DEFINE turn == (channels + id) - r
    <3>1. turn \in 0 .. channels - 1 /\ next + turn \in Int /\ q + 1 \in Int
      BY <1>0, <1>1, <2>2
    <3>2. next + turn = channels * (q + 1) + id
      BY <1>0, <1>1
    <3> HIDE DEF turn
    <3>3. (next + turn) % channels = id
      BY <1>2, <3>1, <3>2, Zenon
    <3> QED
      BY <3>1, <3>3 DEF Chosen
  <2> QED
    BY <1>0, <1>1, <2>1, <2>2
<1> QED
  BY <1>3, <1>4

-----------------------------------------------------------------------------
(* Numbers as bytes.                                                           *)

\* Steps from one value to the next, as many as one likes.
Iterated(S, n, start, step) ==
    \E g \in [0 .. n -> S] : g[0] = start /\ \A k \in 1 .. n : g[k] = step[k][g[k - 1]]

\* A recursive function over 0 .. n, given by its first value and its steps, exists.
LEMMA Iterates ==
    ASSUME NEW S, NEW n \in Nat, NEW start \in S, NEW step \in [1 .. n -> [S -> S]]
    PROVE  Iterated(S, n, start, step)
<1> DEFINE Good(g, m) == /\ g \in [0 .. m -> S] /\ g[0] = start
                         /\ \A k \in 1 .. m : g[k] = step[k][g[k - 1]]
           Reached(m) == \E g : Good(g, m)
           N == {m \in Nat : m <= n => Reached(m)}
<1>0. /\ \A m \in Nat : m \in N <=> (m <= n => Reached(m))
      /\ \A m \in Nat : m + 1 <= n => m <= n
  <2> HIDE DEF Reached
  <2> QED
    OBVIOUS
<1> HIDE DEF N
<1>1. 0 \in N
  <2>1. PICK g : g = [k \in 0 .. 0 |-> start]
    OBVIOUS
  <2>2. g \in [0 .. 0 -> S] /\ g[0] = start
    BY <2>1
  <2>3. 1 .. 0 = {} /\ 0 \in Nat
    OBVIOUS
  <2>4. Good(g, 0)
    BY <2>2, <2>3
  <2>5. Reached(0)
    BY <2>4
  <2> QED
    BY <1>0, <2>3, <2>5
<1>2. ASSUME NEW m \in Nat, m \in N PROVE m + 1 \in N
  <2> SUFFICES ASSUME m + 1 <= n PROVE Reached(m + 1)
    <3> HIDE DEF Reached
    <3>1. m + 1 \in Nat
      OBVIOUS
    <3> QED
      BY <1>0, <3>1
  <2>0. Reached(m)
    <3> HIDE DEF Reached
    <3> QED
      BY <1>0, <1>2
  <2>1. PICK g : Good(g, m)
    BY <2>0
  <2> DEFINE last == step[m + 1][g[m]]
             h == [k \in 0 .. m + 1 |-> IF k = m + 1 THEN last ELSE g[k]]
  <2>2. m \in 0 .. m /\ m + 1 \in 1 .. n
    OBVIOUS
  <2>3. last \in S
    BY <2>1, <2>2
  <2> HIDE DEF last
  <2>4. /\ \A k \in 0 .. m : k \in 0 .. m + 1 /\ k # m + 1
        /\ \A k \in 0 .. m + 1 : k # m + 1 => k \in 0 .. m
        /\ \A k \in 1 .. m + 1 : k = m + 1 \/ k \in 1 .. m
        /\ \A k \in 1 .. m : k \in 0 .. m /\ k - 1 \in 0 .. m
        /\ (m + 1) - 1 = m /\ m + 1 \in 0 .. m + 1 /\ 0 \in 0 .. m
    OBVIOUS
  <2>5. h \in [0 .. m + 1 -> S]
    BY <2>1, <2>3, <2>4
  <2>6. \A k \in 0 .. m : h[k] = g[k]
    BY <2>4
  <2>7. h[m + 1] = step[m + 1][h[(m + 1) - 1]]
    <3>1. h[m + 1] = last /\ h[m] = g[m]
      BY <2>2, <2>4, <2>6
    <3> QED
      BY <2>4, <3>1 DEF last
  <2> HIDE DEF h
  <2>8. \A k \in 1 .. m + 1 : h[k] = step[k][h[k - 1]]
    BY <2>1, <2>4, <2>6, <2>7
  <2>9. Good(h, m + 1)
    BY <2>1, <2>4, <2>5, <2>6, <2>8
  <2> QED
    BY <2>9
<1>3. n \in N
  BY <1>1, <1>2, NaturalsFrom
<1>4. Reached(n)
  <2> HIDE DEF Reached
  <2> QED
    BY <1>0, <1>3
<1> QED
  BY <1>4 DEF Iterated

\* A byte can hold every constant that the header format names.
LEMMA ByteAbove == Byte \in Nat /\ Byte > 80 /\ Byte \in Nat \ {0} /\ Byte - 1 \in Nat
  BY WireAssumption

\* Division by a byte, with what remains.
LEMMA ByteDivision ==
    ASSUME NEW n \in Nat
    PROVE  /\ n \div Byte \in Nat /\ n % Byte \in 0 .. Byte - 1
           /\ n = (Byte * (n \div Byte)) + (n % Byte)
           /\ \A r \in 0 .. Byte - 1 : /\ Byte * n + r \in Nat
                                       /\ (Byte * n + r) \div Byte = n
                                       /\ (Byte * n + r) % Byte = r
<1>1. PICK m : m = Byte
  OBVIOUS
<1>2. m \in Nat /\ m > 0
  BY <1>1, ByteAbove
<1>3. n \div m \in Nat /\ n % m \in 0 .. m - 1 /\ n = (m * (n \div m)) + (n % m)
  BY <1>2
<1>4. ASSUME NEW r \in 0 .. m - 1
      PROVE  m * n + r \in Nat /\ (m * n + r) \div m = n /\ (m * n + r) % m = r
  <2>1. m * n \in Nat /\ r \in Nat
    BY <1>2
  <2>2. m * n + r \in Nat
    BY <2>1
  <2>3. (m * n + r) % m = r
    BY <1>2, <2>2, RemainderOf
  <2>4. PICK q : q = (m * n + r) \div m
    OBVIOUS
  <2>5. q \in Int /\ m * n + r = (m * q) + r
    BY <1>2, <2>2, <2>3, <2>4, RemainderOf
  <2>6. m * n = m * q
    BY <1>2, <2>1, <2>5
  <2>7. n = q
    BY <1>2, <2>5, <2>6
  <2> QED
    BY <2>2, <2>3, <2>4, <2>7
<1> QED
  BY <1>1, <1>3, <1>4

\* A function that starts with a value of a set and goes on with values of it.
LEMMA AllOf ==
    ASSUME NEW S, NEW n \in Nat, NEW p, DOMAIN p = 0 .. n, p = [k \in 0 .. n |-> p[k]], p[0] \in S,
           \A k \in 1 .. n : p[k - 1] \in S => p[k] \in S
    PROVE  p \in [0 .. n -> S]
<1> DEFINE N == {k \in Nat : k <= n => p[k] \in S}
<1>1. 0 \in N
  OBVIOUS
<1>2. ASSUME NEW k \in Nat, k \in N PROVE k + 1 \in N
  <2> SUFFICES ASSUME k + 1 <= n PROVE p[k + 1] \in S
    OBVIOUS
  <2>1. k + 1 \in 1 .. n /\ (k + 1) - 1 = k /\ p[k] \in S
    BY <1>2
  <2> QED
    BY <2>1
<1>3. \A k \in 0 .. n : p[k] \in S
  <2> HIDE DEF N
  <2>1. \A k \in Nat : k \in N
    BY <1>1, <1>2, NaturalsFrom
  <2> QED
    BY <2>1 DEF N
<1> QED
  BY <1>3

\* The positions a loop over n bytes visits.
LEMMA Places ==
    ASSUME NEW n \in Nat
    PROVE  /\ 0 \in 0 .. n /\ n \in 0 .. n
           /\ \A k \in 1 .. n : k \in 0 .. n /\ k # 0 /\ k - 1 \in 0 .. n /\ n - k \in 0 .. n
           /\ \A k \in 0 .. n : k # 0 => k \in 1 .. n
  OBVIOUS

\* What the definitions of numbers compute, step by step.
LEMMA Powers ==
    ASSUME NEW w \in Nat
    PROVE  \E p \in [0 .. w -> Nat] : /\ p[0] = 1 /\ Power(w) = p[w]
                                      /\ \A k \in 1 .. w : p[k] = Byte * p[k - 1]
<1> DEFINE Is(p) == p = [k \in 0 .. w |-> IF k = 0 THEN 1 ELSE Byte * p[k - 1]]
           step == [k \in 1 .. w |-> [n \in Nat |-> Byte * n]]
<1>1. step \in [1 .. w -> [Nat -> Nat]] /\ 1 \in Nat
  BY ByteAbove
<1>2. \E g \in [0 .. w -> Nat] : g[0] = 1 /\ \A k \in 1 .. w : g[k] = step[k][g[k - 1]]
  <2> HIDE DEF step
  <2> QED
    <3>1. Iterated(Nat, w, 1, step)
      BY <1>1, Iterates
    <3> QED
      BY <3>1 DEF Iterated
<1>3. PICK g \in [0 .. w -> Nat] : g[0] = 1 /\ \A k \in 1 .. w : g[k] = step[k][g[k - 1]]
  BY <1>2
<1>4. Is(g)
  <2>1. \A k \in 0 .. w : g[k] = IF k = 0 THEN 1 ELSE Byte * g[k - 1]
    BY <1>3, Places
  <2> QED
    BY <2>1
<1>5. PICK p : p = CHOOSE q : Is(q)
  OBVIOUS
<1>6. Is(p)
  BY <1>4, <1>5
<1>7. Power(w) = p[w]
  BY <1>5 DEF Power
<1>8. DOMAIN p = 0 .. w /\ \A k \in 0 .. w : p[k] = IF k = 0 THEN 1 ELSE Byte * p[k - 1]
  BY <1>6
<1>9. p[0] = 1 /\ \A k \in 1 .. w : p[k] = Byte * p[k - 1]
  BY <1>8, Places
<1>s. p[0] \in Nat
  BY <1>9
<1>10. p = [k \in 0 .. w |-> p[k]]
  BY <1>6
<1>11. \A k \in 1 .. w : p[k - 1] \in Nat => p[k] \in Nat
  BY <1>9, ByteAbove
<1>12. p \in [0 .. w -> Nat]
  BY <1>8, <1>10, <1>11, <1>s, AllOf, Zenon
<1> QED
  BY <1>7, <1>9, <1>12

\* The bytes of a number are the remainders of its divisions.
LEMMA Digits ==
    ASSUME NEW n \in Nat, NEW w \in Nat
    PROVE  \E r \in [0 .. w -> Nat] :
               /\ r[0] = n /\ \A k \in 1 .. w : r[k] = r[k - 1] \div Byte
               /\ BigEndian(n, w) = [i \in 1 .. w |-> r[w - i] % Byte]
<1> DEFINE Is(p) == p = [k \in 0 .. w |-> IF k = 0 THEN n ELSE p[k - 1] \div Byte]
           step == [k \in 1 .. w |-> [m \in Nat |-> m \div Byte]]
<1>1. step \in [1 .. w -> [Nat -> Nat]]
  BY ByteDivision
<1>2. \E g \in [0 .. w -> Nat] : g[0] = n /\ \A k \in 1 .. w : g[k] = step[k][g[k - 1]]
  <2> HIDE DEF step
  <2> QED
    <3>1. Iterated(Nat, w, n, step)
      BY <1>1, Iterates
    <3> QED
      BY <3>1 DEF Iterated
<1>3. PICK g \in [0 .. w -> Nat] : g[0] = n /\ \A k \in 1 .. w : g[k] = step[k][g[k - 1]]
  BY <1>2
<1>4. Is(g)
  <2>1. \A k \in 0 .. w : g[k] = IF k = 0 THEN n ELSE g[k - 1] \div Byte
    BY <1>3, Places
  <2> QED
    BY <2>1
<1> DEFINE p == CHOOSE q : Is(q)
<1>6. Is(p)
  BY <1>4
<1>7. BigEndian(n, w) = [i \in 1 .. w |-> p[w - i] % Byte]
  BY DEF BigEndian
<1> HIDE DEF p
<1>8. DOMAIN p = 0 .. w /\ \A k \in 0 .. w : p[k] = IF k = 0 THEN n ELSE p[k - 1] \div Byte
  BY <1>6
<1>9. p[0] = n /\ \A k \in 1 .. w : p[k] = p[k - 1] \div Byte
  BY <1>8, Places
<1>s. p[0] \in Nat
  BY <1>9
<1>10. p = [k \in 0 .. w |-> p[k]]
  BY <1>6
<1>11. \A k \in 1 .. w : p[k - 1] \in Nat => p[k] \in Nat
  BY <1>9, ByteDivision
<1>12. p \in [0 .. w -> Nat]
  BY <1>8, <1>10, <1>11, <1>s, AllOf, Zenon
<1> QED
  BY <1>7, <1>9, <1>12

\* The number that bytes stand for.
LEMMA Values ==
    ASSUME NEW s \in Seq(Nat)
    PROVE  \E v \in [0 .. Len(s) -> Nat] :
               /\ v[0] = 0 /\ NumberOf(s) = v[Len(s)]
               /\ \A k \in 1 .. Len(s) : v[k] = (Byte * v[k - 1]) + s[k]
<1>w. PICK w : w = Len(s)
  OBVIOUS
<1>0. w \in Nat /\ \A k \in 1 .. w : s[k] \in Nat
  BY <1>w
<1> DEFINE Is(p) == p = [k \in 0 .. w |-> IF k = 0 THEN 0 ELSE Byte * p[k - 1] + s[k]]
           step == [k \in 1 .. w |-> [n \in Nat |-> Byte * n + s[k]]]
<1>1. step \in [1 .. w -> [Nat -> Nat]] /\ 0 \in Nat
  BY <1>0, ByteAbove
<1>2. \E g \in [0 .. w -> Nat] : g[0] = 0 /\ \A k \in 1 .. w : g[k] = step[k][g[k - 1]]
  <2> HIDE DEF step
  <2> QED
    <3>1. Iterated(Nat, w, 0, step)
      BY <1>0, <1>1, Iterates
    <3> QED
      BY <3>1 DEF Iterated
<1>3. PICK g \in [0 .. w -> Nat] : g[0] = 0 /\ \A k \in 1 .. w : g[k] = step[k][g[k - 1]]
  BY <1>2
<1>4. Is(g)
  <2>1. \A k \in 0 .. w : g[k] = IF k = 0 THEN 0 ELSE Byte * g[k - 1] + s[k]
    BY <1>0, <1>3, Places
  <2> QED
    BY <2>1
<1>5. PICK p : p = CHOOSE q : Is(q)
  OBVIOUS
<1>6. Is(p)
  BY <1>4, <1>5
<1>7. NumberOf(s) = p[w]
  BY <1>5, <1>w DEF NumberOf
<1>8. DOMAIN p = 0 .. w /\ \A k \in 0 .. w : p[k] = IF k = 0 THEN 0 ELSE Byte * p[k - 1] + s[k]
  BY <1>6
<1>9. p[0] = 0 /\ \A k \in 1 .. w : p[k] = Byte * p[k - 1] + s[k]
  BY <1>0, <1>8, Places
<1>s. p[0] \in Nat
  BY <1>9
<1>10. p = [k \in 0 .. w |-> p[k]]
  BY <1>6
<1>11. ASSUME NEW k \in 1 .. w, p[k - 1] \in Nat PROVE p[k] \in Nat
  <2>1. PICK a, b : a = p[k - 1] /\ b = s[k]
    OBVIOUS
  <2>2. a \in Nat /\ b \in Nat /\ p[k] = (Byte * a) + b
    BY <1>0, <1>9, <1>11, <2>1
  <2> QED
    BY <2>2, ByteAbove
<1>12. p \in [0 .. w -> Nat]
  BY <1>0, <1>8, <1>10, <1>11, <1>s, AllOf, Zenon
<1> QED
  BY <1>w, <1>7, <1>9, <1>12

\* Two functions that start the same and go on the same are the same.
Agree(n, a, b) == \A k \in 0 .. n : a[k] = b[k]
Follows(n, a, b) == \A k \in 1 .. n : a[k - 1] = b[k - 1] => a[k] = b[k]

\* Two functions that start alike and take the same steps agree everywhere.
LEMMA StepByStep ==
    ASSUME NEW n \in Nat, NEW a, NEW b, a[0] = b[0], Follows(n, a, b)
    PROVE  Agree(n, a, b)
<1> DEFINE N == {k \in Nat : k <= n => a[k] = b[k]}
<1>1. 0 \in N
  OBVIOUS
<1>2. ASSUME NEW k \in Nat, k \in N PROVE k + 1 \in N
  <2> SUFFICES ASSUME k + 1 <= n PROVE a[k + 1] = b[k + 1]
    OBVIOUS
  <2>1. k + 1 \in 1 .. n /\ (k + 1) - 1 = k /\ a[k] = b[k]
    BY <1>2
  <2> QED
    BY <2>1 DEF Follows
<1> HIDE DEF N
<1>3. \A k \in Nat : k \in N
  BY <1>1, <1>2, NaturalsFrom
<1> QED
  BY <1>3 DEF N, Agree

\* As many bytes as asked for.
LEMMA BytesWritten ==
    ASSUME NEW n \in Nat, NEW w \in Nat
    PROVE  BigEndian(n, w) \in Seq(0 .. Byte - 1) /\ Len(BigEndian(n, w)) = w
<1>1. PICK r \in [0 .. w -> Nat] :
          /\ r[0] = n /\ \A k \in 1 .. w : r[k] = r[k - 1] \div Byte
          /\ BigEndian(n, w) = [i \in 1 .. w |-> r[w - i] % Byte]
  BY Digits, Zenon
<1>2. \A i \in 1 .. w : r[w - i] % Byte \in 0 .. Byte - 1
  BY Places, ByteDivision
<1>3. PICK s : s = BigEndian(n, w)
  OBVIOUS
<1>4. s \in [1 .. w -> 0 .. Byte - 1]
  BY <1>1, <1>2, <1>3
<1>5. s \in Seq(0 .. Byte - 1) /\ Len(s) = w
  <2>1. PICK S : S = 0 .. Byte - 1
    OBVIOUS
  <2>2. s \in [1 .. w -> S]
    BY <1>4, <2>1
  <2>3. s \in Seq(S) /\ Len(s) = w
    BY <2>2
  <2> QED
    BY <2>1, <2>3
<1> QED
  BY <1>3, <1>5

\* The division of a number below a power is below the power before.
LEMMA DivisionBelow ==
    ASSUME NEW n \in Nat, NEW p \in Nat, n < Byte * p
    PROVE  n \div Byte < p
<1>1. PICK m, q, r : m = Byte /\ q = n \div Byte /\ r = n % Byte
  OBVIOUS
<1>2. m \in Nat \ {0} /\ q \in Nat /\ r \in 0 .. m - 1 /\ n = (m * q) + r
  BY <1>1, ByteAbove, ByteDivision
<1>3. ASSUME q >= p PROVE FALSE
  <2>1. m * q >= m * p /\ n < m * p
    BY <1>1, <1>2, <1>3
  <2> QED
    BY <1>2, <2>1
<1> QED
  BY <1>1, <1>2, <1>3

\* A number that has room in the bytes is read as it was written.
LEMMA ReadAfterWrite ==
    ASSUME NEW w \in Nat, NEW n \in 0 .. Power(w) - 1
    PROVE  NumberOf(BigEndian(n, w)) = n
<1>1. PICK p \in [0 .. w -> Nat] : /\ p[0] = 1 /\ Power(w) = p[w]
                                   /\ \A k \in 1 .. w : p[k] = Byte * p[k - 1]
  BY Powers
<1>n. n \in Nat /\ n < p[w]
  BY <1>1, Places
<1>2. PICK r \in [0 .. w -> Nat] :
          /\ r[0] = n /\ \A k \in 1 .. w : r[k] = r[k - 1] \div Byte
          /\ BigEndian(n, w) = [i \in 1 .. w |-> r[w - i] % Byte]
  BY <1>n, Digits
<1>3. PICK s : s = BigEndian(n, w)
  OBVIOUS
<1>4. s \in Seq(Nat) /\ Len(s) = w /\ \A i \in 1 .. w : s[i] = r[w - i] % Byte
  <2>1. s \in Seq(0 .. Byte - 1) /\ Len(s) = w
    BY <1>3, <1>n, BytesWritten, Zenon
  <2>2. s \in Seq(Nat)
    BY <2>1, ByteAbove
  <2>3. \A i \in 1 .. w : s[i] = r[w - i] % Byte
    BY <1>2, <1>3
  <2> QED
    BY <2>1, <2>2, <2>3
<1>5. PICK v \in [0 .. w -> Nat] :
          /\ v[0] = 0 /\ NumberOf(s) = v[w]
          /\ \A k \in 1 .. w : v[k] = (Byte * v[k - 1]) + s[k]
  BY <1>4, Values
<1>6. r[w] = 0
  <2> DEFINE N == {k \in Nat : k <= w => r[k] < p[w - k]}
  <2>1. 0 \in N
    BY <1>2, <1>n
  <2>2. ASSUME NEW k \in Nat, k \in N PROVE k + 1 \in N
    <3> SUFFICES ASSUME k + 1 <= w PROVE r[k + 1] < p[w - (k + 1)]
      OBVIOUS
    <3>1. /\ k + 1 \in 1 .. w /\ w - k \in 1 .. w /\ k \in 0 .. w /\ (k + 1) - 1 = k
          /\ (w - k) - 1 = w - (k + 1) /\ w - (k + 1) \in 0 .. w
      OBVIOUS
    <3>2. r[k] < p[w - k]
      BY <2>2
    <3>3. p[w - k] = Byte * p[w - (k + 1)] /\ r[k + 1] = r[k] \div Byte
      BY <1>1, <1>2, <3>1
    <3> QED
      BY <3>1, <3>2, <3>3, DivisionBelow
  <2> HIDE DEF N
  <2>3. w \in N
    BY <2>1, <2>2, NaturalsFrom
  <2> USE DEF N
  <2>4. r[w] < p[0]
    BY <2>3
  <2> QED
    BY <1>1, <2>4, Places
<1> DEFINE b == [k \in 0 .. w |-> r[w - k]]
<1>7. \A k \in 0 .. w : b[k] = r[w - k]
  OBVIOUS
<1>8. ASSUME NEW k \in 1 .. w, v[k - 1] = b[k - 1] PROVE v[k] = b[k]
  <2>1. /\ k \in 0 .. w /\ k - 1 \in 0 .. w /\ w - k \in 0 .. w /\ w - (k - 1) \in 1 .. w
        /\ (w - (k - 1)) - 1 = w - k
    OBVIOUS
  <2>2. v[k] = (Byte * (r[w - k] \div Byte)) + (r[w - k] % Byte)
    BY <1>2, <1>4, <1>5, <1>7, <1>8, <2>1
  <2> QED
    BY <1>7, <2>1, <2>2, ByteDivision
<1>9. v[0] = b[0] /\ b[w] = n
  BY <1>2, <1>5, <1>6, <1>7, Places
<1>b. b \in [0 .. w -> Nat]
  OBVIOUS
<1> HIDE DEF b
<1>10. \A k \in 0 .. w : v[k] = b[k]
  <2>1. PICK c \in [0 .. w -> Nat] : c = b
    BY <1>b
  <2>2. \A k \in 1 .. w : v[k - 1] = c[k - 1] => v[k] = c[k]
    BY <1>8, <2>1
  <2>3. v[0] = c[0]
    BY <1>9, <2>1
  <2>4. Follows(w, v, c)
    BY <2>2 DEF Follows
  <2>5. Agree(w, v, c)
    BY <2>3, <2>4, StepByStep
  <2> QED
    BY <2>1, <2>5 DEF Agree
<1> QED
  BY <1>3, <1>5, <1>9, <1>10, Places

\* Bytes are written as they were read.
LEMMA WriteAfterRead ==
    ASSUME NEW s \in Seq(0 .. Byte - 1)
    PROVE  NumberOf(s) \in Nat /\ BigEndian(NumberOf(s), Len(s)) = s
<1>w. PICK w : w = Len(s)
  OBVIOUS
<1>1. w \in Nat /\ s \in Seq(Nat) /\ \A i \in 1 .. w : s[i] \in 0 .. Byte - 1
  BY <1>w, ByteAbove
<1>2. PICK v \in [0 .. w -> Nat] :
          /\ v[0] = 0 /\ NumberOf(s) = v[w]
          /\ \A k \in 1 .. w : v[k] = (Byte * v[k - 1]) + s[k]
  BY <1>1, <1>w, Values
<1>3. NumberOf(s) \in Nat
  BY <1>1, <1>2, Places
<1>m. PICK m \in Nat : m = NumberOf(s)
  BY <1>3
<1>4. PICK r \in [0 .. w -> Nat] :
          /\ r[0] = m /\ \A k \in 1 .. w : r[k] = r[k - 1] \div Byte
          /\ BigEndian(m, w) = [i \in 1 .. w |-> r[w - i] % Byte]
  BY <1>1, Digits, Zenon
<1> DEFINE b == [k \in 0 .. w |-> v[w - k]]
<1>5. \A k \in 0 .. w : b[k] = v[w - k]
  OBVIOUS
<1>6. ASSUME NEW k \in 1 .. w PROVE v[k] \div Byte = v[k - 1] /\ v[k] % Byte = s[k]
  <2>1. v[k - 1] \in Nat /\ s[k] \in 0 .. Byte - 1 /\ v[k] = (Byte * v[k - 1]) + s[k]
    BY <1>1, <1>2, Places
  <2>2. PICK n, c : n = v[k - 1] /\ c = s[k]
    OBVIOUS
  <2>3. n \in Nat /\ c \in 0 .. Byte - 1
    BY <2>1, <2>2
  <2>4. (Byte * n + c) \div Byte = n /\ (Byte * n + c) % Byte = c
    BY <2>3, ByteDivision
  <2> QED
    BY <2>1, <2>2, <2>4
<1>7. ASSUME NEW k \in 1 .. w, r[k - 1] = b[k - 1] PROVE r[k] = b[k]
  <2>1. /\ k \in 0 .. w /\ k - 1 \in 0 .. w /\ w - (k - 1) \in 1 .. w
        /\ (w - (k - 1)) - 1 = w - k
    BY <1>1
  <2>2. r[k] = v[w - (k - 1)] \div Byte
    BY <1>4, <1>5, <1>7, <2>1
  <2> QED
    BY <1>5, <1>6, <2>1, <2>2
<1>8. r[0] = b[0]
  BY <1>1, <1>2, <1>4, <1>5, <1>m, Places
<1>b. b \in [0 .. w -> Nat]
  BY <1>1
<1> HIDE DEF b
<1>9. \A k \in 0 .. w : r[k] = b[k]
  <2>1. PICK c \in [0 .. w -> Nat] : c = b
    BY <1>b
  <2>2. \A k \in 1 .. w : r[k - 1] = c[k - 1] => r[k] = c[k]
    BY <1>7, <2>1
  <2>3. r[0] = c[0]
    BY <1>8, <2>1
  <2>4. Follows(w, r, c)
    BY <2>2 DEF Follows
  <2>5. Agree(w, r, c)
    BY <1>1, <2>3, <2>4, StepByStep
  <2> QED
    BY <2>1, <2>5 DEF Agree
<1>10. ASSUME NEW i \in 1 .. w PROVE r[w - i] % Byte = s[i]
  <2>1. w - i \in 0 .. w /\ w - (w - i) = i
    BY <1>1
  <2> QED
    BY <1>5, <1>6, <1>9, <2>1
<1>11. s = [i \in 1 .. w |-> s[i]]
  BY <1>1, <1>w
<1> QED
  BY <1>3, <1>4, <1>10, <1>11, <1>m, <1>w

-----------------------------------------------------------------------------
(* Headers picked out of a sequence.                                           *)

\* Induction over sequences: a set that has the empty one, and with each sequence every
\* longer one, has all.
LEMMA SequencesFrom ==
    ASSUME NEW S, NEW P, << >> \in P, \A s \in Seq(S), x \in S : s \in P => Append(s, x) \in P
    PROVE  \A s \in Seq(S) : s \in P
<1> DEFINE N == {n \in Nat : \A s \in Seq(S) : Len(s) = n => s \in P}
<1>1. 0 \in N
  <2>1. \A s \in Seq(S) : Len(s) = 0 => s = << >>
    OBVIOUS
  <2> QED
    BY <2>1
<1>2. ASSUME NEW n \in Nat, n \in N PROVE n + 1 \in N
  <2> SUFFICES ASSUME NEW s \in Seq(S), Len(s) = n + 1 PROVE s \in P
    OBVIOUS
  <2>1. PICK t : t = [i \in 1 .. n |-> s[i]]
    OBVIOUS
  <2>2. t \in Seq(S) /\ Len(t) = n /\ s[n + 1] \in S
    <3>1. \A i \in 1 .. n + 1 : s[i] \in S
      OBVIOUS
    <3>2. \A i \in 1 .. n : i \in 1 .. n + 1
      OBVIOUS
    <3>3. t \in Seq(S) /\ Len(t) = n
      BY <2>1, <3>1, <3>2
    <3> QED
      BY <3>1, <3>3
  <2>3. s = Append(t, s[n + 1])
    <3>1. PICK r : r = Append(t, s[n + 1])
      OBVIOUS
    <3>2. r \in Seq(S) /\ Len(r) = n + 1 /\ r[n + 1] = s[n + 1] /\ \A i \in 1 .. n : r[i] = t[i]
      BY <2>2, <3>1
    <3>3. \A i \in 1 .. n + 1 : r[i] = s[i]
      BY <2>1, <3>2
    <3> QED
      BY <3>1, <3>2, <3>3, SeqEqual
  <2>4. t \in P
    BY <1>2, <2>2
  <2> QED
    BY <2>2, <2>3, <2>4
<1> HIDE DEF N
<1>3. \A n \in Nat : n \in N
  BY <1>1, <1>2, NaturalsFrom
<1> QED
  BY <1>3 DEF N

\* What the definition of a part computes, step by step.
Staged(S, s, keep, p) ==
    /\ p \in [0 .. Len(s) -> Seq(S)] /\ p[0] = << >> /\ Part(s, keep) = p[Len(s)]
    /\ \A k \in 1 .. Len(s) :
           p[k] = IF s[k] \in keep THEN Append(p[k - 1], s[k]) ELSE p[k - 1]

\* The states of the filter's loop over a sequence: it exists for every sequence.
LEMMA Stages ==
    ASSUME NEW S, NEW s \in Seq(S), NEW keep
    PROVE  \E p : Staged(S, s, keep, p)
<1>w. PICK w : w = Len(s)
  OBVIOUS
<1>0. w \in Nat /\ \A k \in 1 .. w : s[k] \in S
  BY <1>w
<1>e. PICK none : none = << >>
  OBVIOUS
<1> DEFINE Is(p) == p = [k \in 0 .. w |-> IF k = 0 THEN << >>
                         ELSE IF s[k] \in keep THEN Append(p[k - 1], s[k]) ELSE p[k - 1]]
           step == [k \in 1 .. w |-> [q \in Seq(S) |-> IF s[k] \in keep THEN Append(q, s[k]) ELSE q]]
<1>1. step \in [1 .. w -> [Seq(S) -> Seq(S)]] /\ none \in Seq(S)
  BY <1>0, <1>e
<1>2. \E g \in [0 .. w -> Seq(S)] : g[0] = none /\ \A k \in 1 .. w : g[k] = step[k][g[k - 1]]
  <2> HIDE DEF step
  <2>1. Iterated(Seq(S), w, none, step)
    BY <1>0, <1>1, Iterates
  <2> QED
    BY <2>1 DEF Iterated
<1>3. PICK g \in [0 .. w -> Seq(S)] : g[0] = none /\ \A k \in 1 .. w : g[k] = step[k][g[k - 1]]
  BY <1>2
<1>4. Is(g)
  <2>1. \A k \in 0 .. w : g[k] = IF k = 0 THEN << >>
                                 ELSE IF s[k] \in keep THEN Append(g[k - 1], s[k]) ELSE g[k - 1]
    <3>1. \A k \in 1 .. w : g[k - 1] \in Seq(S)
      BY <1>0, Places
    <3> QED
      BY <1>0, <1>3, <1>e, <3>1, Places
  <2> QED
    BY <2>1
<1> DEFINE p == CHOOSE q : Is(q)
<1>6. Is(p)
  <2> HIDE DEF Is
  <2> QED
    BY <1>4
<1>7. Part(s, keep) = p[w]
  BY <1>w DEF Part
<1> HIDE DEF p
<1>8. DOMAIN p = 0 .. w /\ \A k \in 0 .. w : p[k] = IF k = 0 THEN << >>
                                 ELSE IF s[k] \in keep THEN Append(p[k - 1], s[k]) ELSE p[k - 1]
  BY <1>6
<1>9. p[0] = << >> /\ \A k \in 1 .. w : p[k] = IF s[k] \in keep THEN Append(p[k - 1], s[k]) ELSE p[k - 1]
  BY <1>0, <1>8, Places
<1>s. p[0] \in Seq(S)
  BY <1>9
<1>10. p = [k \in 0 .. w |-> p[k]]
  BY <1>6
<1>11. \A k \in 1 .. w : p[k - 1] \in Seq(S) => p[k] \in Seq(S)
  <2> TAKE k \in 1 .. w
  <2>1. PICK a, x : a = p[k - 1] /\ x = s[k]
    OBVIOUS
  <2>2. a \in Seq(S) => Append(a, x) \in Seq(S)
    BY <1>0, <2>1
  <2>3. p[k] = a \/ p[k] = Append(a, x)
    BY <1>9, <2>1
  <2> QED
    BY <2>1, <2>2, <2>3
<1>12. p \in [0 .. w -> Seq(S)]
  BY <1>0, <1>8, <1>10, <1>11, <1>s, AllOf, Zenon
<1>13. Staged(S, s, keep, p)
  BY <1>w, <1>7, <1>9, <1>12 DEF Staged
<1> QED
  BY <1>13

\* Of nothing there is no part.
LEMMA PartOfNone ==
    ASSUME NEW keep
    PROVE  Part(<< >>, keep) = << >>
<1>1. PICK s, S : s = << >> /\ S = Nat
  OBVIOUS
<1>2. s \in Seq(S) /\ Len(s) = 0
  BY <1>1
<1>3. PICK p : Staged(S, s, keep, p)
  BY <1>2, Stages
<1> QED
  BY <1>1, <1>2, <1>3 DEF Staged

\* One header more.
Grown(S, s, x, keep) ==
    /\ Part(s, keep) \in Seq(S)
    /\ Part(Append(s, x), keep) = IF x \in keep THEN Append(Part(s, keep), x) ELSE Part(s, keep)

\* One more element is kept behind the others or left out.
LEMMA PartAppended ==
    ASSUME NEW S, NEW s \in Seq(S), NEW x \in S, NEW keep
    PROVE  Grown(S, s, x, keep)
<1>1. PICK t, n : t = Append(s, x) /\ n = Len(s)
  OBVIOUS
<1>2. /\ n \in Nat /\ t \in Seq(S) /\ Len(t) = n + 1 /\ t[n + 1] = x
      /\ \A k \in 1 .. n : t[k] = s[k]
  BY <1>1
<1>3. PICK p : Staged(S, s, keep, p)
  BY Stages
<1>4. PICK q : Staged(S, t, keep, q)
  BY <1>2, Stages
<1> DEFINE b == [k \in 0 .. n |-> q[k]]
<1>5. /\ p \in [0 .. n -> Seq(S)] /\ p[0] = << >> /\ Part(s, keep) = p[n]
      /\ \A k \in 1 .. n : p[k] = IF s[k] \in keep THEN Append(p[k - 1], s[k]) ELSE p[k - 1]
  BY <1>1, <1>3 DEF Staged
<1>6. /\ q \in [0 .. n + 1 -> Seq(S)] /\ q[0] = << >> /\ Part(t, keep) = q[n + 1]
      /\ \A k \in 1 .. n + 1 : q[k] = IF t[k] \in keep THEN Append(q[k - 1], t[k]) ELSE q[k - 1]
  BY <1>2, <1>4 DEF Staged
<1>7. \A k \in 0 .. n : k \in 0 .. n + 1
  BY <1>2
<1>8. b \in [0 .. n -> Seq(S)] /\ \A k \in 0 .. n : b[k] = q[k]
  BY <1>6, <1>7
<1> HIDE DEF b
<1>9. p[0] = b[0]
  BY <1>2, <1>5, <1>6, <1>8, Places
<1>10. \A k \in 1 .. n : p[k - 1] = b[k - 1] => p[k] = b[k]
  <2> TAKE k \in 1 .. n
  <2>1. k \in 0 .. n /\ k - 1 \in 0 .. n /\ k \in 1 .. n + 1
    BY <1>2
  <2>2. b[k] = q[k] /\ b[k - 1] = q[k - 1] /\ t[k] = s[k]
    BY <1>2, <1>8, <2>1
  <2> QED
    BY <1>5, <1>6, <2>1, <2>2
<1>11. \A k \in 0 .. n : p[k] = b[k]
  <2>1. Follows(n, p, b)
    BY <1>10 DEF Follows
  <2>2. Agree(n, p, b)
    BY <1>2, <1>9, <2>1, StepByStep
  <2> QED
    BY <2>2 DEF Agree
<1>12. q[n] = p[n]
  BY <1>2, <1>8, <1>11, Places
<1>13. n + 1 \in 1 .. n + 1 /\ (n + 1) - 1 = n /\ n \in 0 .. n
  BY <1>2
<1>14. Part(t, keep) = IF x \in keep THEN Append(q[n], x) ELSE q[n]
  BY <1>2, <1>6, <1>13
<1>15. Part(s, keep) \in Seq(S)
  BY <1>5, <1>13
<1> QED
  BY <1>1, <1>5, <1>12, <1>14, <1>15 DEF Grown

\* Sequences of a smaller set.
LEMMA SeqSmaller ==
    ASSUME NEW S, NEW T, S \subseteq T, NEW s \in Seq(S)
    PROVE  s \in Seq(T)
  OBVIOUS

\* A part has headers of the sequence that are to be kept.
LEMMA PartType ==
    ASSUME NEW S, NEW keep, NEW s \in Seq(S)
    PROVE  Part(s, keep) \in Seq(S \cap keep) /\ Part(s, keep) \in Seq(S)
<1> DEFINE P == {q \in Seq(S) : Part(q, keep) \in Seq(S \cap keep)}
<1>1. << >> \in P
  <2>1. PICK none : none = << >>
    OBVIOUS
  <2>2. none \in Seq(S) /\ none \in Seq(S \cap keep)
    BY <2>1
  <2>3. Part(none, keep) = none
    BY <2>1, PartOfNone
  <2> QED
    BY <2>1, <2>2, <2>3
<1>2. ASSUME NEW q \in Seq(S), NEW x \in S, q \in P PROVE Append(q, x) \in P
  <2>1. PICK p, t : p = Part(q, keep) /\ t = Append(q, x)
    OBVIOUS
  <2>2. p \in Seq(S \cap keep) /\ t \in Seq(S)
    BY <1>2, <2>1
  <2>3. Grown(S, q, x, keep)
    BY PartAppended
  <2>4. Part(t, keep) = IF x \in keep THEN Append(p, x) ELSE p
    BY <2>1, <2>3 DEF Grown
  <2>5. x \in keep => Append(p, x) \in Seq(S \cap keep)
    BY <2>2
  <2>6. Part(t, keep) \in Seq(S \cap keep)
    BY <2>2, <2>4, <2>5
  <2> QED
    BY <2>1, <2>2, <2>6
<1> HIDE DEF P
<1>3. s \in P
  BY <1>1, <1>2, SequencesFrom
<1>4. Part(s, keep) \in Seq(S \cap keep)
  BY <1>3 DEF P
<1> QED
  BY <1>4, SeqSmaller

\* It does not depend on what else is to be kept.
LEMMA PartSame ==
    ASSUME NEW S, NEW keep, NEW also, S \cap keep = S \cap also, NEW s \in Seq(S)
    PROVE  Part(s, keep) = Part(s, also)
<1> DEFINE P == {q \in Seq(S) : Part(q, keep) = Part(q, also)}
<1>1. << >> \in P
  <2>1. PICK none : none = << >>
    OBVIOUS
  <2>2. none \in Seq(S) /\ Part(none, keep) = none /\ Part(none, also) = none
    BY <2>1, PartOfNone
  <2> QED
    BY <2>1, <2>2
<1>2. ASSUME NEW q \in Seq(S), NEW x \in S, q \in P PROVE Append(q, x) \in P
  <2>1. PICK p, t : p = Part(q, keep) /\ t = Append(q, x)
    OBVIOUS
  <2>2. p = Part(q, also) /\ t \in Seq(S)
    BY <1>2, <2>1
  <2>3. Grown(S, q, x, keep) /\ Grown(S, q, x, also)
    BY PartAppended
  <2>4. /\ Part(t, keep) = IF x \in keep THEN Append(p, x) ELSE p
        /\ Part(t, also) = IF x \in also THEN Append(p, x) ELSE p
    BY <2>1, <2>2, <2>3 DEF Grown
  <2>5. x \in keep <=> x \in also
    OBVIOUS
  <2>6. Part(t, keep) = Part(t, also)
    BY <2>4, <2>5
  <2> QED
    BY <2>1, <2>2, <2>6
<1> HIDE DEF P
<1>3. s \in P
  BY <1>1, <1>2, SequencesFrom
<1> QED
  BY <1>3 DEF P

\* A part of a part.
LEMMA PartOfPart ==
    ASSUME NEW S, NEW keep, NEW also, NEW s \in Seq(S)
    PROVE  Part(Part(s, keep), also) = Part(s, keep \cap also)
<1> DEFINE P == {q \in Seq(S) : Part(Part(q, keep), also) = Part(q, keep \cap also)}
<1>1. << >> \in P
  <2>1. PICK none, both : none = << >> /\ both = keep \cap also
    OBVIOUS
  <2>2. /\ none \in Seq(S) /\ Part(none, keep) = none /\ Part(none, also) = none
        /\ Part(none, both) = none
    BY <2>1, PartOfNone
  <2> QED
    BY <2>1, <2>2
<1>2. ASSUME NEW q \in Seq(S), NEW x \in S, q \in P PROVE Append(q, x) \in P
  <2>1. PICK p, t, both, r : p = Part(q, keep) /\ t = Append(q, x) /\ both = keep \cap also
                             /\ r = Append(p, x)
    OBVIOUS
  <2>p. p \in Seq(S)
    BY <2>1, PartType
  <2>2. p \in Seq(S) /\ t \in Seq(S) /\ Part(p, also) = Part(q, both)
    BY <1>2, <2>1, <2>p
  <2>3. Grown(S, q, x, keep) /\ Grown(S, q, x, both) /\ Grown(S, p, x, also)
    BY <2>2, PartAppended
  <2>4. /\ Part(t, keep) = IF x \in keep THEN r ELSE p
        /\ Part(t, both) = IF x \in both THEN Append(Part(q, both), x) ELSE Part(q, both)
        /\ Part(r, also) = IF x \in also THEN Append(Part(p, also), x) ELSE Part(p, also)
    BY <2>1, <2>3 DEF Grown
  <2>5. x \in both <=> x \in keep /\ x \in also
    BY <2>1
  <2>6. Part(Part(t, keep), also) = Part(t, both)
    <3>1. CASE x \notin keep
      BY <2>2, <2>4, <2>5, <3>1
    <3>2. CASE x \in keep
      BY <2>2, <2>4, <2>5, <3>2
    <3> QED
      BY <3>1, <3>2
  <2> QED
    BY <2>1, <2>2, <2>6
<1> HIDE DEF P
<1>3. s \in P
  BY <1>1, <1>2, SequencesFrom
<1> QED
  BY <1>3 DEF P

\* A header more at the end of two joined sequences.
LEMMA JoinedAppended ==
    ASSUME NEW S, NEW s \in Seq(S), NEW t \in Seq(S), NEW x \in S
    PROVE  s \o Append(t, x) = Append(s \o t, x)
<1>1. PICK m, n, u, v, w : /\ m = Len(s) /\ n = Len(t) /\ u = Append(t, x)
                           /\ v = s \o u /\ w = Append(s \o t, x)
  OBVIOUS
<1>2. /\ m \in Nat /\ n \in Nat /\ u \in Seq(S) /\ Len(u) = n + 1 /\ u[n + 1] = x
      /\ \A i \in 1 .. n : u[i] = t[i]
  BY <1>1
<1>3. /\ v \in Seq(S) /\ Len(v) = m + (n + 1)
      /\ \A i \in 1 .. m + (n + 1) : v[i] = IF i <= m THEN s[i] ELSE u[i - m]
  BY <1>1, <1>2, ConcatProperties
<1>4. PICK j : j = s \o t
  OBVIOUS
<1>5. /\ j \in Seq(S) /\ Len(j) = m + n
      /\ \A i \in 1 .. m + n : j[i] = IF i <= m THEN s[i] ELSE t[i - m]
  BY <1>1, <1>4, ConcatProperties
<1>6. /\ w \in Seq(S) /\ Len(w) = (m + n) + 1 /\ w[(m + n) + 1] = x
      /\ \A i \in 1 .. m + n : w[i] = j[i]
  BY <1>1, <1>4, <1>5
<1>7. ASSUME NEW i \in 1 .. Len(v) PROVE v[i] = w[i]
  <2>1. CASE i <= m
    BY <1>2, <1>3, <1>5, <1>6, <2>1
  <2>2. CASE i > m /\ i <= m + n
    <3>1. i - m \in 1 .. n /\ i \in 1 .. m + n /\ i \in 1 .. m + (n + 1) /\ ~(i <= m)
      BY <1>2, <2>2
    <3>2. v[i] = u[i - m] /\ w[i] = t[i - m]
      BY <1>3, <1>5, <1>6, <3>1
    <3> QED
      BY <1>2, <3>1, <3>2
  <2>3. CASE i > m + n
    <3>1. i = (m + n) + 1 /\ i - m = n + 1 /\ i \in 1 .. m + (n + 1) /\ ~(i <= m)
      BY <1>2, <1>3, <2>3
    <3>2. v[i] = u[n + 1]
      BY <1>3, <3>1
    <3> QED
      BY <1>2, <1>6, <3>1, <3>2
  <2> QED
    BY <1>2, <2>1, <2>2, <2>3
<1>8. Len(v) = Len(w)
  BY <1>2, <1>3, <1>6
<1>9. v = w
  BY <1>3, <1>6, <1>7, <1>8, SeqEqual
<1> QED
  BY <1>1, <1>9

\* A part of two joined sequences.
LEMMA PartJoined ==
    ASSUME NEW S, NEW s \in Seq(S), NEW keep, NEW t \in Seq(S)
    PROVE  Part(s \o t, keep) = Part(s, keep) \o Part(t, keep)
<1> DEFINE P == {q \in Seq(S) : Part(s \o q, keep) = Part(s, keep) \o Part(q, keep)}
<1>0. PICK p : p = Part(s, keep)
  OBVIOUS
<1>p. p \in Seq(S)
  BY <1>0, PartType
<1>1. << >> \in P
  <2>1. PICK none : none = << >>
    OBVIOUS
  <2>2. s \o none = s /\ p \o none = p /\ none \in Seq(S) /\ Part(none, keep) = none
    BY <1>p, <2>1, ConcatEmptySeq, PartOfNone
  <2>3. Part(s \o none, keep) = Part(s, keep) \o Part(none, keep)
    BY <1>0, <2>2
  <2> QED
    BY <2>1, <2>2, <2>3
<1>2. ASSUME NEW q \in Seq(S), NEW x \in S, q \in P PROVE Append(q, x) \in P
  <2>1. PICK r, u, j, v : /\ r = Part(q, keep) /\ u = Append(q, x) /\ j = s \o q
                          /\ v = Append(j, x)
    OBVIOUS
  <2>r. r \in Seq(S)
    BY <2>1, PartType
  <2>2. r \in Seq(S) /\ u \in Seq(S) /\ j \in Seq(S) /\ Part(j, keep) = p \o r
    BY <1>0, <1>2, <2>1, <2>r
  <2>a. s \o Append(q, x) = Append(s \o q, x)
    BY JoinedAppended
  <2>b. p \o Append(r, x) = Append(p \o r, x)
    BY <1>p, <2>r, JoinedAppended
  <2>3. s \o u = v /\ p \o Append(r, x) = Append(p \o r, x)
    BY <2>1, <2>a, <2>b
  <2>g. Grown(S, q, x, keep) /\ Grown(S, j, x, keep)
    BY <2>2, PartAppended
  <2>4. /\ Part(u, keep) = IF x \in keep THEN Append(r, x) ELSE r
        /\ Part(v, keep) = IF x \in keep THEN Append(p \o r, x) ELSE p \o r
    BY <2>1, <2>2, <2>g DEF Grown
  <2>5. Part(v, keep) = p \o Part(u, keep)
    <3>1. CASE x \in keep
      BY <2>3, <2>4, <3>1
    <3>2. CASE x \notin keep
      BY <2>4, <3>2
    <3> QED
      BY <3>1, <3>2
  <2>6. Part(s \o u, keep) = Part(s, keep) \o Part(u, keep)
    BY <1>0, <2>3, <2>5
  <2> QED
    BY <2>1, <2>2, <2>6
<1> HIDE DEF P
<1>3. t \in P
  BY <1>1, <1>2, SequencesFrom
<1> QED
  BY <1>3 DEF P

\* What is kept altogether, or not at all.
LEMMA PartWhole ==
    ASSUME NEW S, NEW keep, S \subseteq keep, NEW s \in Seq(S)
    PROVE  Part(s, keep) = s
<1> DEFINE P == {q \in Seq(S) : Part(q, keep) = q}
<1>1. << >> \in P
  <2>1. PICK none : none = << >>
    OBVIOUS
  <2>2. none \in Seq(S) /\ Part(none, keep) = none
    BY <2>1, PartOfNone
  <2> QED
    BY <2>1, <2>2
<1>2. ASSUME NEW q \in Seq(S), NEW x \in S, q \in P PROVE Append(q, x) \in P
  <2>1. PICK u : u = Append(q, x)
    OBVIOUS
  <2>2. Part(q, keep) = q /\ u \in Seq(S) /\ x \in keep
    BY <1>2, <2>1
  <2>3. Grown(S, q, x, keep)
    BY PartAppended
  <2>4. Part(u, keep) = u
    BY <2>1, <2>2, <2>3 DEF Grown
  <2> QED
    BY <2>1, <2>2, <2>4
<1> HIDE DEF P
<1>3. s \in P
  BY <1>1, <1>2, SequencesFrom
<1> QED
  BY <1>3 DEF P

\* A filter that keeps nothing of S keeps nothing of a sequence over S.
LEMMA PartEmpty ==
    ASSUME NEW S, NEW keep, S \cap keep = {}, NEW s \in Seq(S)
    PROVE  Part(s, keep) = << >>
<1>1. PICK T, p : T = S \cap keep /\ p = Part(s, keep)
  OBVIOUS
<1>2. p \in Seq(T) /\ T = {}
  BY <1>1, PartType
<1>3. p = << >>
  BY <1>2
<1> QED
  BY <1>1, <1>3

\* A sequence whose elements change one by one, as [i \in DOMAIN s |-> f[s[i]]] says.
Mapped(f, s) == [i \in DOMAIN s |-> f[s[i]]]
MappedAs(T, f, s, m) ==
    m \in Seq(T) /\ Len(m) = Len(s) /\ \A i \in 1 .. Len(s) : m[i] = f[s[i]]

\* Mapping keeps the length and maps each place.
LEMMA MappedType ==
    ASSUME NEW S, NEW T, NEW f \in [S -> T], NEW s \in Seq(S)
    PROVE  MappedAs(T, f, s, Mapped(f, s))
<1>1. Mapped(f, s) = [i \in 1 .. Len(s) |-> f[s[i]]]
  BY DEF Mapped
<1>2. \A i \in 1 .. Len(s) : f[s[i]] \in T
  OBVIOUS
<1> QED
  BY <1>1, <1>2 DEF MappedAs

\* Mapping one more element maps it behind the others.
LEMMA MappedAppended ==
    ASSUME NEW S, NEW T, NEW f \in [S -> T], NEW s \in Seq(S), NEW x \in S
    PROVE  Mapped(f, Append(s, x)) = Append(Mapped(f, s), f[x])
<1>1. PICK n, t, u, v, w : /\ n = Len(s) /\ t = Append(s, x) /\ u = Mapped(f, t)
                           /\ v = Mapped(f, s) /\ w = Append(v, f[x])
  OBVIOUS
<1>2. /\ n \in Nat /\ t \in Seq(S) /\ Len(t) = n + 1 /\ t[n + 1] = x
      /\ \A i \in 1 .. n : t[i] = s[i]
  BY <1>1
<1>3. /\ u \in Seq(T) /\ Len(u) = n + 1 /\ \A i \in 1 .. n + 1 : u[i] = f[t[i]]
      /\ v \in Seq(T) /\ Len(v) = n /\ \A i \in 1 .. n : v[i] = f[s[i]]
  <2>1. MappedAs(T, f, t, Mapped(f, t)) /\ MappedAs(T, f, s, Mapped(f, s))
    BY <1>2, MappedType
  <2> QED
    BY <1>1, <1>2, <2>1 DEF MappedAs
<1>4. PICK y : y = f[x]
  OBVIOUS
<1>5. y \in T
  BY <1>4
<1>6. w \in Seq(T) /\ Len(w) = n + 1 /\ w[n + 1] = y /\ \A i \in 1 .. n : w[i] = v[i]
  BY <1>1, <1>3, <1>4, <1>5
<1>7. \A i \in 1 .. Len(u) : u[i] = w[i]
  <2> TAKE i \in 1 .. Len(u)
  <2>1. CASE i = n + 1
    BY <1>2, <1>3, <1>4, <1>6, <2>1
  <2>2. CASE i # n + 1
    BY <1>2, <1>3, <1>6, <2>2
  <2> QED
    BY <2>1, <2>2
<1>8. Len(u) = Len(w)
  BY <1>3, <1>6
<1>9. u = w
  BY <1>3, <1>6, <1>7, <1>8, SeqEqual
<1> QED
  BY <1>1, <1>9

\* A part of a sequence that changed.
Alike(S, T, f, keep, also) == f \in [S -> T] /\ \A x \in S : x \in keep <=> f[x] \in also

\* Filtering what was mapped is mapping what was filtered, when both filters ask the
\* same of an element and its image.
LEMMA PartMapped ==
    ASSUME NEW S, NEW T, NEW f, NEW keep, NEW also,
           Alike(S, T, f, keep, also), NEW s \in Seq(S)
    PROVE  Part(Mapped(f, s), also) = Mapped(f, Part(s, keep))
<1>0. f \in [S -> T]
  BY DEF Alike
<1>m. ASSUME NEW q \in Seq(S), NEW x \in S
      PROVE  Mapped(f, Append(q, x)) = Append(Mapped(f, q), f[x])
  BY <1>0, MappedAppended
<1> DEFINE P == {q \in Seq(S) : Part(Mapped(f, q), also) = Mapped(f, Part(q, keep))}
<1>1. << >> \in P
  <2>1. PICK none : none = << >>
    OBVIOUS
  <2>2. none \in Seq(S) /\ Part(none, keep) = none /\ Part(none, also) = none
    BY <2>1, PartOfNone
  <2>3. Mapped(f, none) = none
    <3>1. PICK m : m = Mapped(f, none)
      OBVIOUS
    <3>2. MappedAs(T, f, none, Mapped(f, none))
      BY <1>0, <2>2, MappedType
    <3>3. m \in Seq(T) /\ Len(m) = 0
      BY <2>1, <3>1, <3>2 DEF MappedAs
    <3> QED
      BY <2>1, <3>1, <3>3
  <2> QED
    BY <2>1, <2>2, <2>3
<1>2. ASSUME NEW q \in Seq(S), NEW x \in S, q \in P PROVE Append(q, x) \in P
  <2>1. PICK r, u, m, y : r = Part(q, keep) /\ u = Append(q, x) /\ m = Mapped(f, q) /\ y = f[x]
    OBVIOUS
  <2>2. /\ r \in Seq(S) /\ u \in Seq(S) /\ m \in Seq(T) /\ y \in T
        /\ Part(m, also) = Mapped(f, r)
    <3>1. r \in Seq(S)
      BY <2>1, PartType
    <3>2. MappedAs(T, f, q, Mapped(f, q))
      BY <1>0, MappedType
    <3>3. m \in Seq(T)
      BY <2>1, <3>2 DEF MappedAs
    <3> QED
      BY <1>0, <1>2, <2>1, <3>1, <3>3
  <2>a. Mapped(f, Append(q, x)) = Append(Mapped(f, q), f[x])
    BY <1>m
  <2>r. r \in Seq(S)
    BY <2>2
  <2>b. Mapped(f, Append(r, x)) = Append(Mapped(f, r), f[x])
    BY <1>m, <2>r
  <2>3. Mapped(f, u) = Append(m, y) /\ Mapped(f, Append(r, x)) = Append(Mapped(f, r), y)
    BY <2>1, <2>a, <2>b
  <2>4. Grown(S, q, x, keep) /\ Grown(T, m, y, also)
    BY <2>2, PartAppended
  <2>5. /\ Part(u, keep) = IF x \in keep THEN Append(r, x) ELSE r
        /\ Part(Append(m, y), also) = IF y \in also THEN Append(Mapped(f, r), y) ELSE Mapped(f, r)
    BY <2>1, <2>2, <2>4 DEF Grown
  <2>6. x \in keep <=> y \in also
    BY <2>1 DEF Alike
  <2>7. Part(Mapped(f, u), also) = Mapped(f, Part(u, keep))
    <3>1. CASE x \in keep
      BY <2>3, <2>5, <2>6, <3>1
    <3>2. CASE x \notin keep
      BY <2>3, <2>5, <2>6, <3>2
    <3> QED
      BY <3>1, <3>2
  <2> QED
    BY <2>1, <2>2, <2>7
<1> HIDE DEF P
<1>3. s \in P
  BY <1>1, <1>2, SequencesFrom
<1> QED
  BY <1>3 DEF P

-----------------------------------------------------------------------------
(* The header of a frame.                                                      *)

\* A part of a sequence of texts, numbers or messages.
LEMMA PartOf ==
    ASSUME NEW S, NEW s \in Seq(S), NEW i \in Int, NEW j \in Int, 1 <= i, j <= Len(s), i <= j + 1
    PROVE  /\ SubSeq(s, i, j) \in Seq(S) /\ Len(SubSeq(s, i, j)) = (j - i) + 1
           /\ \A k \in 1 .. (j - i) + 1 : SubSeq(s, i, j)[k] = s[(i + k) - 1]
<1>1. \A k \in i .. j : s[k] \in S
  OBVIOUS
<1>2. /\ SubSeq(s, i, j) \in Seq(S)
      /\ Len(SubSeq(s, i, j)) = IF i <= j THEN j - i + 1 ELSE 0
      /\ \A k \in 1 .. j - i + 1 : SubSeq(s, i, j)[k] = s[i + k - 1]
  BY <1>1, SubSeqProperties
<1> QED
  BY <1>2

\* Two sequences that are joined, and each of them again.
Halves(S, r, p, q, m, l) ==
    /\ r \in Seq(S) /\ Len(r) = l
    /\ \A k \in 1 .. m : r[k] = p[k]
    /\ SubSeq(r, m + 1, l) = q
    /\ \A i, j \in 1 .. m : i <= j + 1 => SubSeq(r, i, j) = SubSeq(p, i, j)

\* Where the elements of a concatenation come from.
LEMMA TwoParts ==
    ASSUME NEW S, NEW p \in Seq(S), NEW q \in Seq(S)
    PROVE  Halves(S, p \o q, p, q, Len(p), Len(p) + Len(q))
<1>0. PICK r, m, n : r = p \o q /\ m = Len(p) /\ n = Len(q)
  OBVIOUS
<1>m. m \in Nat /\ n \in Nat
  BY <1>0
<1>1. /\ r \in Seq(S) /\ Len(r) = m + n
      /\ \A i \in 1 .. m + n : r[i] = IF i <= m THEN p[i] ELSE q[i - m]
  BY <1>0, ConcatProperties
<1>2. \A k \in 1 .. m : r[k] = p[k]
  BY <1>m, <1>1
<1>3. \A k \in 1 .. n : r[m + k] = q[k]
  <2> TAKE k \in 1 .. n
  <2>1. m + k \in 1 .. m + n /\ ~(m + k <= m) /\ (m + k) - m = k
    BY <1>m
  <2> QED
    BY <1>1, <2>1
<1>4. SubSeq(r, m + 1, m + n) = q
  <2>1. PICK s : s = SubSeq(r, m + 1, m + n)
    OBVIOUS
  <2>2. /\ s \in Seq(S) /\ Len(s) = n
        /\ \A k \in 1 .. n : s[k] = r[m + k]
    <3>1. /\ s \in Seq(S) /\ Len(s) = ((m + n) - (m + 1)) + 1
          /\ \A k \in 1 .. ((m + n) - (m + 1)) + 1 : s[k] = r[((m + 1) + k) - 1]
      <4>1. m + 1 \in Int /\ m + n \in Int /\ 1 <= m + 1 /\ m + n <= Len(r) /\ m + 1 <= (m + n) + 1
        BY <1>m, <1>1
      <4> QED
        BY <1>1, <2>1, <4>1, PartOf
    <3>2. ((m + n) - (m + 1)) + 1 = n /\ \A k \in 1 .. n : ((m + 1) + k) - 1 = m + k
      BY <1>m
    <3> QED
      BY <3>1, <3>2
  <2>3. \A k \in 1 .. Len(s) : s[k] = q[k]
    BY <1>3, <2>2
  <2>4. Len(s) = Len(q)
    BY <1>0, <2>2
  <2> QED
    BY <2>1, <2>2, <2>3, <2>4, SeqEqual, Zenon
<1>5. ASSUME NEW i \in 1 .. m, NEW j \in 1 .. m, i <= j + 1
      PROVE  SubSeq(r, i, j) = SubSeq(p, i, j)
  <2>1. PICK s, t, l : s = SubSeq(r, i, j) /\ t = SubSeq(p, i, j) /\ l = (j - i) + 1
    OBVIOUS
  <2>0. /\ i \in Int /\ j \in Int /\ 1 <= i /\ j <= Len(r) /\ j <= Len(p)
    BY <1>0, <1>m, <1>1
  <2>2. s \in Seq(S) /\ Len(s) = l /\ \A k \in 1 .. l : s[k] = r[(i + k) - 1]
    <3>1. /\ s \in Seq(S) /\ Len(s) = (j - i) + 1
          /\ \A k \in 1 .. (j - i) + 1 : s[k] = r[(i + k) - 1]
      BY <1>1, <1>5, <2>0, <2>1, PartOf
    <3> QED
      BY <2>1, <3>1
  <2>3. t \in Seq(S) /\ Len(t) = l /\ \A k \in 1 .. l : t[k] = p[(i + k) - 1]
    <3>1. /\ t \in Seq(S) /\ Len(t) = (j - i) + 1
          /\ \A k \in 1 .. (j - i) + 1 : t[k] = p[(i + k) - 1]
      BY <1>5, <2>0, <2>1, PartOf
    <3> QED
      BY <2>1, <3>1
  <2>4. \A k \in 1 .. l : (i + k) - 1 \in 1 .. m
    BY <1>m, <1>5, <2>1
  <2>5. \A k \in 1 .. Len(s) : s[k] = t[k]
    BY <1>2, <2>2, <2>3, <2>4
  <2> QED
    BY <2>1, <2>2, <2>3, <2>5, SeqEqual, Zenon
<1>6. Halves(S, r, p, q, m, m + n)
  BY <1>1, <1>2, <1>4, <1>5 DEF Halves
<1> QED
  BY <1>0, <1>6

\* A sequence of five parts, and its parts again.
Laid(S, e, two, x, y, z, a, b, c, m, n) ==
    /\ e \in Seq(S) /\ Len(e) = 5 + 2 * m + n
    /\ SubSeq(e, 1, 2) = two /\ e[3] = x /\ e[4] = y /\ e[5] = z
    /\ SubSeq(e, 6, 5 + m) = a
    /\ SubSeq(e, 6 + m, 5 + 2 * m) = b
    /\ SubSeq(e, 6 + 2 * m, 5 + 2 * m + n) = c

\* The places of the five parts of an encoded header.
LEMMA PartsJoined ==
    ASSUME NEW S, NEW v \in S, NEW w \in S, NEW x \in S, NEW y \in S, NEW z \in S,
           NEW m \in Nat \ {0}, NEW n \in Nat \ {0},
           NEW a \in Seq(S), NEW b \in Seq(S), NEW c \in Seq(S),
           Len(a) = m, Len(b) = m, Len(c) = n,
           NEW e, e = <<v, w>> \o <<x, y, z>> \o a \o b \o c
    PROVE  Laid(S, e, <<v, w>>, x, y, z, a, b, c, m, n)
<1>0. PICK f, g : f = <<v, w>> /\ g = <<x, y, z>>
  OBVIOUS
<1>1. PICK p : p = f \o g
  OBVIOUS
<1>2. /\ p \in Seq(S) /\ Len(p) = 5 /\ p[3] = x /\ p[4] = y /\ p[5] = z
      /\ SubSeq(p, 1, 2) = f
  <2>1. f \in Seq(S) /\ Len(f) = 2 /\ g \in Seq(S) /\ Len(g) = 3
    BY <1>0
  <2>2. p \in Seq(S) /\ Len(p) = 5 /\ p[3] = g[1] /\ p[4] = g[2] /\ p[5] = g[3]
    <3>1. /\ p \in Seq(S) /\ Len(p) = 5
          /\ \A i \in 1 .. 5 : p[i] = IF i <= 2 THEN f[i] ELSE g[i - 2]
      <4>1. /\ p \in Seq(S) /\ Len(p) = Len(f) + Len(g)
            /\ \A i \in 1 .. Len(f) + Len(g) : p[i] = IF i <= Len(f) THEN f[i] ELSE g[i - Len(f)]
        BY <1>1, <2>1, ConcatProperties, Zenon
      <4> QED
        BY <2>1, <4>1
    <3> QED
      BY <3>1
  <2>3. SubSeq(p, 1, 2) = f
    <3>1. SubSeq(p, 1, 2) = SubSeq(f, 1, 2)
      <4>1. Halves(S, p, f, g, 2, 2 + 3)
        BY <1>1, <2>1, TwoParts
      <4>2. 1 \in 1 .. 2 /\ 2 \in 1 .. 2 /\ 1 <= 2 + 1
        OBVIOUS
      <4> QED
        BY <4>1, <4>2 DEF Halves
    <3>2. SubSeq(f, 1, 2) = f
      BY <2>1, SubSeqFull
    <3> QED
      BY <3>1, <3>2
  <2>4. g[1] = x /\ g[2] = y /\ g[3] = z
    BY <1>0
  <2> QED
    BY <2>2, <2>3, <2>4
<1>3. PICK q : q = p \o a
  OBVIOUS
<1>4. PICK k : k = 5 + m
  OBVIOUS
<1>5. k \in Nat /\ k >= 6
  BY <1>4
<1>6. /\ q \in Seq(S) /\ Len(q) = k /\ \A i \in 1 .. 5 : q[i] = p[i]
      /\ SubSeq(q, 6, k) = a /\ SubSeq(q, 1, 2) = SubSeq(p, 1, 2)
  <2>1. 5 + 1 = 6 /\ k \in Nat /\ 1 \in 1 .. 5 /\ 2 \in 1 .. 5 /\ 1 <= 2 + 1
    BY <1>5
  <2>2. Halves(S, q, p, a, 5, k)
    BY <1>2, <1>3, <1>4, TwoParts
  <2> QED
    BY <2>1, <2>2 DEF Halves
<1>7. PICK r : r = q \o b
  OBVIOUS
<1>8. PICK l : l = k + m
  OBVIOUS
<1>9. l \in Nat /\ l > k
  BY <1>5, <1>8
<1>10. /\ r \in Seq(S) /\ Len(r) = l /\ \A i \in 1 .. k : r[i] = q[i]
       /\ SubSeq(r, k + 1, l) = b
       /\ SubSeq(r, 6, k) = SubSeq(q, 6, k) /\ SubSeq(r, 1, 2) = SubSeq(q, 1, 2)
  <2>1. /\ k + 1 \in Nat /\ l \in Nat /\ 1 \in 1 .. k /\ 2 \in 1 .. k /\ 1 <= 2 + 1
        /\ 6 \in 1 .. k /\ k \in 1 .. k /\ 6 <= k + 1
    BY <1>5, <1>9
  <2>2. Halves(S, r, q, b, k, l)
    BY <1>6, <1>7, <1>8, TwoParts
  <2> QED
    BY <2>1, <2>2 DEF Halves
<1>11. e = r \o c
  BY <1>0, <1>1, <1>3, <1>7
<1>12. /\ e \in Seq(S) /\ Len(e) = l + n /\ \A i \in 1 .. l : e[i] = r[i]
       /\ SubSeq(e, l + 1, l + n) = c
       /\ SubSeq(e, k + 1, l) = SubSeq(r, k + 1, l)
       /\ SubSeq(e, 6, k) = SubSeq(r, 6, k) /\ SubSeq(e, 1, 2) = SubSeq(r, 1, 2)
  <2>1. /\ l + 1 \in Nat /\ l + n \in Nat /\ 1 \in 1 .. l /\ 2 \in 1 .. l /\ 1 <= 2 + 1
        /\ 6 \in 1 .. l /\ k \in 1 .. l /\ 6 <= k + 1
        /\ k + 1 \in 1 .. l /\ l \in 1 .. l /\ k + 1 <= l + 1
    BY <1>5, <1>9
  <2>2. Halves(S, e, r, c, l, l + n)
    BY <1>10, <1>11, TwoParts
  <2> QED
    BY <2>1, <2>2 DEF Halves
<1>13. e[3] = x /\ e[4] = y /\ e[5] = z
  <2>1. \A i \in 3 .. 5 : i \in 1 .. 5 /\ i \in 1 .. k /\ i \in 1 .. l
    BY <1>5, <1>9
  <2>2. \A i \in 3 .. 5 : e[i] = p[i]
    BY <1>6, <1>10, <1>12, <2>1
  <2> QED
    BY <1>2, <2>2
<1>14. /\ k = 5 + m /\ l = 5 + 2 * m /\ k + 1 = 6 + m /\ l + 1 = 6 + 2 * m
       /\ l + n = 5 + 2 * m + n
  BY <1>4, <1>8
<1>15. SubSeq(e, 6, k) = a /\ SubSeq(e, k + 1, l) = b /\ SubSeq(e, 1, 2) = f
  BY <1>2, <1>6, <1>10, <1>12
<1>16. /\ SubSeq(e, 6, 5 + m) = a /\ SubSeq(e, 6 + m, 5 + 2 * m) = b
       /\ SubSeq(e, 6 + 2 * m, 5 + 2 * m + n) = c
  BY <1>12, <1>14, <1>15
<1>17. e \in Seq(S) /\ Len(e) = 5 + 2 * m + n
  BY <1>12, <1>14
<1>18. Laid(S, e, f, x, y, z, a, b, c, m, n)
  BY <1>13, <1>15, <1>16, <1>17 DEF Laid
<1> QED
  BY <1>0, <1>18

Cut(S, e, a, b, c, m, n) ==
    /\ a \in Seq(S) /\ Len(a) = m /\ b \in Seq(S) /\ Len(b) = m /\ c \in Seq(S) /\ Len(c) = n
    /\ e = SubSeq(e, 1, 2) \o <<e[3], e[4], e[5]>> \o a \o b \o c

\* A header of the right length is the concatenation of the parts read from it.
LEMMA PartsSplit ==
    ASSUME NEW S, NEW m \in Nat \ {0}, NEW n \in Nat \ {0}, NEW e \in Seq(S),
           Len(e) = 5 + 2 * m + n
    PROVE  Cut(S, e, SubSeq(e, 6, 5 + m), SubSeq(e, 6 + m, 5 + 2 * m),
                SubSeq(e, 6 + 2 * m, 5 + 2 * m + n), m, n)
<1>1. PICK k, l, z : k = 5 + m /\ l = 5 + 2 * m /\ z = 5 + 2 * m + n
  OBVIOUS
<1>2. /\ k \in Nat /\ l \in Nat /\ z \in Nat /\ 5 < k /\ k < l /\ l < z /\ Len(e) = z
      /\ k - 5 = m /\ l - k = m /\ z - l = n
      /\ 6 + m = k + 1 /\ 6 + 2 * m = l + 1
  BY <1>1
<1>3. /\ SubSeq(e, 6, k) \in Seq(S) /\ Len(SubSeq(e, 6, k)) = m
      /\ SubSeq(e, k + 1, l) \in Seq(S) /\ Len(SubSeq(e, k + 1, l)) = m
      /\ SubSeq(e, l + 1, z) \in Seq(S) /\ Len(SubSeq(e, l + 1, z)) = n
  <2>1. /\ 6 \in Int /\ k \in Int /\ l \in Int /\ z \in Int /\ k + 1 \in Int /\ l + 1 \in Int
        /\ 1 <= 6 /\ 1 <= k + 1 /\ 1 <= l + 1 /\ k <= Len(e) /\ l <= Len(e) /\ z <= Len(e)
        /\ 6 <= k + 1 /\ k + 1 <= l + 1 /\ l + 1 <= z + 1
        /\ (k - 6) + 1 = m /\ (l - (k + 1)) + 1 = m /\ (z - (l + 1)) + 1 = n
    BY <1>2
  <2>2. SubSeq(e, 6, k) \in Seq(S) /\ Len(SubSeq(e, 6, k)) = m
    BY <2>1, PartOf
  <2>3. SubSeq(e, k + 1, l) \in Seq(S) /\ Len(SubSeq(e, k + 1, l)) = m
    BY <2>1, PartOf
  <2>4. SubSeq(e, l + 1, z) \in Seq(S) /\ Len(SubSeq(e, l + 1, z)) = n
    BY <2>1, PartOf
  <2> QED
    BY <2>2, <2>3, <2>4
<1>4. SubSeq(e, 1, z) = e
  <2>1. SubSeq(e, 1, Len(e)) = e
    BY SubSeqFull
  <2> QED
    BY <1>2, <2>1
<1>5. SubSeq(e, 1, z) = SubSeq(e, 1, l) \o SubSeq(e, l + 1, z)
  <2>1. 1 \in 1 .. Len(e) + 1 /\ l \in 1 - 1 .. Len(e) /\ z \in l .. Len(e)
    BY <1>2
  <2> QED
    BY <2>1, ConcatAdjacentSubSeq
<1>6. SubSeq(e, 1, l) = SubSeq(e, 1, k) \o SubSeq(e, k + 1, l)
  <2>1. 1 \in 1 .. Len(e) + 1 /\ k \in 1 - 1 .. Len(e) /\ l \in k .. Len(e)
    BY <1>2
  <2> QED
    BY <2>1, ConcatAdjacentSubSeq
<1>7. SubSeq(e, 1, k) = SubSeq(e, 1, 5) \o SubSeq(e, 6, k)
  <2>1. 1 \in 1 .. Len(e) + 1 /\ 5 \in 1 - 1 .. Len(e) /\ k \in 5 .. Len(e)
    BY <1>2
  <2> QED
    BY <2>1, ConcatAdjacentSubSeq
<1>8. SubSeq(e, 1, 5) = SubSeq(e, 1, 2) \o SubSeq(e, 3, 5)
  <2>1. 1 \in 1 .. Len(e) + 1 /\ 2 \in 1 - 1 .. Len(e) /\ 5 \in 2 .. Len(e)
    BY <1>2
  <2> QED
    BY <2>1, ConcatAdjacentSubSeq
<1>9. SubSeq(e, 3, 5) = <<e[3], e[4], e[5]>>
  <2>0. PICK h, t : h = 3 /\ t = 5
    OBVIOUS
  <2>1. /\ SubSeq(e, h, t) \in Seq(S) /\ Len(SubSeq(e, h, t)) = (t - h) + 1
        /\ \A i \in 1 .. (t - h) + 1 : SubSeq(e, h, t)[i] = e[(h + i) - 1]
    <3>1. h \in Int /\ t \in Int /\ 1 <= h /\ t <= Len(e) /\ h <= t + 1
      BY <1>2, <2>0
    <3> QED
      BY <3>1, PartOf
  <2>2. PICK s : s = SubSeq(e, 3, 5)
    OBVIOUS
  <2>3. s \in Seq(S) /\ Len(s) = 3 /\ s[1] = e[3] /\ s[2] = e[4] /\ s[3] = e[5]
    <3>1. /\ s \in Seq(S) /\ Len(s) = (5 - 3) + 1
          /\ \A i \in 1 .. (5 - 3) + 1 : s[i] = e[(3 + i) - 1]
      BY <2>0, <2>1, <2>2
    <3> QED
      BY <3>1
  <2>4. e[3] \in S /\ e[4] \in S /\ e[5] \in S
    BY <1>2
  <2>5. PICK v : v = <<e[3], e[4], e[5]>>
    OBVIOUS
  <2>6. v \in Seq(S) /\ Len(v) = 3 /\ v[1] = e[3] /\ v[2] = e[4] /\ v[3] = e[5]
    BY <2>4, <2>5
  <2>7. Len(s) = Len(v) /\ \A i \in 1 .. Len(s) : s[i] = v[i]
    BY <2>3, <2>6
  <2>8. s = v
    BY <2>3, <2>6, <2>7, SeqEqual, Zenon
  <2> QED
    BY <2>2, <2>5, <2>8
<1>10. /\ SubSeq(e, 6, 5 + m) = SubSeq(e, 6, k)
       /\ SubSeq(e, 6 + m, 5 + 2 * m) = SubSeq(e, k + 1, l)
       /\ SubSeq(e, 6 + 2 * m, 5 + 2 * m + n) = SubSeq(e, l + 1, z)
  BY <1>1, <1>2
<1>11. e = SubSeq(e, 1, 2) \o <<e[3], e[4], e[5]>> \o SubSeq(e, 6, k)
                \o SubSeq(e, k + 1, l) \o SubSeq(e, l + 1, z)
  BY <1>4, <1>5, <1>6, <1>7, <1>8, <1>9
<1>12. Cut(S, e, SubSeq(e, 6, k), SubSeq(e, k + 1, l), SubSeq(e, l + 1, z), m, n)
  BY <1>3, <1>11 DEF Cut
<1> QED
  BY <1>10, <1>12

\* What is written of a valid header is bytes, and reads as that header.
Written(h, e) ==
    /\ e \in Seq(0 .. Byte - 1) /\ Len(e) = HeaderBytes
    /\ SubSeq(e, 1, 2) = Magic /\ e[3] = Version /\ e[4] \in Codes
    /\ HeaderOf(e) = [type |-> h.type, flags |-> h.flags, stream |-> h.stream,
                      seq |-> h.seq, length |-> h.length]

\* `encodeHeader` of a valid header is read back by `decodeHeader` as that header.
LEMMA ReadsAsWritten ==
    ASSUME NEW h, ValidHeader(h)
    PROVE  Written(h, EncodeHeader(h))
<1>1. PICK B, m, n, a, b, c, x, z, e :
          /\ B = 0 .. Byte - 1 /\ m = WideBytes /\ n = LongBytes
          /\ a = BigEndian(h.stream, m) /\ b = BigEndian(h.seq, m) /\ c = BigEndian(h.length, n)
          /\ x = Code[h.type] /\ z = h.flags
          /\ e = <<72, 67>> \o <<Version, x, z>> \o a \o b \o c
  OBVIOUS
<1>2. m \in Nat \ {0} /\ n \in Nat \ {0}
  BY <1>1, WireAssumption
<1>3. h.stream \in 0 .. Power(m) - 1 /\ h.seq \in 0 .. Power(m) - 1 /\ h.length \in 0 .. Power(n) - 1
  BY <1>1 DEF ValidHeader
<1>4. h.stream \in Nat /\ h.seq \in Nat /\ h.length \in Nat
  BY <1>3
<1>5. a \in Seq(B) /\ Len(a) = m /\ NumberOf(a) = h.stream
  BY <1>1, <1>2, <1>3, <1>4, BytesWritten, ReadAfterWrite
<1>6. b \in Seq(B) /\ Len(b) = m /\ NumberOf(b) = h.seq
  BY <1>1, <1>2, <1>3, <1>4, BytesWritten, ReadAfterWrite
<1>7. c \in Seq(B) /\ Len(c) = n /\ NumberOf(c) = h.length
  BY <1>1, <1>2, <1>3, <1>4, BytesWritten, ReadAfterWrite
<1>8. 72 \in B /\ 67 \in B /\ Version \in B
  BY <1>1, ByteAbove DEF Version
<1>9. x \in B /\ x \in Codes /\ TypeOf(x) = h.type
  <2>1. h.type \in FrameTypes
    BY DEF ValidHeader
  <2>2. x \in Codes /\ TypeOf(x) = h.type
    BY <1>1, <2>1, CodesAreDistinct
  <2>3. \A type \in FrameTypes : Code[type] \in 16 .. 49
    BY DEF FrameTypes, Code
  <2>4. x \in 16 .. 49
    BY <1>1, <2>1, <2>3
  <2>5. x \in B
    <3>1. B = 0 .. Byte - 1
      BY <1>1
    <3> QED
      BY <2>4, <3>1, WireAssumption
  <2> QED
    BY <2>2, <2>5
<1>10. z \in B
  BY <1>1 DEF ValidHeader
<1>11. /\ e \in Seq(B) /\ Len(e) = 5 + 2 * m + n
       /\ SubSeq(e, 1, 2) = <<72, 67>> /\ e[3] = Version /\ e[4] = x /\ e[5] = z
       /\ SubSeq(e, 6, 5 + m) = a
       /\ SubSeq(e, 6 + m, 5 + 2 * m) = b
       /\ SubSeq(e, 6 + 2 * m, 5 + 2 * m + n) = c
  <2>1. PICK v, w, y : v = 72 /\ w = 67 /\ y = Version
    OBVIOUS
  <2>2. v \in B /\ w \in B /\ y \in B /\ e = <<v, w>> \o <<y, x, z>> \o a \o b \o c
    BY <1>1, <1>8, <2>1
  <2>3. Laid(B, e, <<v, w>>, y, x, z, a, b, c, m, n)
    BY <1>2, <1>5, <1>6, <1>7, <1>9, <1>10, <2>2, PartsJoined
  <2> QED
    BY <2>1, <2>3 DEF Laid
<1>12. e = EncodeHeader(h)
  BY <1>1 DEF EncodeHeader, Magic
<1>13. HeaderOf(e) = [type |-> h.type, flags |-> h.flags, stream |-> h.stream,
                      seq |-> h.seq, length |-> h.length]
  <2>1. HeaderOf(e) = [type |-> TypeOf(e[4]), flags |-> e[5],
                       stream |-> NumberOf(SubSeq(e, 6, 5 + m)),
                       seq |-> NumberOf(SubSeq(e, 6 + m, 5 + 2 * m)),
                       length |-> NumberOf(SubSeq(e, 6 + 2 * m, 5 + 2 * m + n))]
    BY <1>1 DEF HeaderOf, HeaderBytes
  <2>2. HeaderOf(e) = [type |-> TypeOf(x), flags |-> z, stream |-> NumberOf(a),
                       seq |-> NumberOf(b), length |-> NumberOf(c)]
    BY <1>11, <2>1
  <2>3. /\ TypeOf(x) = h.type /\ z = h.flags /\ NumberOf(a) = h.stream
        /\ NumberOf(b) = h.seq /\ NumberOf(c) = h.length
    BY <1>1, <1>5, <1>6, <1>7, <1>9
  <2> QED
    BY <2>2, <2>3
<1>14. Written(h, e)
  <2>1. e \in Seq(0 .. Byte - 1)
    BY <1>1, <1>11
  <2>2. Len(e) = HeaderBytes
    BY <1>1, <1>11 DEF HeaderBytes
  <2>3. SubSeq(e, 1, 2) = Magic
    BY <1>11 DEF Magic
  <2>4. e[3] = Version /\ e[4] \in Codes
    BY <1>9, <1>11
  <2> QED
    BY <1>13, <2>1, <2>2, <2>3, <2>4 DEF Written
<1> QED
  BY <1>12, <1>14

\* Bytes that read as a header are what is written of that header.
LEMMA WrittenAsRead ==
    ASSUME NEW e, e \in Seq(0 .. Byte - 1), Len(e) = HeaderBytes,
           SubSeq(e, 1, 2) = Magic, e[3] = Version, e[4] \in Codes
    PROVE  EncodeHeader(HeaderOf(e)) = e
<1>1. PICK B, m, n, a, b, c : /\ B = 0 .. Byte - 1 /\ m = WideBytes /\ n = LongBytes
                              /\ a = SubSeq(e, 6, 5 + m) /\ b = SubSeq(e, 6 + m, 5 + 2 * m)
                              /\ c = SubSeq(e, 6 + 2 * m, 5 + 2 * m + n)
  OBVIOUS
<1>2. m \in Nat \ {0} /\ n \in Nat \ {0} /\ e \in Seq(B) /\ Len(e) = 5 + 2 * m + n
  BY <1>1, WireAssumption DEF HeaderBytes
<1>3. /\ a \in Seq(B) /\ Len(a) = m /\ b \in Seq(B) /\ Len(b) = m /\ c \in Seq(B) /\ Len(c) = n
      /\ e = SubSeq(e, 1, 2) \o <<e[3], e[4], e[5]>> \o a \o b \o c
  <2>1. Cut(B, e, SubSeq(e, 6, 5 + m), SubSeq(e, 6 + m, 5 + 2 * m),
            SubSeq(e, 6 + 2 * m, 5 + 2 * m + n), m, n)
    BY <1>2, PartsSplit
  <2>2. Cut(B, e, a, b, c, m, n)
    BY <1>1, <2>1
  <2> QED
    BY <2>2 DEF Cut
<1>4. BigEndian(NumberOf(a), m) = a
  <2>1. a \in Seq(0 .. Byte - 1) /\ Len(a) = m
    BY <1>1, <1>3
  <2> QED
    BY <2>1, WriteAfterRead
<1>5. BigEndian(NumberOf(b), m) = b
  <2>1. b \in Seq(0 .. Byte - 1) /\ Len(b) = m
    BY <1>1, <1>3
  <2> QED
    BY <2>1, WriteAfterRead
<1>6. BigEndian(NumberOf(c), n) = c
  <2>1. c \in Seq(0 .. Byte - 1) /\ Len(c) = n
    BY <1>1, <1>3
  <2> QED
    BY <2>1, WriteAfterRead
<1>7. Code[TypeOf(e[4])] = e[4]
  <2>1. PICK type \in FrameTypes : e[4] = Code[type]
    BY DEF Codes
  <2> QED
    BY <2>1, CodesAreDistinct
<1>8. PICK h : h = HeaderOf(e)
  OBVIOUS
<1>9. /\ h.type = TypeOf(e[4]) /\ h.flags = e[5] /\ h.stream = NumberOf(a)
      /\ h.seq = NumberOf(b) /\ h.length = NumberOf(c)
  BY <1>1, <1>8 DEF HeaderOf, HeaderBytes
<1>10. EncodeHeader(h) = Magic \o <<Version, e[4], e[5]>> \o a \o b \o c
  BY <1>1, <1>4, <1>5, <1>6, <1>7, <1>9 DEF EncodeHeader
<1> QED
  BY <1>3, <1>8, <1>10

\* There is room for the numbers of one stream in any number of bytes.
LEMMA PowerAbove ==
    ASSUME NEW w \in Nat
    PROVE  Power(w) \in Nat /\ Power(w) > 0 /\ (w > 0 => Power(w) > 80)
<1>1. PICK p \in [0 .. w -> Nat] : /\ p[0] = 1 /\ Power(w) = p[w]
                                   /\ \A k \in 1 .. w : p[k] = Byte * p[k - 1]
  BY Powers
<1> DEFINE N == {k \in Nat : k <= w => p[k] \in Nat /\ p[k] > 0}
<1>2. 0 \in N
  BY <1>1
<1>3. ASSUME NEW k \in Nat, k \in N PROVE k + 1 \in N
  <2>1. CASE k + 1 <= w
    <3>1. k \in 0 .. w /\ k + 1 \in 1 .. w /\ (k + 1) - 1 = k
      BY <2>1
    <3>2. p[k + 1] = Byte * p[k]
      BY <1>1, <3>1
    <3>3. PICK n : n = p[k]
      OBVIOUS
    <3>4. n \in Nat /\ n > 0
      BY <1>3, <2>1, <3>3
    <3>5. Byte * n \in Nat /\ Byte * n > 0
      BY <3>4, ByteAbove
    <3> QED
      BY <3>2, <3>3, <3>5
  <2> QED
    BY <2>1
<1>4. \A k \in Nat : k \in N
  <2> HIDE DEF N
  <2> QED
    BY <1>2, <1>3, NaturalsFrom
<1>5. ASSUME w > 0 PROVE p[w] > 80
  <2>1. w - 1 \in Nat /\ w - 1 \in N /\ w \in 1 .. w /\ w - 1 <= w
    BY <1>4, <1>5
  <2>2. PICK n : n = p[w - 1]
    OBVIOUS
  <2>3. n \in Nat /\ n > 0 /\ p[w] = Byte * n
    BY <1>1, <2>1, <2>2
  <2>4. Byte * n > 80
    BY <2>3, ByteAbove
  <2> QED
    BY <2>3, <2>4
<1>6. p[w] \in Nat /\ p[w] > 0
  BY <1>4
<1> QED
  BY <1>1, <1>5, <1>6

-----------------------------------------------------------------------------
(* What metadata weighs.                                                       *)

\* A list of things that weigh something.
LEMMA ListWeight ==
    ASSUME NEW S, \A x \in S : ItemBytes(x) \in Nat, NEW items \in Seq(S)
    PROVE  Weight(List(items)) \in Nat
<1> DEFINE q == [i \in DOMAIN items |-> ItemBytes(items[i])]
<1>1. q \in Seq(Nat)
  <2>1. q = [i \in 1 .. Len(items) |-> ItemBytes(items[i])]
    OBVIOUS
  <2>2. \A i \in 1 .. Len(items) : ItemBytes(items[i]) \in Nat
    OBVIOUS
  <2> QED
    BY <2>1, <2>2
<1>2. Weight(List(items)) = SumFunction(q)
  BY DEF Weight, List
<1> HIDE DEF q
<1> QED
  BY <1>1, <1>2, SumOfNatural

\* The other kinds of values.
LEMMA OtherWeights ==
    /\ \A v : IsText(v) => v.is = "text" /\ Weight(v) = v.bytes /\ ItemBytes(v) = v.bytes
    /\ \A n : Weight(Number(n)) = 0
    /\ \A b : Weight(Bool(b)) = 0
    /\ Weight(Undefined) = 0
<1>1. ASSUME NEW v, IsText(v) PROVE v.is = "text" /\ Weight(v) = v.bytes /\ ItemBytes(v) = v.bytes
  <2>1. v = Text(v.word, v.bytes, v.looks)
    BY <1>1 DEF IsText
  <2>2. v.is = "text" /\ "is" \in DOMAIN v
    BY <2>1 DEF Text
  <2> QED
    BY <2>2 DEF Weight, ItemBytes
<1>2. \A n : Weight(Number(n)) = 0
  BY DEF Weight, Number
<1>3. \A b : Weight(Bool(b)) = 0
  BY DEF Weight, Bool
<1>4. Weight(Undefined) = 0
  BY DEF Weight, Undefined
<1> QED
  BY <1>1, <1>2, <1>3, <1>4

\* A text that one side makes.
LEMMA TextWeight ==
    ASSUME NEW word, NEW bytes \in Nat, NEW looks
    PROVE  IsText(Text(word, bytes, looks)) /\ Weight(Text(word, bytes, looks)) \in Nat
  BY DEF IsText, Text, Weight

\* A header.
LEMMA HeaderWeight ==
    ASSUME NEW h, NEW name, NEW value, h = Header(name, value), IsText(value)
    PROVE  ItemBytes(h) \in Nat
<1>1. value.bytes \in Nat
  BY DEF IsText
<1>2. "is" \notin DOMAIN h /\ h.name.bytes = 1 /\ h.value = value
  BY DEF Header, Text
<1> QED
  BY <1>1, <1>2 DEF ItemBytes

\* A metadata object whose values weigh something.
Weighs(meta) == IsFiniteSet(DOMAIN meta) /\ \A key \in DOMAIN meta : Weight(meta[key]) \in Nat

\* The size of metadata that can be written is a number.
LEMMA MetadataWeight ==
    ASSUME NEW meta, Weighs(meta)
    PROVE  MetadataBytes(Json(meta)) \in Nat
<1>1. PICK json, keys : json = Json(meta) /\ keys = DOMAIN json
  OBVIOUS
<1>2. keys \subseteq DOMAIN meta /\ \A key \in keys : json[key] = meta[key]
  BY <1>1 DEF Json
<1>3. IsFiniteSet(keys) /\ \A key \in keys : Weight(json[key]) \in Nat
  <2>1. IsFiniteSet(DOMAIN meta) /\ \A key \in DOMAIN meta : Weight(meta[key]) \in Nat
    BY DEF Weighs
  <2> QED
    BY <1>2, <2>1, FS_Subset
<1> DEFINE f == [key \in keys |-> Weight(json[key])]
<1>4. DOMAIN f = keys /\ \A key \in keys : f[key] \in Nat
  BY <1>3
<1>5. MetadataBytes(json) = SumFunction(f)
  BY <1>1 DEF MetadataBytes
<1> HIDE DEF f
<1>6. SumFunction(f) = SumFunctionOnSet(f, keys)
  BY <1>4 DEF SumFunction
<1>7. SumFunctionOnSet(f, keys) \in Nat
  BY <1>3, <1>4, SumNatural
<1> QED
  BY <1>1, <1>5, <1>6, <1>7

-----------------------------------------------------------------------------
(* Headers with some names, and without them.                                  *)

\* The part of a sequence with a name does not depend on the set its headers are from.
Selects(S, s, names) ==
    /\ With(s, names) = Part(s, {x \in S : Named(x, names)})
    /\ Without(s, names) = Part(s, {x \in S : ~Named(x, names)})
    /\ With(s, names) \in Seq(S) /\ Without(s, names) \in Seq(S)

\* A selection by name keeps the headers with those names and no others.
LEMMA WithIs ==
    ASSUME NEW S, NEW s \in Seq(S), NEW names
    PROVE  Selects(S, s, names)
<1>1. PICK R : R = Range(s)
  OBVIOUS
<1>2. s \in Seq(R) /\ R \subseteq S
  BY <1>1 DEF Range
<1>3. PICK a, b, c, d : /\ a = {x \in R : Named(x, names)} /\ b = {x \in S : Named(x, names)}
                        /\ c = {x \in R : ~Named(x, names)} /\ d = {x \in S : ~Named(x, names)}
  OBVIOUS
<1>4. R \cap a = R \cap b /\ R \cap c = R \cap d
  BY <1>2, <1>3
<1>5. Part(s, a) = Part(s, b) /\ Part(s, c) = Part(s, d)
  BY <1>2, <1>4, PartSame
<1>6. Part(s, b) \in Seq(S) /\ Part(s, d) \in Seq(S)
  BY PartType
<1>7. With(s, names) = Part(s, a) /\ Without(s, names) = Part(s, c)
  BY <1>1, <1>3 DEF With, Without
<1> QED
  BY <1>3, <1>5, <1>6, <1>7 DEF Selects

\* One selection after another.
Twice(s, a, b) ==
    /\ Without(Without(s, a), b) = Without(s, a \cup b)
    /\ With(Without(s, a), b) = With(s, b \ a)
    /\ Without(With(s, a), b) = With(s, a \ b)
    /\ With(With(s, a), b) = With(s, a \cap b)

\* A selection of a selection is a selection by the names in both.
LEMMA WithTwice ==
    ASSUME NEW S, NEW s \in Seq(S), NEW a, NEW b
    PROVE  Twice(s, a, b)
<1>1. PICK wa, oa, wb, ob, p, q :
          /\ wa = {x \in S : Named(x, a)} /\ oa = {x \in S : ~Named(x, a)}
          /\ wb = {x \in S : Named(x, b)} /\ ob = {x \in S : ~Named(x, b)}
          /\ p = With(s, a) /\ q = Without(s, a)
  OBVIOUS
<1>2. p \in Seq(S) /\ q \in Seq(S) /\ p = Part(s, wa) /\ q = Part(s, oa)
  <2>1. Selects(S, s, a)
    BY WithIs
  <2> QED
    BY <1>1, <2>1 DEF Selects
<1>3. /\ Without(q, b) = Part(q, ob) /\ With(q, b) = Part(q, wb)
      /\ Without(p, b) = Part(p, ob) /\ With(p, b) = Part(p, wb)
  <2>1. Selects(S, p, b) /\ Selects(S, q, b)
    BY <1>2, WithIs
  <2> QED
    BY <1>1, <2>1 DEF Selects
<1>4. /\ Part(q, ob) = Part(s, oa \cap ob) /\ Part(q, wb) = Part(s, oa \cap wb)
      /\ Part(p, ob) = Part(s, wa \cap ob) /\ Part(p, wb) = Part(s, wa \cap wb)
  BY <1>2, PartOfPart
<1>5. PICK u, d, e, i : u = a \cup b /\ d = b \ a /\ e = a \ b /\ i = a \cap b
  OBVIOUS
<1>6. /\ oa \cap ob = {x \in S : ~Named(x, u)} /\ oa \cap wb = {x \in S : Named(x, d)}
      /\ wa \cap ob = {x \in S : Named(x, e)} /\ wa \cap wb = {x \in S : Named(x, i)}
  BY <1>1, <1>5 DEF Named
<1>7. Selects(S, s, u) /\ Selects(S, s, d) /\ Selects(S, s, e) /\ Selects(S, s, i)
  BY WithIs
<1>8. /\ Without(s, u) = Part(s, {x \in S : ~Named(x, u)})
      /\ With(s, d) = Part(s, {x \in S : Named(x, d)}) /\ With(s, e) = Part(s, {x \in S : Named(x, e)})
      /\ With(s, i) = Part(s, {x \in S : Named(x, i)})
  BY <1>7 DEF Selects
<1> QED
  BY <1>1, <1>3, <1>4, <1>5, <1>6, <1>8 DEF Twice

\* Of two joined sequences.
BothWith(s, t, a) ==
    /\ With(s \o t, a) = With(s, a) \o With(t, a)
    /\ Without(s \o t, a) = Without(s, a) \o Without(t, a)

\* A selection of two lists joined is the two selections joined.
LEMMA WithJoined ==
    ASSUME NEW S, NEW s \in Seq(S), NEW t \in Seq(S), NEW a
    PROVE  BothWith(s, t, a)
<1>1. PICK j, w, o : /\ j = s \o t /\ w = {x \in S : Named(x, a)} /\ o = {x \in S : ~Named(x, a)}
  OBVIOUS
<1>2. j \in Seq(S)
  BY <1>1
<1>3. Part(j, w) = Part(s, w) \o Part(t, w) /\ Part(j, o) = Part(s, o) \o Part(t, o)
  <2>1. Part(s \o t, w) = Part(s, w) \o Part(t, w) /\ Part(s \o t, o) = Part(s, o) \o Part(t, o)
    BY PartJoined
  <2> QED
    BY <1>1, <2>1
<1>4. Selects(S, j, a) /\ Selects(S, s, a) /\ Selects(S, t, a)
  BY <1>2, WithIs
<1>5. /\ With(j, a) = Part(j, w) /\ Without(j, a) = Part(j, o)
      /\ With(s, a) = Part(s, w) /\ Without(s, a) = Part(s, o)
      /\ With(t, a) = Part(t, w) /\ Without(t, a) = Part(t, o)
  BY <1>1, <1>4 DEF Selects
<1> QED
  BY <1>1, <1>3, <1>5 DEF BothWith

\* Where every header has one of the names, and where none has.
LEMMA WithAll ==
    ASSUME NEW S, NEW a, \A x \in S : Named(x, a), NEW s \in Seq(S)
    PROVE  With(s, a) = s /\ Without(s, a) = << >>
<1>1. PICK w, o : w = {x \in S : Named(x, a)} /\ o = {x \in S : ~Named(x, a)}
  OBVIOUS
<1>2. S \subseteq w /\ S \cap o = {}
  BY <1>1
<1>3. Part(s, w) = s /\ Part(s, o) = << >>
  BY <1>2, PartWhole, PartEmpty
<1>4. Selects(S, s, a)
  BY WithIs
<1>5. With(s, a) = Part(s, w) /\ Without(s, a) = Part(s, o)
  BY <1>1, <1>4 DEF Selects
<1> QED
  BY <1>3, <1>5

\* Names that no header has select nothing, and leaving them out changes nothing.
LEMMA WithNone ==
    ASSUME NEW S, NEW a, \A x \in S : ~Named(x, a), NEW s \in Seq(S)
    PROVE  With(s, a) = << >> /\ Without(s, a) = s
<1>1. PICK w, o : w = {x \in S : Named(x, a)} /\ o = {x \in S : ~Named(x, a)}
  OBVIOUS
<1>2. S \subseteq o /\ S \cap w = {}
  BY <1>1
<1>3. Part(s, o) = s /\ Part(s, w) = << >>
  BY <1>2, PartWhole, PartEmpty
<1>4. Selects(S, s, a)
  BY WithIs
<1>5. With(s, a) = Part(s, w) /\ Without(s, a) = Part(s, o)
  BY <1>1, <1>4 DEF Selects
<1> QED
  BY <1>3, <1>5

\* Of headers that change, but keep their names.
KeepsNames(f, S) == \A x \in S : f[x].name = x.name
MappedWith(f, s, a) ==
    /\ With(Mapped(f, s), a) = Mapped(f, With(s, a))
    /\ Without(Mapped(f, s), a) = Mapped(f, Without(s, a))

\* Selecting by name and rewriting values commute when rewriting keeps the names.
LEMMA WithMapped ==
    ASSUME NEW S, NEW T, NEW f \in [S -> T], KeepsNames(f, S), NEW s \in Seq(S), NEW a
    PROVE  MappedWith(f, s, a)
<1>1. PICK m, w, o, v, n : /\ m = Mapped(f, s)
                           /\ w = {x \in S : Named(x, a)} /\ o = {x \in S : ~Named(x, a)}
                           /\ v = {x \in T : Named(x, a)} /\ n = {x \in T : ~Named(x, a)}
  OBVIOUS
<1>2. m \in Seq(T)
  <2>1. MappedAs(T, f, s, Mapped(f, s))
    BY MappedType
  <2> QED
    BY <1>1, <2>1 DEF MappedAs
<1>3. \A x \in S : (x \in w <=> f[x] \in v) /\ (x \in o <=> f[x] \in n)
  BY <1>1 DEF Named, KeepsNames
<1>4. \A x \in S : x \in w <=> f[x] \in v
  BY <1>3
<1>5. \A x \in S : x \in o <=> f[x] \in n
  BY <1>3
<1>6. Part(Mapped(f, s), v) = Mapped(f, Part(s, w)) /\ Part(Mapped(f, s), n) = Mapped(f, Part(s, o))
  <2>1. Alike(S, T, f, w, v) /\ Alike(S, T, f, o, n)
    BY <1>4, <1>5 DEF Alike
  <2>2. Part(Mapped(f, s), v) = Mapped(f, Part(s, w))
    <3>1. Alike(S, T, f, w, v)
      BY <2>1
    <3> QED
      BY <3>1, PartMapped
  <2>3. Part(Mapped(f, s), n) = Mapped(f, Part(s, o))
    <3>1. Alike(S, T, f, o, n)
      BY <2>1
    <3> QED
      BY <3>1, PartMapped
  <2> QED
    BY <2>2, <2>3
<1>7. Selects(T, m, a) /\ Selects(S, s, a)
  BY <1>2, WithIs
<1>8. /\ With(m, a) = Part(m, v) /\ Without(m, a) = Part(m, n)
      /\ With(s, a) = Part(s, w) /\ Without(s, a) = Part(s, o)
  BY <1>1, <1>7 DEF Selects
<1> QED
  BY <1>1, <1>6, <1>8 DEF MappedWith

\* The filters take out what belongs to a hop, and some names more.
Filtered(S, s) ==
    /\ FilterHopByHop(s) = Without(s, HopOnly(s))
    /\ FilterRequest(s) = Without(s, HopOnly(s) \cup {"host", "content-length"})
    /\ FilterWebSocketRequest(s) = Without(s, HopOnly(s) \cup {"host", "content-length"} \cup WebSocketNames)
    /\ FilterResponse(s) = Without(s, HopOnly(s) \cup {"content-encoding", "content-length"})
    /\ FilterHopByHop(s) \in Seq(S) /\ FilterRequest(s) \in Seq(S)
    /\ FilterWebSocketRequest(s) \in Seq(S) /\ FilterResponse(s) \in Seq(S)
    /\ Entries(s) \in Seq(S)

\* The lists that the filters of requests and responses return, name by name.
LEMMA Filters ==
    ASSUME NEW S, NEW s \in Seq(S)
    PROVE  Filtered(S, s)
<1>1. PICK h, b, c, p, q : /\ h = HopOnly(s) /\ b = {"host", "content-length"}
                           /\ c = {"content-encoding", "content-length"}
                           /\ p = Without(s, h) /\ q = Without(p, b)
  OBVIOUS
<1>2. /\ FilterHopByHop(s) = p /\ FilterRequest(s) = q /\ FilterWebSocketRequest(s) = Without(q, WebSocketNames)
      /\ FilterResponse(s) = Without(p, c)
  BY <1>1 DEF FilterHopByHop, HopOnly, FilterRequest, FilterWebSocketRequest, FilterResponse
<1>3. Selects(S, s, h) /\ Selects(S, s, {"set-cookie"})
  BY WithIs
<1>4. p \in Seq(S)
  BY <1>1, <1>3 DEF Selects
<1>5. Selects(S, p, b) /\ Selects(S, p, c)
  BY <1>4, WithIs
<1>6. q \in Seq(S) /\ Without(p, c) \in Seq(S)
  BY <1>1, <1>5 DEF Selects
<1>7. Selects(S, q, WebSocketNames)
  BY <1>6, WithIs
<1>8. Without(q, WebSocketNames) \in Seq(S)
  BY <1>7 DEF Selects
<1>9. Entries(s) \in Seq(S)
  <2>1. PICK v, w : v = Without(s, {"set-cookie"}) /\ w = With(s, {"set-cookie"})
    OBVIOUS
  <2>2. v \in Seq(S) /\ w \in Seq(S)
    BY <1>3, <2>1 DEF Selects
  <2>3. v \o w \in Seq(S)
    BY <2>2
  <2> QED
    BY <2>1, <2>3 DEF Entries
<1>10. q = Without(s, h \cup b) /\ Without(p, c) = Without(s, h \cup c)
  <2>1. Twice(s, h, b) /\ Twice(s, h, c)
    BY WithTwice
  <2> QED
    BY <1>1, <2>1 DEF Twice
<1>11. Without(q, WebSocketNames) = Without(s, (h \cup b) \cup WebSocketNames)
  <2>1. Twice(s, h \cup b, WebSocketNames)
    BY WithTwice
  <2> QED
    BY <1>10, <2>1 DEF Twice
<1> QED
  BY <1>1, <1>2, <1>4, <1>6, <1>8, <1>9, <1>10, <1>11 DEF Filtered

-----------------------------------------------------------------------------
(* What the two sides say.                                                     *)

\* Headers weigh something, also in part.
LEMMA HeadersWeigh ==
    ASSUME NEW headers, AreHeaders(headers)
    PROVE  /\ \A h \in Range(headers) : ItemBytes(h) \in Nat
           /\ headers \in Seq(Range(headers))
<1>1. ASSUME NEW h \in Range(headers) PROVE ItemBytes(h) \in Nat
  <2>1. h = Header(h.name.word, h.value) /\ IsText(h.value)
    BY DEF AreHeaders
  <2> QED
    BY <2>1, HeaderWeight
<1> QED
  BY <1>1 DEF AreHeaders

\* What a side says has few keys.
LEMMA FewFinite ==
    ASSUME NEW a, NEW b, NEW c, NEW d, NEW e, NEW f
    PROVE  IsFiniteSet({a, b, c, d, e, f})
<1>1. IsFiniteSet({} \cup {a})
  BY FS_EmptySet, FS_AddElement
<1>2. IsFiniteSet(({} \cup {a}) \cup {b})
  BY <1>1, FS_AddElement
<1>3. IsFiniteSet((({} \cup {a}) \cup {b}) \cup {c})
  BY <1>2, FS_AddElement
<1>4. IsFiniteSet(((({} \cup {a}) \cup {b}) \cup {c}) \cup {d})
  BY <1>3, FS_AddElement
<1>5. IsFiniteSet((((({} \cup {a}) \cup {b}) \cup {c}) \cup {d}) \cup {e})
  BY <1>4, FS_AddElement
<1>6. IsFiniteSet(((((({} \cup {a}) \cup {b}) \cup {c}) \cup {d}) \cup {e}) \cup {f})
  BY <1>5, FS_AddElement
<1>7. {a, b, c, d, e, f} = ((((({} \cup {a}) \cup {b}) \cup {c}) \cup {d}) \cup {e}) \cup {f}
  OBVIOUS
<1> QED
  BY <1>6, <1>7

\* A set of two is finite.
LEMMA PairFinite ==
    ASSUME NEW a, NEW b
    PROVE  IsFiniteSet({a, b})
<1>1. IsFiniteSet({a} \cup {b})
  BY FS_Singleton, FS_AddElement
<1>2. {a, b} = {a} \cup {b}
  OBVIOUS
<1> QED
  BY <1>1, <1>2

\* The start of a request.
LEMMA StartWeighs ==
    ASSUME NEW r \in Asked
    PROVE  Weighs(RequestStart(r))
<1>1. PICK S, e : S = Range(r.headers) /\ e = Entries(r.headers)
  OBVIOUS
<1>2. r.headers \in Seq(S) /\ \A h \in S : ItemBytes(h) \in Nat
  <2>1. AreHeaders(r.headers)
    BY AskedAssumption
  <2> QED
    BY <1>1, <2>1, HeadersWeigh
<1>3. e \in Seq(S)
  <2>1. Filtered(S, r.headers)
    BY <1>2, Filters
  <2> QED
    BY <1>1, <2>1 DEF Filtered
<1>4. FilterRequest(e) \in Seq(S) /\ FilterWebSocketRequest(e) \in Seq(S)
  <2>1. Filtered(S, e)
    BY <1>3, Filters
  <2> QED
    BY <2>1 DEF Filtered
<1>5. Weight(List(IF r.kind = "http" THEN ForwardedHttp(r.headers) ELSE ForwardedWebSocket(r.headers))) \in Nat
  <2>1. PICK f : f = IF r.kind = "http" THEN ForwardedHttp(r.headers) ELSE ForwardedWebSocket(r.headers)
    OBVIOUS
  <2>2. f \in Seq(S)
    BY <1>1, <1>4, <2>1 DEF ForwardedHttp, ForwardedWebSocket
  <2> QED
    BY <1>2, <2>1, <2>2, ListWeight
<1>6. Weight(r.method) \in Nat /\ Weight(r.target) \in Nat
  <2>1. IsText(r.method) /\ IsText(r.target)
    BY AskedAssumption
  <2>2. r.method.bytes \in Nat /\ r.target.bytes \in Nat
    BY <2>1 DEF IsText
  <2> QED
    BY <2>1, <2>2, OtherWeights
<1>7. Weight(Text(r.kind, 1, {})) \in Nat
  BY TextWeight
<1>8. Weight(Bool(r.hasBody)) \in Nat
  BY OtherWeights
<1>9. Weight(IF r.kind = "http" THEN Undefined ELSE List(r.protocols)) \in Nat
  <2>1. CASE r.kind = "http"
    BY <2>1, OtherWeights
  <2>2. CASE r.kind # "http"
    <3>1. AreTexts(r.protocols)
      BY <2>2, AskedAssumption
    <3>2. PICK p, T : p = r.protocols /\ T = Range(r.protocols)
      OBVIOUS
    <3>3. p \in Seq(T) /\ \A v \in T : IsText(v)
      BY <3>1, <3>2 DEF AreTexts
    <3>4. \A v \in T : ItemBytes(v) \in Nat
      <4> TAKE v \in T
      <4>1. IsText(v) /\ v.bytes \in Nat
        BY <3>3 DEF IsText
      <4> QED
        BY <4>1, OtherWeights
    <3>5. Weight(List(p)) \in Nat
      BY <3>3, <3>4, ListWeight
    <3> QED
      BY <2>2, <3>2, <3>5
  <2> QED
    BY <2>1, <2>2
<1>10. PICK m : m = RequestStart(r)
  OBVIOUS
<1>11. /\ DOMAIN m = {"kind", "method", "target", "headers", "hasBody", "protocols"}
       /\ m["kind"] = Text(r.kind, 1, {}) /\ m["method"] = r.method /\ m["target"] = r.target
       /\ m["headers"] = List(IF r.kind = "http" THEN ForwardedHttp(r.headers)
                                                 ELSE ForwardedWebSocket(r.headers))
       /\ m["hasBody"] = Bool(r.hasBody)
       /\ m["protocols"] = IF r.kind = "http" THEN Undefined ELSE List(r.protocols)
  BY <1>10 DEF RequestStart
<1>12. \A key \in DOMAIN m : Weight(m[key]) \in Nat
  BY <1>5, <1>6, <1>7, <1>8, <1>9, <1>11
<1>13. IsFiniteSet(DOMAIN m)
  <2>1. IsFiniteSet({"kind", "method", "target", "headers", "hasBody", "protocols"})
    BY FewFinite
  <2> QED
    BY <1>11, <2>1
<1> QED
  BY <1>10, <1>12, <1>13 DEF Weighs

\* The start of an answer of the kind that was asked for.
LEMMA ResponseWeighs ==
    ASSUME NEW a \in Answers, IsSocket <=> a.kind = "websocket", ~IsSocket <=> a.kind = "http"
    PROVE  Weighs(ResponseStart(a))
<1>1. PICK m, keys : m = ResponseStart(a) /\ keys = {"status", "headers", "hasBody", "protocol"}
  OBVIOUS
<1>2. IsFiniteSet(keys) /\ IsFiniteSet({"status", "headers", "hasBody"})
  <2>1. IsFiniteSet({"status", "headers", "hasBody", "protocol", "protocol", "protocol"})
    BY FewFinite
  <2>2. /\ keys \subseteq {"status", "headers", "hasBody", "protocol", "protocol", "protocol"}
        /\ {"status", "headers", "hasBody"}
               \subseteq {"status", "headers", "hasBody", "protocol", "protocol", "protocol"}
    BY <1>1
  <2> QED
    BY <2>1, <2>2, FS_Subset
<1>3. CASE IsSocket
  <2>1. /\ DOMAIN m = keys /\ m["status"] = Number(101) /\ m["headers"] = List(<<>>)
        /\ m["hasBody"] = Bool(FALSE) /\ m["protocol"] = a.protocol
    BY <1>1, <1>3 DEF ResponseStart
  <2>2. Weight(List(<<>>)) \in Nat
    <3>1. PICK none : none = << >>
      OBVIOUS
    <3>2. none \in Seq({})
      BY <3>1
    <3>3. Weight(List(none)) \in Nat
      BY <3>2, ListWeight
    <3> QED
      BY <3>1, <3>3
  <2>3. Weight(a.protocol) \in Nat
    <3>1. a.protocol = Undefined \/ IsText(a.protocol)
      BY <1>3, AnswersAssumption
    <3>2. CASE IsText(a.protocol)
      <4>1. a.protocol.bytes \in Nat
        BY <3>2 DEF IsText
      <4> QED
        BY <3>2, <4>1, OtherWeights
    <3> QED
      BY <3>1, <3>2, OtherWeights
  <2>4. Weight(Number(101)) \in Nat /\ Weight(Bool(FALSE)) \in Nat
    <3>1. Weight(Number(101)) \in Nat
      BY DEF Weight, Number
    <3>2. Weight(Bool(FALSE)) \in Nat
      BY DEF Weight, Bool
    <3> QED
      BY <3>1, <3>2
  <2>5. \A key \in DOMAIN m : Weight(m[key]) \in Nat
    BY <1>1, <2>1, <2>2, <2>3, <2>4
  <2> QED
    BY <1>1, <1>2, <2>1, <2>5 DEF Weighs
<1>4. CASE ~IsSocket
  <2>1. PICK S, e : S = Range(a.headers) /\ e = Entries(a.headers)
    OBVIOUS
  <2>2. /\ DOMAIN m = {"status", "headers", "hasBody"} /\ m["status"] = a.status
        /\ m["headers"] = List(FilterResponse(e)) /\ m["hasBody"] = Bool(a.hasBody)
    BY <1>1, <1>4, <2>1 DEF ResponseStart
  <2>3. a.status = Number(a.status.n) /\ AreHeaders(a.headers)
    BY <1>4, AnswersAssumption
  <2>4. a.headers \in Seq(S) /\ \A h \in S : ItemBytes(h) \in Nat
    BY <2>1, <2>3, HeadersWeigh
  <2>5. e \in Seq(S)
    <3>1. Filtered(S, a.headers)
      BY <2>4, Filters
    <3> QED
      BY <2>1, <3>1 DEF Filtered
  <2>6. FilterResponse(e) \in Seq(S)
    <3>1. Filtered(S, e)
      BY <2>5, Filters
    <3> QED
      BY <3>1 DEF Filtered
  <2>7. Weight(List(FilterResponse(e))) \in Nat
    BY <2>4, <2>6, ListWeight
  <2>8. Weight(a.status) \in Nat /\ Weight(Bool(a.hasBody)) \in Nat
    BY <2>3, OtherWeights
  <2>9. \A key \in DOMAIN m : Weight(m[key]) \in Nat
    BY <2>2, <2>7, <2>8
  <2> QED
    BY <1>1, <1>2, <2>2, <2>9 DEF Weighs
<1> QED
  BY <1>3, <1>4

\* A reason is a text, also after it is cut to what fits.
LEMMA ReasonWeighs ==
    ASSUME NEW v, IsText(v)
    PROVE  /\ Weighs(Abort(v)) /\ v # Undefined
           /\ IsText(NormalReason(v)) /\ NormalReason(v).bytes <= MaxReason
<1>1. v = Text(v.word, v.bytes, v.looks) /\ v.bytes \in Nat
  BY DEF IsText
<1>2. v # Undefined
  <2>1. v.is = "text"
    BY OtherWeights
  <2> QED
    BY <2>1, NotUndefined
<1>3. MaxReason \in Nat
  BY LimitsAssumption
<1>4. IsText(NormalReason(v)) /\ NormalReason(v).bytes <= MaxReason
  <2>1. PICK w, b, l, k, c, n :
            /\ w = v.word /\ b = v.bytes /\ l = v.looks /\ n = NormalReason(v)
            /\ k = (IF b <= MaxReason THEN b ELSE MaxReason) /\ c = l \ {"line-break"}
    OBVIOUS
  <2>2. v = [is |-> "text", word |-> w, bytes |-> b, looks |-> l]
    BY <1>1, <2>1 DEF Text
  <2>3. n = [v EXCEPT !.bytes = k, !.looks = c]
    BY <1>2, <2>1 DEF NormalReason
  <2>4. n = [is |-> "text", word |-> w, bytes |-> k, looks |-> c]
    BY <2>2, <2>3
  <2>5. n = Text(w, k, c) /\ n.word = w /\ n.looks = c /\ n.bytes = k
    BY <2>4 DEF Text
  <2>6. k \in Nat /\ k <= MaxReason
    BY <1>1, <1>3, <2>1
  <2>7. IsText(n) /\ n.bytes <= MaxReason
    BY <2>5, <2>6 DEF IsText
  <2> QED
    BY <2>1, <2>7
<1>5. Weighs(Abort(v))
  <2>1. DOMAIN Abort(v) = {"reason"} /\ Abort(v)["reason"] = v
    BY DEF Abort
  <2>2. Weight(v) \in Nat
    BY <1>1, OtherWeights
  <2>3. IsFiniteSet({"reason"})
    BY FS_Singleton
  <2> QED
    BY <2>1, <2>2, <2>3 DEF Weighs
<1> QED
  BY <1>2, <1>4, <1>5

\* The end of a body.
LEMMA EndWeighs ==
    ASSUME NEW side
    PROVE  Weighs(BodyEnd(side))
<1>1. PICK m, v, n : m = BodyEnd(side) /\ v = Text(BodyKind(side), 1, {}) /\ n = Number(sent[side] - 1)
  OBVIOUS
<1>2. DOMAIN m = {"kind", "lastSeq"} /\ m["kind"] = v /\ m["lastSeq"] = n
  BY <1>1 DEF BodyEnd
<1>3. Weight(v) \in Nat /\ Weight(n) \in Nat
  BY <1>1, TextWeight, OtherWeights
<1>4. IsFiniteSet({"kind", "lastSeq"})
  BY PairFinite
<1> QED
  BY <1>1, <1>2, <1>3, <1>4 DEF Weighs

\* The end of a WebSocket.
LEMMA CloseWeighs ==
    ASSUME NEW side, NEW close \in Closes
    PROVE  Weighs(SocketEnd(side, close))
<1>1. PICK m, v, n, c, r : /\ m = SocketEnd(side, close) /\ v = Text(BodyKind(side), 1, {})
                           /\ n = Number(sent[side] - 1) /\ c = NormalCode(close.code)
                           /\ r = NormalReason(close.reason)
  OBVIOUS
<1>2. /\ DOMAIN m = {"kind", "lastSeq", "code", "reason"}
      /\ m["kind"] = v /\ m["lastSeq"] = n /\ m["code"] = c /\ m["reason"] = r
  BY <1>1 DEF SocketEnd
<1>3. Weight(v) \in Nat /\ Weight(n) \in Nat
  BY <1>1, TextWeight, OtherWeights
<1>4. Weight(c) \in Nat
  <2>1. \E i : close.code = Number(i)
    BY ClosesAssumption
  <2>2. \E i : c = Number(i)
    BY <1>1, <2>1 DEF NormalCode
  <2> QED
    BY <2>2, OtherWeights
<1>5. Weight(r) \in Nat
  <2>1. IsText(r)
    BY <1>1, ClosesAssumption, ReasonWeighs
  <2>2. r.bytes \in Nat
    BY <2>1 DEF IsText
  <2> QED
    BY <2>1, <2>2, OtherWeights
<1>6. IsFiniteSet({"kind", "lastSeq", "code", "reason"})
  <2>1. IsFiniteSet({"kind", "lastSeq", "code", "reason", "reason", "reason"})
    BY FewFinite
  <2>2. {"kind", "lastSeq", "code", "reason", "reason", "reason"} = {"kind", "lastSeq", "code", "reason"}
    OBVIOUS
  <2> QED
    BY <2>1, <2>2
<1>7. \A key \in DOMAIN m : Weight(m[key]) \in Nat
  BY <1>2, <1>3, <1>4, <1>5
<1> QED
  BY <1>1, <1>2, <1>6, <1>7 DEF Weighs

\* Credit.
LEMMA CreditWeighs ==
    ASSUME NEW kind, NEW bytes
    PROVE  /\ Weighs([kind |-> Text(kind, 1, {}), bytes |-> Number(bytes)])
           /\ Weighs([bytes |-> Number(bytes)])
<1>1. PICK m, l, v, n : /\ m = [kind |-> Text(kind, 1, {}), bytes |-> Number(bytes)]
                        /\ l = [bytes |-> Number(bytes)]
                        /\ v = Text(kind, 1, {}) /\ n = Number(bytes)
  OBVIOUS
<1>2. /\ DOMAIN m = {"kind", "bytes"} /\ m["kind"] = v /\ m["bytes"] = n
      /\ DOMAIN l = {"bytes"} /\ l["bytes"] = n
  BY <1>1
<1>3. Weight(v) \in Nat /\ Weight(n) \in Nat
  BY <1>1, TextWeight, OtherWeights
<1>4. IsFiniteSet({"kind", "bytes"}) /\ IsFiniteSet({"bytes"})
  BY PairFinite, FS_Singleton
<1>5. Weighs(m) /\ Weighs(l)
  BY <1>2, <1>3, <1>4 DEF Weighs
<1> QED
  BY <1>1, <1>5

H(m) == HeaderOf(m.bytes)

\* A message that reads as a frame of a type, and what else its header says.
Reads(m, type, flags, seq) ==
    /\ m.bytes \in Seq(0 .. Byte - 1) /\ Readable(m.bytes, m.payload, MaxFrame)
    /\ Type(m) = type /\ H(m).flags = flags /\ H(m).seq = seq
    /\ H(m).stream = IF type = "channel_credit" THEN 0 ELSE 1

\* What is written for a header that is valid and within the limit is read so.
LEMMA HeaderReads ==
    ASSUME NEW type \in FrameTypes, NEW flags \in DataFlags, NEW seq \in 0 .. MaxSent,
           type \in MetadataTypes => flags = 0 /\ seq = 0,
           NEW bytes \in 0 .. MaxFrame,
           NEW m, m.bytes = EncodeHeader(HeaderFor(type, flags, seq, bytes)), m.payload.bytes = bytes
    PROVE  Reads(m, type, flags, seq)
<1>1. PICK h, s, e : /\ h = HeaderFor(type, flags, seq, bytes) /\ e = m.bytes
                     /\ s = IF type = "channel_credit" THEN 0 ELSE 1
  OBVIOUS
<1>2. h.type = type /\ h.flags = flags /\ h.seq = seq /\ h.length = bytes /\ h.stream = s
  BY <1>1 DEF HeaderFor
<1>3. /\ Power(WideBytes) \in Nat /\ Power(WideBytes) > 80 /\ Power(LongBytes) \in Nat
      /\ MaxFrame \in Nat /\ MaxSent \in Nat /\ MaxFrame < Power(LongBytes)
      /\ MaxSent < Power(WideBytes) /\ Positive(MaxFrame)
  <2>1. WideBytes \in Nat /\ WideBytes > 0 /\ LongBytes \in Nat /\ MaxSafe \in Nat
    BY WireAssumption, SafeAssumption
  <2>2. /\ Power(WideBytes) \in Nat /\ Power(WideBytes) > 80 /\ Power(LongBytes) \in Nat
    BY <2>1, PowerAbove
  <2> QED
    BY <2>1, <2>2, LimitsAssumption DEF Positive
<1>4. ValidHeader(h)
  <2>1. flags \in {0, 1, 2}
    BY DEF DataFlags
  <2>2. h.flags \in 0 .. Byte - 1
    BY <1>2, <2>1, WireAssumption
  <2>3. /\ h.stream \in 0 .. Power(WideBytes) - 1 /\ h.seq \in 0 .. Power(WideBytes) - 1
        /\ h.length \in 0 .. Power(LongBytes) - 1
    BY <1>1, <1>2, <1>3
  <2>4. h.type = "channel_credit" <=> h.stream = 0
    BY <1>1, <1>2
  <2> QED
    BY <1>2, <2>2, <2>3, <2>4 DEF ValidHeader
<1>5. Written(h, EncodeHeader(h))
  BY <1>4, ReadsAsWritten
<1>6. Written(h, e)
  BY <1>1, <1>5
<1>7. /\ e \in Seq(0 .. Byte - 1) /\ Len(e) = HeaderBytes
      /\ SubSeq(e, 1, 2) = Magic /\ e[3] = Version /\ e[4] \in Codes
      /\ HeaderOf(e) = [type |-> type, flags |-> flags, stream |-> s, seq |-> seq, length |-> bytes]
  BY <1>2, <1>6 DEF Written
<1>8. h = HeaderOf(e)
  BY <1>1, <1>7 DEF HeaderFor
<1>9. ValidFor(HeaderOf(e), MaxFrame)
  <2>1. h.length <= MaxFrame
    BY <1>2, <1>3
  <2> QED
    BY <1>3, <1>4, <1>8, <2>1 DEF ValidFor
<1>10. m.payload.bytes = HeaderOf(e).length
  BY <1>2, <1>8
<1>11. Readable(e, m.payload, MaxFrame)
  BY <1>7, <1>9, <1>10 DEF Readable
<1>12. Type(m) = type /\ H(m).flags = flags /\ H(m).seq = seq /\ H(m).stream = s
  BY <1>1, <1>7 DEF Type, H
<1> QED
  BY <1>1, <1>7, <1>11, <1>12 DEF Reads

\* A frame of metadata is read, and its metadata understood, by whoever it is for.
Told(m, type, meta) ==
    /\ Reads(m, type, 0, 0) /\ Understood(m) /\ m.payload.json = Json(meta)

\* A frame with metadata that a side may send is read as what was said.
LEMMA FrameReads ==
    ASSUME NEW type \in MetadataTypes, NEW meta, Weighs(meta), Says(type, meta)
    PROVE  Told(Frame(type, meta), type, meta)
<1>1. PICK m, b, j : /\ m = Frame(type, meta) /\ b = MetadataBytes(Json(meta)) /\ j = Json(meta)
  OBVIOUS
<1>2. /\ m.bytes = EncodeHeader(HeaderFor(type, 0, 0, b)) /\ m.payload = [bytes |-> b, json |-> j]
  BY <1>1 DEF Frame
<1>3. b \in Nat /\ b <= MaxFrame /\ Encodable(meta, type, MaxMetadata)
  <2>1. b \in Nat
    BY <1>1, MetadataWeight
  <2> QED
    BY <1>1, <2>1 DEF Says
<1>4. b \in 0 .. MaxFrame /\ 0 \in DataFlags /\ 0 \in 0 .. MaxSent /\ type \in FrameTypes
  BY <1>3, LimitsAssumption DEF DataFlags, MetadataTypes
<1>5. Reads(m, type, 0, 0)
  <2>1. m.payload.bytes = b
    BY <1>2
  <2>2. PICK f, s : f = 0 /\ s = 0
    OBVIOUS
  <2>3. /\ f \in DataFlags /\ s \in 0 .. MaxSent /\ (type \in MetadataTypes => f = 0 /\ s = 0)
        /\ m.bytes = EncodeHeader(HeaderFor(type, f, s, b))
    BY <1>2, <1>4, <2>2
  <2>4. Reads(m, type, f, s)
    BY <1>4, <2>1, <2>3, HeaderReads
  <2> QED
    BY <2>2, <2>4
<1>6. Understood(m)
  <2>1. Decodable([bytes |-> MetadataBytes(Json(meta)), json |-> Json(meta)], type, MaxMetadata)
    BY <1>3, <1>4, EncodableIsDecodable
  <2>2. Decodable(m.payload, type, MaxMetadata)
    BY <1>1, <1>2, <2>1
  <2>3. m.payload.bytes = b /\ b <= DefaultMetadata
    <3>1. b <= MaxMetadata /\ MaxMetadata \in Nat
      BY <1>1, <1>3, LimitsAssumption DEF Encodable
    <3>2. MaxMetadata <= DefaultMetadata /\ DefaultMetadata \in Nat
      BY LimitsAssumption
    <3>3. m.payload.bytes = b
      BY <1>2
    <3> QED
      BY <1>3, <3>1, <3>2, <3>3
  <2>4. Type(m) = type
    BY <1>5 DEF Reads
  <2> QED
    BY <2>2, <2>3, <2>4 DEF Understood, Decodable
<1>7. m.payload.json = Json(meta)
  BY <1>1, <1>2
<1> QED
  BY <1>1, <1>5, <1>6, <1>7 DEF Told

\* A frame of data is read.
LEMMA DataReads ==
    ASSUME NEW type \in DataTypes, NEW flags \in OwnFlags, NEW seq \in 0 .. MaxSent,
           NEW bytes \in Sizes
    PROVE  Reads(Data(type, flags, seq, bytes), type, flags, seq)
<1>1. PICK m : m = Data(type, flags, seq, bytes)
  OBVIOUS
<1>2. m.bytes = EncodeHeader(HeaderFor(type, flags, seq, bytes)) /\ m.payload.bytes = bytes
  BY <1>1 DEF Data
<1>3. type \in FrameTypes /\ type \notin MetadataTypes
  BY DEF DataTypes, MetadataTypes, FrameTypes, Code
<1>4. flags \in DataFlags
  BY DEF OwnFlags, DataFlags
<1>5. bytes \in 0 .. MaxFrame
  BY LimitsAssumption
<1>6. Reads(m, type, flags, seq)
  BY <1>2, <1>3, <1>4, <1>5, HeaderReads
<1> QED
  BY <1>1, <1>6

-----------------------------------------------------------------------------
(* Links: what joins at the end and what leaves at the front.                  *)

IsSequence(s) == s \in Seq(Range(s))

\* The places and the messages of a link.
LEMMA Elements ==
    ASSUME NEW s, IsSequence(s)
    PROVE  /\ Len(s) \in Nat /\ DOMAIN s = 1 .. Len(s)
           /\ \A i \in 1 .. Len(s) : s[i] \in Range(s)
           /\ \A x \in Range(s) : \E i \in 1 .. Len(s) : s[i] = x
  BY DEF IsSequence, Range

\* Some messages join.
Joined(x, l, k) ==
    /\ IsSequence(x) /\ Len(x) = Len(l) + Len(k)
    /\ \A i \in 1 .. Len(l) : x[i] = l[i]
    /\ \A i \in 1 .. Len(k) : x[Len(l) + i] = k[i]
    /\ Range(x) = Range(l) \cup Range(k)

\* What a link holds after more was sent.
LEMMA JoinOf ==
    ASSUME NEW l, NEW k, IsSequence(l), IsSequence(k)
    PROVE  Joined(l \o k, l, k)
<1>1. PICK S, x, m, n : S = Range(l) \cup Range(k) /\ x = l \o k /\ m = Len(l) /\ n = Len(k)
  OBVIOUS
<1>2. l \in Seq(S) /\ k \in Seq(S)
  BY <1>1, SeqSmaller DEF IsSequence
<1>3. m \in Nat /\ n \in Nat
  BY <1>1, <1>2
<1>4. /\ x \in Seq(S) /\ Len(x) = m + n
      /\ \A i \in 1 .. m + n : x[i] = IF i <= m THEN l[i] ELSE k[i - m]
  BY <1>1, <1>2, ConcatProperties
<1>5. \A i \in 1 .. m : x[i] = l[i]
  BY <1>3, <1>4
<1>6. \A i \in 1 .. n : x[m + i] = k[i]
  <2> TAKE i \in 1 .. n
  <2>1. m + i \in 1 .. m + n /\ ~(m + i <= m) /\ (m + i) - m = i
    BY <1>3
  <2> QED
    BY <1>4, <2>1
<1>7. Range(x) \subseteq S
  BY <1>4 DEF Range
<1>8. S \subseteq Range(x)
  <2>1. ASSUME NEW y \in Range(l) PROVE y \in Range(x)
    <3>1. PICK i \in 1 .. m : l[i] = y
      BY <1>1, Elements
    <3>2. i \in 1 .. m + n
      BY <1>3
    <3>3. x[i] = y /\ i \in DOMAIN x
      BY <1>3, <1>4, <1>5, <3>1, <3>2
    <3> QED
      BY <3>3 DEF Range
  <2>2. ASSUME NEW y \in Range(k) PROVE y \in Range(x)
    <3>1. PICK i \in 1 .. n : k[i] = y
      BY <1>1, Elements
    <3>2. m + i \in 1 .. m + n
      BY <1>3
    <3>3. x[m + i] = y /\ m + i \in DOMAIN x
      BY <1>4, <1>6, <3>1, <3>2
    <3> QED
      BY <3>3 DEF Range
  <2> QED
    BY <1>1, <2>1, <2>2
<1>9. Range(x) = S
  BY <1>7, <1>8
<1>10. IsSequence(x)
  BY <1>4, <1>9 DEF IsSequence
<1>11. Joined(x, l, k)
  BY <1>1, <1>4, <1>5, <1>6, <1>9, <1>10 DEF Joined
<1> QED
  BY <1>1, <1>11

\* Every message of a joined link was there or joined.
LEMMA JoinedPlaces ==
    ASSUME NEW x, NEW l, NEW k, IsSequence(l), IsSequence(k), Joined(x, l, k), NEW i \in 1 .. Len(x)
    PROVE  \/ i \in 1 .. Len(l) /\ x[i] = l[i]
           \/ i > Len(l) /\ i - Len(l) \in 1 .. Len(k) /\ x[i] = k[i - Len(l)]
<1>1. PICK m, n : m = Len(l) /\ n = Len(k)
  OBVIOUS
<1>2. m \in Nat /\ n \in Nat
  BY <1>1, Elements
<1>3. /\ i \in 1 .. m + n
      /\ \A j \in 1 .. m : x[j] = l[j]
      /\ \A j \in 1 .. n : x[m + j] = k[j]
  BY <1>1 DEF Joined
<1>4. CASE i <= m
  <2>1. i \in 1 .. m
    BY <1>2, <1>3, <1>4
  <2> QED
    BY <1>1, <1>3, <2>1
<1>5. CASE i > m
  <2>1. i - m \in 1 .. n /\ m + (i - m) = i
    BY <1>2, <1>3, <1>5
  <2>2. x[i] = k[i - m]
    BY <1>3, <2>1
  <2> QED
    BY <1>1, <1>5, <2>1, <2>2
<1> QED
  BY <1>2, <1>3, <1>4, <1>5

\* The first message leaves.
Left(x, l) ==
    /\ IsSequence(x) /\ Len(l) > 0 /\ Len(x) = Len(l) - 1
    /\ \A i \in 1 .. Len(x) : x[i] = l[i + 1]
    /\ Head(l) = l[1] /\ Head(l) \in Range(l) /\ Range(l) = Range(x) \cup {Head(l)}

\* What a link holds after its first message was read.
LEMMA TailOf ==
    ASSUME NEW l, IsSequence(l), l # << >>
    PROVE  Left(Tail(l), l)
<1>1. PICK S, x, h, n : S = Range(l) /\ x = Tail(l) /\ h = Head(l) /\ n = Len(l)
  OBVIOUS
<1>2. l \in Seq(S)
  BY <1>1 DEF IsSequence
<1>3. /\ n \in Nat /\ n > 0 /\ x \in Seq(S) /\ Len(x) = n - 1 /\ h = l[1]
      /\ \A i \in 1 .. n - 1 : x[i] = l[i + 1]
  BY <1>1, <1>2
<1>4. Range(x) \subseteq S /\ h \in S
  <2>1. h \in S
    BY <1>2, <1>3
  <2> QED
    BY <1>3, <2>1 DEF Range
<1>5. ASSUME NEW y \in S PROVE y \in Range(x) \cup {h}
  <2>1. PICK i \in 1 .. n : l[i] = y
    BY <1>1, Elements
  <2>2. CASE i = 1
    BY <1>3, <2>1, <2>2
  <2>3. CASE i # 1
    <3>1. i - 1 \in 1 .. n - 1 /\ (i - 1) + 1 = i
      BY <1>3, <2>3
    <3>2. x[i - 1] = y /\ i - 1 \in DOMAIN x
      BY <1>3, <2>1, <3>1
    <3> QED
      BY <3>2 DEF Range
  <2> QED
    BY <2>2, <2>3
<1>6. S = Range(x) \cup {h}
  BY <1>4, <1>5
<1>7. IsSequence(x)
  BY <1>3 DEF IsSequence, Range
<1>8. Left(x, l)
  BY <1>1, <1>3, <1>4, <1>6, <1>7 DEF Left
<1> QED
  BY <1>1, <1>8

\* One message, and none.
LEMMA OneMessage ==
    ASSUME NEW m
    PROVE  /\ IsSequence(<<m>>) /\ Len(<<m>>) = 1 /\ <<m>>[1] = m /\ Range(<<m>>) = {m}
           /\ \A l : IsSequence(l) => Append(l, m) = l \o <<m>>
<1>1. PICK k : k = <<m>>
  OBVIOUS
<1>2. Len(k) = 1 /\ k[1] = m /\ DOMAIN k = {1} /\ k \in Seq({m})
  BY <1>1
<1>3. Range(k) = {m}
  BY <1>2 DEF Range
<1>4. ASSUME NEW l, IsSequence(l) PROVE Append(l, m) = l \o k
  <2>1. PICK S, e : S = Range(l) \cup {m} /\ e = << >>
    OBVIOUS
  <2>2. l \in Seq(S) /\ m \in S /\ e \in Seq(S)
    BY <1>4, <2>1, SeqSmaller DEF IsSequence
  <2>3. l \o Append(e, m) = Append(l \o e, m)
    BY <2>2, JoinedAppended
  <2>4. Append(e, m) = k
    BY <1>1, <2>1
  <2>5. l \o e = l
    BY <2>1, <2>2, ConcatEmptySeq
  <2> QED
    BY <2>3, <2>4, <2>5
<1> QED
  BY <1>1, <1>2, <1>3, <1>4 DEF IsSequence

\* An empty link holds no message.
LEMMA NoMessage == IsSequence(<< >>) /\ Range(<< >>) = {} /\ Len(<< >>) = 0
<1>1. PICK k : k = << >>
  OBVIOUS
<1>2. Range(k) = {} /\ k \in Seq({}) /\ Len(k) = 0
  BY <1>1 DEF Range
<1> QED
  BY <1>1, <1>2 DEF IsSequence

-----------------------------------------------------------------------------
(* The inductive invariant.                                                    *)

\* What the variables range over.
Shapes ==
    /\ server \in {"none", "waiting", "answered", "over"}
    /\ client \in {"none", "asking", "serving", "over"}
    /\ sent \in [Sides -> 0 .. MaxSent] /\ got \in [Sides -> Nat]
    /\ DOMAIN parting = Sides
    /\ IsSequence(down) /\ IsSequence(up)
    /\ stray \in BOOLEAN /\ fault \in {"none", "client", "server"}

\* Who has something to work with: the server since the public request came, the client
\* since it read the start.
Started ==
    /\ server = "none" => public = None /\ client = "none"
    /\ server # "none" => request \in Asked
    /\ client = "none" => local = None
    /\ client # "none" => DOMAIN local = {"kind", "target", "headers", "ended"}
    /\ server = "answered" => DOMAIN public = {"by", "status", "headers", "ended"}
    /\ client = "serving" => answer \in Answers /\ answer.kind = request.kind

\* Every message is made of bytes.
Bytes == \A m \in Range(down) \cup Range(up) : m.bytes \in Seq(0 .. Byte - 1)

\* The server lets go of the stream when it is over, or when an upload ended.
Parted == parting["server"] # Nothing => server = "over" \/ (server # "none" /\ ~IsSocket)

\* While nobody else writes: what is on its way can be read.
Legible(m, direction) ==
    /\ Accepted(m, direction) /\ H(m).stream = IF Type(m) = "channel_credit" THEN 0 ELSE 1
    /\ Type(m) \notin DataTypes => Understood(m)
    /\ Type(m) \in DataTypes => H(m).flags \in OwnFlags
\* An end says what the side that said it sent, and how it closed.
EndOf(m, side) ==
    /\ m.payload.json["kind"].word = BodyKind(side)
    /\ m.payload.json["lastSeq"].n = sent[side] - 1
    /\ SameCode(m.payload.json, parting[side])
\* Data comes in order and without a gap.
IsData(m) == Type(m) \in DataTypes
Runs(link, first, last) ==
    /\ \A i \in DOMAIN link : IsData(link[i]) => H(link[i]).seq \in first .. last - 1
    /\ \A i, j \in DOMAIN link : i < j /\ IsData(link[i]) /\ IsData(link[j])
                                 => H(link[i]).seq < H(link[j]).seq
    /\ \A n \in first .. last - 1 : \E i \in DOMAIN link : IsData(link[i]) /\ H(link[i]).seq = n
\* None comes behind the end.
IsEndOf(m) == Type(m) \in {"request_end", "response_end"}
EndIsLast(link) == \A i, j \in DOMAIN link : i < j /\ IsEndOf(link[i]) => ~IsData(link[j])

DownIsLegible == \A m \in Range(down) : Legible(m, "server-to-client")
DownEnds == \A m \in Range(down) : IsEndOf(m) => parting["server"] # Nothing /\ EndOf(m, "server")
DownStarts ==
    /\ \A i \in DOMAIN down : Type(down[i]) = "request_start" <=> i = 1 /\ client = "none"
    /\ down # <<>> => server # "none"
    /\ server \in {"waiting", "answered"} /\ client = "none" => down # <<>>
DownRuns ==
    /\ EndIsLast(down)
    /\ client # "over" => got["client"] <= sent["server"] /\ Runs(down, got["client"], sent["server"])

UpIsLegible == \A m \in Range(up) : Legible(m, "client-to-server")
UpEnds == \A m \in Range(up) : IsEndOf(m) => client = "over" /\ EndOf(m, "client")
UpStarts == up # <<>> => client # "none"
UpRuns ==
    /\ EndIsLast(up)
    /\ server # "over" => got["server"] <= sent["client"] /\ Runs(up, got["server"], sent["client"])

Legibles == ~stray => /\ fault = "none"
                      /\ DownIsLegible /\ DownEnds /\ DownStarts /\ DownRuns
                      /\ UpIsLegible /\ UpEnds /\ UpStarts /\ UpRuns

\* An end that a side said is on its way until it arrives.
Has(link, type) ==
    \E m \in Range(link) : /\ Readable(m.bytes, m.payload, MaxFrame)
                           /\ H(m).stream = 1 /\ Type(m) = type
EndsComing ==
    /\ parting["client"].how \in {"ended", "closed"} =>
           server = "over" \/ fault # "none" \/ Has(up, "response_end")
    /\ parting["server"].how \in {"ended", "closed"} =>
           \/ client = "over" \/ fault # "none" \/ Has(down, "request_end")
           \/ client # "none" /\ local.ended # Undefined
EndsCame ==
    /\ (public # None /\ public.ended # Undefined /\ ~stray) =>
           client = "over" /\ SameCode(public.ended, parting["client"])
    /\ (client # "none" /\ local.ended # Undefined /\ ~stray) =>
           parting["server"] # Nothing /\ SameCode(local.ended, parting["server"])

\* Only the two programs start the stream, with the headers they were handed.
StartsAreOwn ==
    /\ \A m \in Range(down) :
           Readable(m.bytes, m.payload, MaxFrame) /\ Type(m) = "request_start" =>
           server # "none" /\ m.payload.json = Json(RequestStart(request))
    /\ \A m \in Range(up) :
           Readable(m.bytes, m.payload, MaxFrame) /\ Type(m) = "response_start" =>
           /\ client \notin {"none", "asking"} /\ answer \in Answers /\ answer.kind = request.kind
           /\ m.payload.json = Json(ResponseStart(answer))
LocalHeaders ==
    IF request.kind = "http" THEN LocalHttp(ForwardedHttp(request.headers))
    ELSE LocalWebSocket(ForwardedWebSocket(request.headers))
HeadersCame ==
    /\ client # "none" => local.headers = LocalHeaders
    /\ ((public # None \/ server = "answered") /\ public.by = "local" /\ ~IsSocket) =>
           /\ client \notin {"none", "asking"} /\ answer \in Answers /\ answer.kind = "http"
           /\ public.headers = FilterResponse(FilterResponse(Entries(answer.headers)))

IInv == /\ Shapes /\ Started /\ Bytes /\ Parted /\ Legibles /\ EndsComing /\ EndsCame
        /\ StartsAreOwn /\ HeadersCame /\ ReadIsCanonical

-----------------------------------------------------------------------------
(* Data on a link.                                                             *)

\* Behind what is there, messages that are no data change nothing.
LEMMA RunsJoined ==
    ASSUME NEW l, NEW k, IsSequence(l), IsSequence(k), \A m \in Range(k) : ~IsData(m),
           NEW a, NEW b, Runs(l, a, b)
    PROVE  Runs(l \o k, a, b)
<1>1. PICK x, n : x = l \o k /\ n = Len(l)
  OBVIOUS
<1>2. Joined(x, l, k)
  BY <1>1, JoinOf
<1>3. DOMAIN x = 1 .. Len(x) /\ DOMAIN l = 1 .. n /\ n \in Nat /\ Len(k) \in Nat
      /\ Len(x) = n + Len(k)
  <2>1. IsSequence(x) /\ Len(x) = Len(l) + Len(k)
    BY <1>2 DEF Joined
  <2> QED
    BY <1>1, <2>1, Elements
<1>4. ASSUME NEW i \in DOMAIN x, IsData(x[i]) PROVE i \in DOMAIN l /\ x[i] = l[i]
  <2>1. i \in 1 .. Len(x)
    BY <1>3
  <2>2. \/ i \in 1 .. Len(l) /\ x[i] = l[i]
        \/ i - Len(l) \in 1 .. Len(k) /\ x[i] = k[i - Len(l)]
    BY <1>2, <2>1, JoinedPlaces
  <2>3. CASE i - Len(l) \in 1 .. Len(k) /\ x[i] = k[i - Len(l)]
    <3>1. k[i - Len(l)] \in Range(k)
      BY <2>3, Elements
    <3> QED
      BY <1>4, <2>3, <3>1
  <2> QED
    BY <1>1, <1>3, <2>2, <2>3
<1>5. \A i \in DOMAIN l : i \in DOMAIN x /\ x[i] = l[i]
  <2>1. \A i \in 1 .. n : x[i] = l[i] /\ i \in 1 .. n + Len(k)
    BY <1>1, <1>2, <1>3 DEF Joined
  <2> QED
    BY <1>3, <2>1
<1>6. Runs(x, a, b)
  <2>1. \A i \in DOMAIN x : IsData(x[i]) => H(x[i]).seq \in a .. b - 1
    BY <1>4 DEF Runs
  <2>2. \A i, j \in DOMAIN x : i < j /\ IsData(x[i]) /\ IsData(x[j]) => H(x[i]).seq < H(x[j]).seq
    BY <1>4 DEF Runs
  <2>3. \A q \in a .. b - 1 : \E i \in DOMAIN x : IsData(x[i]) /\ H(x[i]).seq = q
    <3> TAKE q \in a .. b - 1
    <3>1. PICK i \in DOMAIN l : IsData(l[i]) /\ H(l[i]).seq = q
      BY DEF Runs
    <3> QED
      BY <1>5, <3>1
  <2> QED
    BY <2>1, <2>2, <2>3 DEF Runs
<1> QED
  BY <1>1, <1>6

\* The next data joins.
LEMMA RunsNext ==
    ASSUME NEW l, NEW m, IsSequence(l), NEW a \in Nat, NEW b \in Nat, a <= b, Runs(l, a, b),
           IsData(m), H(m).seq = b
    PROVE  Runs(l \o <<m>>, a, b + 1)
<1>1. PICK x, n, k : x = l \o <<m>> /\ n = Len(l) /\ k = <<m>>
  OBVIOUS
<1>k. IsSequence(k) /\ Len(k) = 1 /\ k[1] = m
  BY <1>1, OneMessage
<1>2. Joined(x, l, k)
  BY <1>1, <1>k, JoinOf
<1>3. DOMAIN x = 1 .. n + 1 /\ DOMAIN l = 1 .. n /\ n \in Nat
  <2>1. IsSequence(x) /\ Len(x) = Len(l) + Len(k)
    BY <1>2 DEF Joined
  <2> QED
    BY <1>1, <1>k, <2>1, Elements
<1>4. \A i \in 1 .. n : x[i] = l[i]
  BY <1>1, <1>2 DEF Joined
<1>5. x[n + 1] = m
  BY <1>1, <1>2, <1>k DEF Joined
<1>6. /\ \A i \in 1 .. n : IsData(l[i]) => H(l[i]).seq \in a .. b - 1
      /\ \A i, j \in 1 .. n : i < j /\ IsData(l[i]) /\ IsData(l[j]) => H(l[i]).seq < H(l[j]).seq
      /\ \A q \in a .. b - 1 : \E i \in 1 .. n : IsData(l[i]) /\ H(l[i]).seq = q
  BY <1>3 DEF Runs
<1>7. ASSUME NEW i \in 1 .. n + 1, IsData(x[i]) PROVE H(x[i]).seq \in a .. (b + 1) - 1
  <2>1. CASE i \in 1 .. n
    <3>1. H(x[i]).seq \in a .. b - 1
      BY <1>4, <1>6, <1>7, <2>1
    <3> QED
      BY <3>1
  <2>2. CASE i = n + 1
    BY <1>5, <2>2
  <2> QED
    BY <1>3, <2>1, <2>2
<1>8. ASSUME NEW i \in 1 .. n + 1, NEW j \in 1 .. n + 1, i < j, IsData(x[i]), IsData(x[j])
      PROVE  H(x[i]).seq < H(x[j]).seq
  <2>1. i \in 1 .. n
    BY <1>3, <1>8
  <2>2. CASE j \in 1 .. n
    BY <1>4, <1>6, <1>8, <2>1, <2>2
  <2>3. CASE j = n + 1
    <3>1. H(x[i]).seq \in a .. b - 1
      BY <1>4, <1>6, <1>8, <2>1
    <3>2. H(x[j]).seq = b
      BY <1>5, <2>3
    <3> QED
      BY <3>1, <3>2
  <2> QED
    BY <1>3, <2>2, <2>3
<1>9. ASSUME NEW q \in a .. (b + 1) - 1 PROVE \E i \in 1 .. n + 1 : IsData(x[i]) /\ H(x[i]).seq = q
  <2>1. CASE q \in a .. b - 1
    <3>1. PICK i \in 1 .. n : IsData(l[i]) /\ H(l[i]).seq = q
      BY <1>6, <2>1
    <3>2. i \in 1 .. n + 1 /\ x[i] = l[i]
      BY <1>3, <1>4
    <3> QED
      BY <3>1, <3>2
  <2>2. CASE q = b
    <3>1. n + 1 \in 1 .. n + 1
      BY <1>3
    <3> QED
      BY <1>5, <2>2, <3>1
  <2> QED
    BY <2>1, <2>2
<1>10. Runs(x, a, b + 1)
  BY <1>3, <1>7, <1>8, <1>9 DEF Runs
<1> QED
  BY <1>1, <1>10

\* The first message leaves: if it is data it is the first that was expected.
LEMMA RunsLeft ==
    ASSUME NEW l, IsSequence(l), l # << >>, NEW a \in Nat, NEW b \in Nat, Runs(l, a, b)
    PROVE  /\ ~IsData(Head(l)) => Runs(Tail(l), a, b)
           /\ IsData(Head(l)) => H(Head(l)).seq = a /\ a + 1 <= b /\ Runs(Tail(l), a + 1, b)
<1>1. PICK x, n, h : x = Tail(l) /\ n = Len(l) /\ h = Head(l)
  OBVIOUS
<1>2. Left(x, l)
  BY <1>1, TailOf
<1>3. /\ DOMAIN x = 1 .. n - 1 /\ DOMAIN l = 1 .. n /\ n \in Nat /\ n > 0 /\ h = l[1]
      /\ \A i \in 1 .. n - 1 : x[i] = l[i + 1]
  <2>1. IsSequence(x) /\ Len(x) = n - 1 /\ n > 0 /\ h = l[1]
        /\ \A i \in 1 .. Len(x) : x[i] = l[i + 1]
    BY <1>1, <1>2 DEF Left
  <2>2. DOMAIN x = 1 .. Len(x) /\ DOMAIN l = 1 .. Len(l) /\ Len(l) \in Nat
    BY <2>1, Elements
  <2> QED
    BY <1>1, <2>1, <2>2
<1>4. /\ \A i \in 1 .. n : IsData(l[i]) => H(l[i]).seq \in a .. b - 1
      /\ \A i, j \in 1 .. n : i < j /\ IsData(l[i]) /\ IsData(l[j]) => H(l[i]).seq < H(l[j]).seq
      /\ \A q \in a .. b - 1 : \E i \in 1 .. n : IsData(l[i]) /\ H(l[i]).seq = q
  BY <1>3 DEF Runs
<1>5. \A i \in 1 .. n - 1 : i + 1 \in 1 .. n
  BY <1>3
<1>6. \A i, j \in 1 .. n - 1 : i < j /\ IsData(x[i]) /\ IsData(x[j]) => H(x[i]).seq < H(x[j]).seq
  <2> TAKE i, j \in 1 .. n - 1
  <2>1. PICK p, q : p = i + 1 /\ q = j + 1
    OBVIOUS
  <2>2. p \in 1 .. n /\ q \in 1 .. n /\ x[i] = l[p] /\ x[j] = l[q] /\ (i < j => p < q)
    BY <1>3, <1>5, <2>1
  <2> QED
    BY <1>4, <2>2
<1>7. ASSUME ~IsData(h) PROVE Runs(x, a, b)
  <2>1. \A i \in 1 .. n - 1 : IsData(x[i]) => H(x[i]).seq \in a .. b - 1
    BY <1>3, <1>4, <1>5
  <2>2. ASSUME NEW q \in a .. b - 1 PROVE \E i \in 1 .. n - 1 : IsData(x[i]) /\ H(x[i]).seq = q
    <3>1. PICK i \in 1 .. n : IsData(l[i]) /\ H(l[i]).seq = q
      BY <1>4
    <3>2. i # 1
      BY <1>3, <1>7, <3>1
    <3>3. i - 1 \in 1 .. n - 1 /\ (i - 1) + 1 = i
      BY <1>3, <3>2
    <3>4. x[i - 1] = l[i]
      BY <1>3, <3>3
    <3> QED
      BY <3>1, <3>3, <3>4
  <2> QED
    BY <1>3, <1>6, <2>1, <2>2 DEF Runs
<1>8. ASSUME IsData(h) PROVE H(h).seq = a /\ a + 1 <= b /\ Runs(x, a + 1, b)
  <2>0. 1 \in 1 .. n
    BY <1>3
  <2>1. PICK s : s = H(h).seq
    OBVIOUS
  <2>2. s \in a .. b - 1
    BY <1>3, <1>4, <1>8, <2>0, <2>1
  <2>3. a \in a .. b - 1
    BY <2>2
  <2>4. PICK i \in 1 .. n : IsData(l[i]) /\ H(l[i]).seq = a
    BY <1>4, <2>3
  <2>5. i = 1
    <3>1. CASE 1 < i
      <4>1. s < a
        BY <1>3, <1>4, <1>8, <2>0, <2>1, <2>4, <3>1
      <4> QED
        BY <2>2, <4>1
    <3> QED
      BY <3>1
  <2>6. s = a
    BY <1>3, <2>1, <2>4, <2>5
  <2>7. \A j \in 1 .. n - 1 : IsData(x[j]) => H(x[j]).seq \in a + 1 .. b - 1
    <3> SUFFICES ASSUME NEW j \in 1 .. n - 1, IsData(x[j]) PROVE H(x[j]).seq \in a + 1 .. b - 1
      OBVIOUS
    <3>1. PICK p : p = j + 1
      OBVIOUS
    <3>2. p \in 1 .. n /\ x[j] = l[p] /\ 1 < p
      BY <1>3, <1>5, <3>1
    <3>3. H(l[p]).seq \in a .. b - 1 /\ s < H(l[p]).seq
      BY <1>3, <1>4, <1>8, <2>0, <2>1, <3>2
    <3> QED
      BY <2>6, <3>2, <3>3
  <2>8. ASSUME NEW q \in a + 1 .. b - 1 PROVE \E j \in 1 .. n - 1 : IsData(x[j]) /\ H(x[j]).seq = q
    <3>1. q \in a .. b - 1 /\ q # a
      OBVIOUS
    <3>2. PICK j \in 1 .. n : IsData(l[j]) /\ H(l[j]).seq = q
      BY <1>4, <3>1
    <3>3. j # 1
      BY <1>3, <2>1, <2>6, <3>1, <3>2
    <3>4. j - 1 \in 1 .. n - 1 /\ (j - 1) + 1 = j
      BY <1>3, <3>3
    <3>5. x[j - 1] = l[j]
      BY <1>3, <3>4
    <3> QED
      BY <3>2, <3>4, <3>5
  <2>9. Runs(x, a + 1, b)
    BY <1>3, <1>6, <2>7, <2>8 DEF Runs
  <2> QED
    BY <2>1, <2>2, <2>6, <2>9
<1> QED
  BY <1>1, <1>7, <1>8

\* Without data on the way, all of it came.
LEMMA RunsOut ==
    ASSUME NEW l, IsSequence(l), \A m \in Range(l) : ~IsData(m),
           NEW a \in Nat, NEW b \in Nat, a <= b, Runs(l, a, b)
    PROVE  a = b
<1>1. SUFFICES ASSUME a # b PROVE FALSE
  OBVIOUS
<1>2. a \in a .. b - 1
  BY <1>1
<1>3. PICK i \in DOMAIN l : IsData(l[i])
  BY <1>2 DEF Runs
<1>4. l[i] \in Range(l)
  BY DEF Range
<1> QED
  BY <1>3, <1>4

\* Behind an end comes no data, neither when other messages join, nor when data joins
\* before there is an end, nor when the first message leaves.
LEMMA EndsJoined ==
    ASSUME NEW l, NEW k, IsSequence(l), IsSequence(k), EndIsLast(l), \A m \in Range(k) : ~IsData(m)
    PROVE  EndIsLast(l \o k)
<1>1. PICK x, n : x = l \o k /\ n = Len(l)
  OBVIOUS
<1>2. Joined(x, l, k)
  BY <1>1, JoinOf
<1>3. IsSequence(x) /\ DOMAIN x = 1 .. Len(x) /\ DOMAIN l = 1 .. n /\ n \in Nat
  <2>1. IsSequence(x)
    BY <1>2 DEF Joined
  <2> QED
    BY <1>1, <2>1, Elements
<1>4. ASSUME NEW i \in 1 .. Len(x), NEW j \in 1 .. Len(x), i < j, IsEndOf(x[i]), IsData(x[j])
      PROVE  FALSE
  <2>1. j \in 1 .. n /\ x[j] = l[j]
    <3>1. \/ j \in 1 .. Len(l) /\ x[j] = l[j]
          \/ j - Len(l) \in 1 .. Len(k) /\ x[j] = k[j - Len(l)]
      BY <1>2, JoinedPlaces
    <3>2. CASE j - Len(l) \in 1 .. Len(k) /\ x[j] = k[j - Len(l)]
      <4>1. k[j - Len(l)] \in Range(k)
        BY <3>2, Elements
      <4> QED
        BY <1>4, <3>2, <4>1
    <3> QED
      BY <1>1, <3>1, <3>2
  <2>2. i \in 1 .. n
    BY <1>3, <1>4, <2>1
  <2>3. x[i] = l[i]
    BY <1>1, <1>2, <2>2 DEF Joined
  <2> QED
    BY <1>3, <1>4, <2>1, <2>2, <2>3 DEF EndIsLast
<1>5. EndIsLast(x)
  BY <1>3, <1>4 DEF EndIsLast
<1> QED
  BY <1>1, <1>5

\* An end sent behind messages that are no ends is the last message.
LEMMA EndsNext ==
    ASSUME NEW l, NEW m, IsSequence(l), \A q \in Range(l) : ~IsEndOf(q)
    PROVE  EndIsLast(l \o <<m>>)
<1>1. PICK x, n, k : x = l \o <<m>> /\ n = Len(l) /\ k = <<m>>
  OBVIOUS
<1>k. IsSequence(k) /\ Len(k) = 1
  BY <1>1, OneMessage
<1>2. Joined(x, l, k)
  BY <1>1, <1>k, JoinOf
<1>3. DOMAIN x = 1 .. n + 1 /\ n \in Nat
  <2>1. IsSequence(x) /\ Len(x) = Len(l) + Len(k)
    BY <1>2 DEF Joined
  <2> QED
    BY <1>1, <1>k, <2>1, Elements
<1>4. ASSUME NEW i \in 1 .. n + 1, NEW j \in 1 .. n + 1, i < j, IsEndOf(x[i])
      PROVE  FALSE
  <2>1. i \in 1 .. n
    BY <1>3, <1>4
  <2>2. x[i] = l[i]
    BY <1>1, <1>2, <2>1 DEF Joined
  <2>3. l[i] \in Range(l)
    BY <1>1, <2>1, Elements
  <2> QED
    BY <1>4, <2>2, <2>3
<1>5. EndIsLast(x)
  BY <1>3, <1>4 DEF EndIsLast
<1> QED
  BY <1>1, <1>5

\* An end that is last stays last, and no data is behind an end.
LEMMA EndsLeft ==
    ASSUME NEW l, IsSequence(l), l # << >>, EndIsLast(l)
    PROVE  /\ EndIsLast(Tail(l))
           /\ IsEndOf(Head(l)) => \A m \in Range(l) : ~IsData(m)
<1>1. PICK x, n, h : x = Tail(l) /\ n = Len(l) /\ h = Head(l)
  OBVIOUS
<1>2. Left(x, l)
  BY <1>1, TailOf
<1>3. /\ DOMAIN x = 1 .. n - 1 /\ DOMAIN l = 1 .. n /\ n \in Nat /\ n > 0 /\ h = l[1]
      /\ \A i \in 1 .. n - 1 : x[i] = l[i + 1]
  <2>1. IsSequence(x) /\ Len(x) = n - 1 /\ n > 0 /\ h = l[1]
        /\ \A i \in 1 .. Len(x) : x[i] = l[i + 1]
    BY <1>1, <1>2 DEF Left
  <2>2. DOMAIN x = 1 .. Len(x) /\ DOMAIN l = 1 .. Len(l) /\ Len(l) \in Nat
    BY <2>1, Elements
  <2> QED
    BY <1>1, <2>1, <2>2
<1>4. \A i, j \in 1 .. n : i < j /\ IsEndOf(l[i]) => ~IsData(l[j])
  BY <1>3 DEF EndIsLast
<1>5. EndIsLast(x)
  <2>1. ASSUME NEW i \in 1 .. n - 1, NEW j \in 1 .. n - 1, i < j, IsEndOf(x[i]) PROVE ~IsData(x[j])
    <3>1. PICK p, q : p = i + 1 /\ q = j + 1
      OBVIOUS
    <3>2. p \in 1 .. n /\ q \in 1 .. n /\ p < q /\ x[i] = l[p] /\ x[j] = l[q]
      BY <1>3, <2>1, <3>1
    <3> QED
      BY <1>4, <2>1, <3>2
  <2> QED
    BY <1>3, <2>1 DEF EndIsLast
<1>6. ASSUME IsEndOf(h), NEW m \in Range(l) PROVE ~IsData(m)
  <2>1. PICK i \in 1 .. n : l[i] = m
    BY <1>1, Elements
  <2>2. CASE i = 1
    BY <1>3, <1>6, <2>1, <2>2 DEF IsEndOf, IsData, DataTypes
  <2>3. CASE i # 1
    <3>1. 1 < i /\ 1 \in 1 .. n
      BY <1>3, <2>3
    <3> QED
      BY <1>3, <1>4, <1>6, <2>1, <3>1
  <2> QED
    BY <2>2, <2>3
<1> QED
  BY <1>1, <1>5, <1>6

-----------------------------------------------------------------------------
(* What joins a link.                                                          *)

\* Messages that whoever they are for takes: of these types, and with this metadata.
Tells(k, types, direction) ==
    /\ IsSequence(k)
    /\ \A m \in Range(k) : /\ m.bytes \in Seq(0 .. Byte - 1)
                           /\ Type(m) \in types /\ Legible(m, direction)
Carries(k, meta) == \A m \in Range(k) : m.payload.json = Json(meta)

\* The types of frames.
LEMMA Types ==
    /\ FrameTypes = {"request_start", "request_data", "request_end", "request_abort",
                     "response_start", "response_data", "response_end", "response_abort",
                     "stream_credit", "channel_credit"}
    /\ DataTypes = {"request_data", "response_data"}
    /\ MetadataTypes = {"request_start", "request_end", "request_abort", "response_start",
                        "response_end", "response_abort", "stream_credit", "channel_credit"}
    /\ Credits = {"stream_credit", "channel_credit"}
    /\ \A type \in FrameTypes :
           /\ ValidForDirection(type, "server-to-client") <=> type \notin Responses
           /\ ValidForDirection(type, "client-to-server") <=> type \notin Requests
<1>1. FrameTypes = {"request_start", "request_data", "request_end", "request_abort",
                    "response_start", "response_data", "response_end", "response_abort",
                    "stream_credit", "channel_credit"}
  BY DEF FrameTypes, Code
<1>2. MetadataTypes = {"request_start", "request_end", "request_abort", "response_start",
                       "response_end", "response_abort", "stream_credit", "channel_credit"}
  BY <1>1 DEF MetadataTypes, DataTypes
<1>3. ASSUME NEW type \in FrameTypes
      PROVE  /\ ValidForDirection(type, "server-to-client") <=> type \notin Responses
             /\ ValidForDirection(type, "client-to-server") <=> type \notin Requests
  BY <1>1 DEF ValidForDirection, Direction, Requests, Responses
<1> QED
  BY <1>1, <1>2, <1>3 DEF DataTypes, Credits

\* A frame that is told is legible.
LEMMA ToldIsLegible ==
    ASSUME NEW m, NEW type \in MetadataTypes, NEW meta, NEW direction,
           ValidForDirection(type, direction), Told(m, type, meta)
    PROVE  /\ m.bytes \in Seq(0 .. Byte - 1) /\ Type(m) = type /\ Legible(m, direction)
           /\ m.payload.json = Json(meta)
<1>1. Reads(m, type, 0, 0) /\ Understood(m) /\ m.payload.json = Json(meta)
  BY DEF Told
<1>2. /\ m.bytes \in Seq(0 .. Byte - 1) /\ Readable(m.bytes, m.payload, MaxFrame)
      /\ Type(m) = type /\ H(m).stream = IF type = "channel_credit" THEN 0 ELSE 1
  BY <1>1 DEF Reads
<1>3. Accepted(m, direction)
  BY <1>2 DEF Accepted
<1>4. type \notin DataTypes
  BY DEF MetadataTypes
<1>5. Legible(m, direction)
  BY <1>1, <1>2, <1>3, <1>4 DEF Legible
<1> QED
  BY <1>1, <1>2, <1>5

\* What a side says, if it can.
LEMMA SaidTells ==
    ASSUME NEW type \in MetadataTypes, NEW meta, Weighs(meta), NEW direction,
           ValidForDirection(type, direction)
    PROVE  Tells(Said(type, meta), {type}, direction) /\ Carries(Said(type, meta), meta)
<1>1. PICK k : k = Said(type, meta)
  OBVIOUS
<1>2. CASE Says(type, meta)
  <2>1. PICK m : m = Frame(type, meta)
    OBVIOUS
  <2>2. Told(m, type, meta)
    <3>1. Told(Frame(type, meta), type, meta)
      BY <1>2, FrameReads
    <3> QED
      BY <2>1, <3>1
  <2>3. /\ m.bytes \in Seq(0 .. Byte - 1) /\ Type(m) = type /\ Legible(m, direction)
        /\ m.payload.json = Json(meta)
    BY <2>2, ToldIsLegible
  <2>4. k = <<m>>
    BY <1>1, <1>2, <2>1 DEF Said
  <2>5. IsSequence(k) /\ Range(k) = {m}
    BY <2>4, OneMessage
  <2>6. Tells(k, {type}, direction)
    BY <2>3, <2>5 DEF Tells
  <2>7. Carries(k, meta)
    BY <2>3, <2>5 DEF Carries
  <2> QED
    BY <1>1, <2>6, <2>7
<1>3. CASE ~Says(type, meta)
  <2>1. k = << >>
    BY <1>1, <1>3 DEF Said
  <2>2. IsSequence(k) /\ Range(k) = {}
    BY <2>1, NoMessage
  <2>3. Tells(k, {type}, direction) /\ Carries(k, meta)
    BY <2>2 DEF Tells, Carries
  <2> QED
    BY <1>1, <2>3
<1> QED
  BY <1>2, <1>3

\* More of it.
LEMMA TellsBoth ==
    ASSUME NEW k, NEW l, NEW a, NEW b, NEW direction, Tells(k, a, direction), Tells(l, b, direction)
    PROVE  Tells(k \o l, a \cup b, direction)
<1>1. PICK x : x = k \o l
  OBVIOUS
<1>2. IsSequence(k) /\ IsSequence(l)
  BY DEF Tells
<1>3. Joined(x, k, l)
  BY <1>1, <1>2, JoinOf
<1>4. IsSequence(x) /\ Range(x) = Range(k) \cup Range(l)
  BY <1>3 DEF Joined
<1>5. Tells(x, a \cup b, direction)
  BY <1>4 DEF Tells
<1> QED
  BY <1>1, <1>5

\* Credit goes both ways.
LEMMA GrantsTell ==
    ASSUME NEW side, NEW bytes, NEW direction \in {"server-to-client", "client-to-server"}
    PROVE  Tells(Grants(side, bytes), Credits, direction)
<1>1. PICK a, b, k, l :
          /\ a = [kind |-> Text(BodyKind(side), 1, {}), bytes |-> Number(bytes)]
          /\ b = [bytes |-> Number(bytes)]
          /\ k = Said("stream_credit", a) /\ l = Said("channel_credit", b)
  OBVIOUS
<1>2. Weighs(a) /\ Weighs(b)
  BY <1>1, CreditWeighs
<1>3. /\ "stream_credit" \in MetadataTypes /\ "channel_credit" \in MetadataTypes
      /\ ValidForDirection("stream_credit", direction) /\ ValidForDirection("channel_credit", direction)
  BY Types DEF ValidForDirection, Direction, Requests, Responses
<1>4. Tells(k, {"stream_credit"}, direction)
  BY <1>1, <1>2, <1>3, SaidTells
<1>5. Tells(l, {"channel_credit"}, direction)
  BY <1>1, <1>2, <1>3, SaidTells
<1>6. Tells(k \o l, {"stream_credit"} \cup {"channel_credit"}, direction)
  BY <1>4, <1>5, TellsBoth
<1>7. {"stream_credit"} \cup {"channel_credit"} = Credits
  BY DEF Credits
<1>8. Grants(side, bytes) = k \o l
  BY <1>1 DEF Grants
<1> QED
  BY <1>6, <1>7, <1>8

\* Data.
LEMMA DataTells ==
    ASSUME NEW type \in DataTypes, NEW flags \in OwnFlags, NEW seq \in 0 .. MaxSent,
           NEW bytes \in Sizes, NEW direction, ValidForDirection(type, direction)
    PROVE  /\ Tells(<<Data(type, flags, seq, bytes)>>, {type}, direction)
           /\ IsData(Data(type, flags, seq, bytes)) /\ H(Data(type, flags, seq, bytes)).seq = seq
<1>1. PICK m, k : m = Data(type, flags, seq, bytes) /\ k = <<m>>
  OBVIOUS
<1>2. Reads(m, type, flags, seq)
  BY <1>1, DataReads
<1>3. /\ m.bytes \in Seq(0 .. Byte - 1) /\ Readable(m.bytes, m.payload, MaxFrame)
      /\ Type(m) = type /\ H(m).seq = seq /\ H(m).flags = flags
      /\ H(m).stream = IF type = "channel_credit" THEN 0 ELSE 1
  BY <1>2 DEF Reads
<1>4. Legible(m, direction)
  BY <1>3 DEF Legible, Accepted
<1>5. IsSequence(k) /\ Range(k) = {m}
  BY <1>1, OneMessage
<1>6. Tells(k, {type}, direction)
  BY <1>3, <1>4, <1>5 DEF Tells
<1> QED
  BY <1>1, <1>3, <1>6 DEF IsData

-----------------------------------------------------------------------------
(* An end can always be said.                                                  *)

\* Metadata of which only two values weigh something.
LEMMA TwoWeigh ==
    ASSUME NEW meta, Weighs(meta), \A key \in DOMAIN meta : Given(meta, key),
           NEW x \in DOMAIN meta, NEW y \in DOMAIN meta, x # y,
           \A key \in DOMAIN meta : key # x /\ key # y => Weight(meta[key]) = 0
    PROVE  MetadataBytes(Json(meta)) = Weight(meta[x]) + Weight(meta[y])
<1>1. PICK D, json : D = DOMAIN meta /\ json = Json(meta)
  OBVIOUS
<1>2. DOMAIN json = D /\ \A key \in D : json[key] = meta[key]
  BY <1>1 DEF Json
<1> DEFINE f == [key \in D |-> Weight(json[key])]
<1>3. /\ DOMAIN f = D /\ f[x] = Weight(meta[x]) /\ f[y] = Weight(meta[y])
      /\ \A key \in D : f[key] = Weight(meta[key])
  BY <1>1, <1>2
<1>4. MetadataBytes(json) = SumFunction(f)
  BY <1>2 DEF MetadataBytes
<1> HIDE DEF f
<1>5. SumFunction(f) = SumFunctionOnSet(f, D)
  BY <1>3 DEF SumFunction
<1>6. IsFiniteSet(D) /\ \A key \in D : f[key] \in Int
  <2>1. IsFiniteSet(DOMAIN meta) /\ \A key \in DOMAIN meta : Weight(meta[key]) \in Nat
    BY DEF Weighs
  <2> QED
    BY <1>1, <1>3, <2>1
<1>7. SumFunctionOnSet(f, D) = f[x] + SumFunctionOnSet(f, D \ {x})
  BY <1>1, <1>6, SumOut
<1>8. PICK E : E = D \ {x}
  OBVIOUS
<1>9. IsFiniteSet(E) /\ y \in E /\ \A key \in E : f[key] \in Int
  BY <1>1, <1>6, <1>8, FS_Subset
<1>10. SumFunctionOnSet(f, E) = f[y] + SumFunctionOnSet(f, E \ {y})
  BY <1>9, SumOut
<1>11. PICK F : F = E \ {y}
  OBVIOUS
<1>12. IsFiniteSet(F) /\ \A key \in F : f[key] = 0
  <2>1. IsFiniteSet(F)
    BY <1>9, <1>11, FS_Subset
  <2>2. \A key \in F : key \in D /\ key # x /\ key # y
    BY <1>8, <1>11
  <2> QED
    BY <1>1, <1>3, <2>1, <2>2
<1>13. SumFunctionOnSet(f, F) = 0
  BY <1>12, SumZeros
<1>14. f[x] \in Int /\ f[y] \in Int
  BY <1>1, <1>6
<1> QED
  BY <1>1, <1>3, <1>4, <1>5, <1>7, <1>8, <1>10, <1>11, <1>13, <1>14

\* The frame that ends the direction of a side.
EndType(side) == IF side = "server" THEN "request_end" ELSE "response_end"

\* What is light and valid can be said.
LEMMA LightSays ==
    ASSUME NEW type, NEW meta, IsMetadataFor(meta, type),
           NEW bytes \in Nat, MetadataBytes(Json(meta)) = bytes, bytes <= MaxReason + 1
    PROVE  Says(type, meta)
<1>1. /\ MaxFrame \in Nat /\ MaxFrame <= MaxSafe /\ MaxSafe \in Nat
      /\ MaxMetadata \in Nat /\ MaxMetadata >= 1 /\ MaxMetadata <= MaxFrame
      /\ MaxReason \in Nat /\ MaxReason <= MaxMetadata - 1
  BY LimitsAssumption, SafeAssumption
<1>2. bytes <= MaxMetadata /\ bytes <= MaxFrame /\ Positive(MaxMetadata)
  BY <1>1 DEF Positive
<1> QED
  BY <1>2 DEF Says, Encodable

\* The words of the kinds of ends.
LEMMA EndWords ==
    ASSUME NEW side \in Sides, NEW meta, IsEnd(meta, IF side = "server" THEN "request.body" ELSE "response.body",
                                               IF side = "server" THEN "ws.client" ELSE "ws.server")
    PROVE  IsMetadataFor(meta, EndType(side))
<1>1. CASE side = "server"
  BY <1>1 DEF IsMetadataFor, EndType
<1>2. CASE side # "server"
  BY <1>2 DEF IsMetadataFor, EndType
<1> QED
  BY <1>1, <1>2

\* The end of a body.
LEMMA BodyEndSays ==
    ASSUME NEW side \in Sides, sent[side] \in 0 .. MaxSent, ~IsSocket
    PROVE  Says(EndType(side), BodyEnd(side))
<1>1. PICK m, b, s, k, n : /\ m = BodyEnd(side)
                     /\ b = (IF side = "server" THEN "request.body" ELSE "response.body")
                     /\ s = (IF side = "server" THEN "ws.client" ELSE "ws.server")
                     /\ k = Text(b, 1, {}) /\ n = Number(sent[side] - 1)
  OBVIOUS
<1>2. BodyKind(side) = b
  BY <1>1 DEF BodyKind
<1>3. DOMAIN m = {"kind", "lastSeq"} /\ m["kind"] = k /\ m["lastSeq"] = n
  BY <1>1, <1>2 DEF BodyEnd
<1>4. k.is = "text" /\ k.word = b /\ Weight(k) = 1 /\ n.is = "number" /\ n.n = sent[side] - 1 /\ Weight(n) = 0
  BY <1>1 DEF Text, Number, Weight
<1>5. k # Undefined /\ n # Undefined
  BY <1>4, NotUndefined
<1>6. /\ Field(m, "kind") = k /\ Field(m, "lastSeq") = n
      /\ ~Given(m, "code") /\ ~Given(m, "reason") /\ Given(m, "kind") /\ Given(m, "lastSeq")
  BY <1>3, <1>5 DEF Field, Given
<1>7. IsLastSeq(n)
  <2>1. MaxSent \in Nat /\ MaxSent <= MaxSafe /\ MaxSafe \in Nat
    BY LimitsAssumption, SafeAssumption
  <2>2. PICK q : q = sent[side]
    OBVIOUS
  <2>3. q - 1 \in -1 .. MaxSafe
    BY <2>1, <2>2
  <2> QED
    BY <1>4, <2>2, <2>3 DEF IsLastSeq
<1>8. OneOf(k, {b, s}) /\ OneOf(k, {b})
  BY <1>4 DEF OneOf
<1>9. IsEnd(m, b, s)
  BY <1>3, <1>6, <1>7, <1>8 DEF IsEnd
<1>10. IsMetadataFor(m, EndType(side))
  BY <1>1, <1>9, EndWords
<1>11. MetadataBytes(Json(m)) = 1
  <2>1. Weighs(m)
    BY <1>1, EndWeighs
  <2>2. PICK x, y : x = "kind" /\ y = "lastSeq"
    OBVIOUS
  <2>3. /\ x \in DOMAIN m /\ y \in DOMAIN m /\ x # y /\ \A key \in DOMAIN m : Given(m, key)
        /\ \A key \in DOMAIN m : key # x /\ key # y => Weight(m[key]) = 0
    BY <1>3, <1>6, <2>2
  <2>4. MetadataBytes(Json(m)) = Weight(m[x]) + Weight(m[y])
    BY <2>1, <2>3, TwoWeigh
  <2>5. Weight(m[x]) = 1 /\ Weight(m[y]) = 0
    BY <1>3, <1>4, <2>2
  <2> QED
    BY <2>4, <2>5
<1>12. MaxReason \in Nat
  BY LimitsAssumption
<1>13. Says(EndType(side), m)
  <2>1. PICK bytes : bytes = 1
    OBVIOUS
  <2>2. bytes \in Nat /\ MetadataBytes(Json(m)) = bytes /\ bytes <= MaxReason + 1
    BY <1>11, <1>12, <2>1
  <2> QED
    BY <1>10, <2>2, LightSays
<1> QED
  BY <1>1, <1>13

\* Normalising a code again does not change it.
LEMMA NormalTwice ==
    ASSUME NEW v
    PROVE  NormalCode(NormalCode(v)) = NormalCode(v)
<1>1. 1000 \in CloseCodes
  BY DEF CloseCodes
<1> QED
  BY <1>1 DEF NormalCode, Number

\* What an endpoint closes with is the number of a code.
LEMMA CloseIsNumber ==
    ASSUME NEW close \in Closes
    PROVE  \E i \in 1000 .. 4999 \ {1004} : close.code = Number(i)
BY ClosesAssumption

\* The end of a WebSocket, with a code an application may use.
LEMMA SocketEndSays ==
    ASSUME NEW side \in Sides, sent[side] \in 0 .. MaxSent, IsSocket, NEW close \in Closes
    PROVE  Says(EndType(side), SocketEnd(side, close))
<1>1. PICK m, b, s, k, n, c, r :
                     /\ m = SocketEnd(side, close)
                     /\ b = (IF side = "server" THEN "request.body" ELSE "response.body")
                     /\ s = (IF side = "server" THEN "ws.client" ELSE "ws.server")
                     /\ k = Text(s, 1, {}) /\ n = Number(sent[side] - 1)
                     /\ c = NormalCode(close.code) /\ r = NormalReason(close.reason)
  OBVIOUS
<1>2. BodyKind(side) = s
  BY <1>1 DEF BodyKind
<1>3. /\ DOMAIN m = {"kind", "lastSeq", "code", "reason"} /\ m["kind"] = k /\ m["lastSeq"] = n
      /\ m["code"] = c /\ m["reason"] = r
  BY <1>1, <1>2 DEF SocketEnd
<1>4. k.is = "text" /\ k.word = s /\ Weight(k) = 1 /\ n.is = "number" /\ n.n = sent[side] - 1 /\ Weight(n) = 0
  BY <1>1 DEF Text, Number, Weight
<1>5. c.is = "number" /\ Weight(c) = 0 /\ NormalCode(c) = c
  <2>1. PICK i \in 1000 .. 4999 \ {1004} : close.code = Number(i)
    BY CloseIsNumber
  <2>2. PICK j : c = Number(j)
    BY <1>1, <2>1 DEF NormalCode
  <2>3. NormalCode(c) = c
    BY <1>1, NormalTwice
  <2>4. c.is = "number"
    BY <2>2 DEF Number
  <2>5. Weight(c) = 0
    BY <2>2, OtherWeights
  <2> QED
    BY <2>3, <2>4, <2>5
<1>6. r.is = "text" /\ IsText(r) /\ Weight(r) = r.bytes /\ r.bytes \in Nat /\ r.bytes <= MaxReason
  <2>1. IsText(close.reason)
    BY ClosesAssumption
  <2>2. IsText(r) /\ r.bytes <= MaxReason
    BY <1>1, <2>1, ReasonWeighs
  <2>3. r.bytes \in Nat
    BY <2>2 DEF IsText
  <2> QED
    BY <2>2, <2>3, OtherWeights
<1>7. k # Undefined /\ n # Undefined /\ c # Undefined /\ r # Undefined
  BY <1>4, <1>5, <1>6, NotUndefined
<1>8. /\ Field(m, "kind") = k /\ Field(m, "lastSeq") = n /\ Field(m, "code") = c
      /\ Field(m, "reason") = r /\ \A key \in DOMAIN m : Given(m, key)
  BY <1>3, <1>7 DEF Field, Given
<1>9. IsLastSeq(n)
  <2>1. MaxSent \in Nat /\ MaxSent <= MaxSafe /\ MaxSafe \in Nat
    BY LimitsAssumption, SafeAssumption
  <2>2. PICK q : q = sent[side]
    OBVIOUS
  <2>3. q - 1 \in -1 .. MaxSafe
    BY <2>1, <2>2
  <2> QED
    BY <1>4, <2>2, <2>3 DEF IsLastSeq
<1>10. OneOf(k, {b, s}) /\ ~OneOf(k, {b})
  BY <1>1, <1>4 DEF OneOf
<1>11. IsClose(c, r)
  BY <1>5, <1>6 DEF IsClose, IsReason
<1>12. IsEnd(m, b, s)
  BY <1>3, <1>8, <1>9, <1>10, <1>11 DEF IsEnd
<1>13. IsMetadataFor(m, EndType(side))
  BY <1>1, <1>12, EndWords
<1>14. MetadataBytes(Json(m)) = 1 + r.bytes
  <2>1. Weighs(m)
    BY <1>1, CloseWeighs
  <2>2. PICK x, y : x = "kind" /\ y = "reason"
    OBVIOUS
  <2>3. /\ x \in DOMAIN m /\ y \in DOMAIN m /\ x # y
        /\ \A key \in DOMAIN m : key # x /\ key # y => Weight(m[key]) = 0
    BY <1>3, <1>4, <1>5, <2>2
  <2>4. MetadataBytes(Json(m)) = Weight(m[x]) + Weight(m[y])
    BY <1>8, <2>1, <2>3, TwoWeigh
  <2>5. Weight(m[x]) = 1 /\ Weight(m[y]) = r.bytes
    BY <1>3, <1>4, <1>6, <2>2
  <2> QED
    BY <2>4, <2>5
<1>15. Says(EndType(side), m)
  <2>1. PICK bytes : bytes = 1 + r.bytes
    OBVIOUS
  <2>2. MaxReason \in Nat
    BY LimitsAssumption
  <2>3. bytes \in Nat /\ MetadataBytes(Json(m)) = bytes /\ bytes <= MaxReason + 1
    BY <1>6, <1>14, <2>1, <2>2
  <2> QED
    BY <1>13, <2>3, LightSays
<1> QED
  BY <1>1, <1>15

\* The code a WebSocket was closed with is the code that is said, where an application
\* may use it.
LEMMA CodeKept ==
    ASSUME NEW close \in Closes, NEW side,
           NEW how, how = [how |-> "closed", close |-> close]
    PROVE  SameCode(Json(SocketEnd(side, close)), how)
<1>1. PICK m, c : m = SocketEnd(side, close) /\ c = NormalCode(close.code)
  OBVIOUS
<1>2. "code" \in DOMAIN m /\ m["code"] = c
  BY <1>1 DEF SocketEnd
<1>3. PICK i \in 1000 .. 4999 \ {1004} : close.code = Number(i)
  BY ClosesAssumption
<1>4. close.code.is = "number" /\ close.code.n = i
  BY <1>3 DEF Number
<1>5. c = IF i \in {1005, 1006} THEN Number(1000) ELSE close.code
  BY <1>1, <1>3, <1>4 DEF NormalCode, CloseCodes
<1>6. c # Undefined
  <2>1. c.is = "number"
    BY <1>4, <1>5 DEF Number
  <2> QED
    BY <2>1, NotUndefined
<1>7. Json(m)["code"] = c
  <2>1. Given(m, "code")
    BY <1>2, <1>6 DEF Given, Field
  <2> QED
    BY <1>2, <2>1, JsonKeeps
<1>8. how.close.code.n = i /\ how.close.code = close.code
  BY <1>4
<1> QED
  BY <1>1, <1>5, <1>7, <1>8 DEF SameCode

-----------------------------------------------------------------------------
(* What the steps do, as far as the invariant looks at it.                     *)

\* Messages join a link.
DownTells(k, types) == Tells(k, types, "server-to-client") /\ down' = down \o k
UpTells(k, types) == Tells(k, types, "client-to-server") /\ up' = up \o k

\* Messages that are the end of a direction, and how the side parted with it.
EndsWith(k, side, parted) ==
    /\ \E m \in Range(k) : Readable(m.bytes, m.payload, MaxFrame)
    /\ \A m \in Range(k) : /\ H(m).stream = 1 /\ Type(m) = EndType(side)
                           /\ m.payload.json["kind"].word = BodyKind(side)
                           /\ m.payload.json["lastSeq"].n = sent[side] - 1
                           /\ SameCode(m.payload.json, parted)

\* The server.
Opened(r) ==
    /\ server = "none" /\ fault = "none" /\ r \in Asked /\ request' = r
    /\ UNCHANGED <<client, local, answer, sent, got, up, taken, stray, fault>>
    /\ parting'["client"] = parting["client"]
    /\ \/ /\ server' = "waiting" /\ UNCHANGED <<public, parting>>
          /\ \E m : DownTells(<<m>>, {"request_start"}) /\ Carries(<<m>>, RequestStart(r))
       \/ /\ server' = "over" /\ public' = BadGateway /\ down' = down
          /\ parting'["server"].how = "refused"
ServerTurn ==
    /\ server \in {"waiting", "answered"} /\ server' \in {server, "over"} /\ fault = "none"
    /\ UNCHANGED <<client, request, local, answer, got, up, taken, stray, fault>>
    /\ parting'["client"] = parting["client"] /\ sent'["client"] = sent["client"]
ServerSent(m) ==
    /\ ServerTurn /\ DownTells(<<m>>, {"request_data"}) /\ H(m).seq = sent["server"]
    /\ sent'["server"] = sent["server"] + 1 /\ parting["server"] = Nothing
    /\ UNCHANGED <<server, public, parting>>
ServerEnded(k) ==
    /\ ServerTurn /\ DownTells(k, {"request_end"}) /\ UNCHANGED <<public, sent>>
    /\ parting["server"] = Nothing /\ parting'["server"].how \in {"ended", "closed"}
    /\ server' = "over" \/ ~IsSocket
    /\ EndsWith(k, "server", parting'["server"])
ServerBroke(k) ==
    /\ ServerTurn /\ DownTells(k, {"request_abort"}) /\ UNCHANGED sent
    /\ server' = "over" /\ parting'["server"].how = "aborted"
    /\ public' \in {public, BadGateway}

\* The client.
ClientTurn ==
    /\ client \in {"asking", "serving"} /\ client' \in {"serving", "over"} /\ fault = "none"
    /\ UNCHANGED <<server, request, local, public, got, down, taken, stray, fault>>
    /\ parting'["server"] = parting["server"] /\ sent'["server"] = sent["server"]
ClientAnswered(k) ==
    /\ ClientTurn /\ UpTells(k, {"response_start"}) /\ Carries(k, ResponseStart(answer'))
    /\ client = "asking" /\ client' = "serving"
    /\ answer' \in Answers /\ answer'.kind = request.kind /\ UNCHANGED <<sent, parting>>
ClientSent(m) ==
    /\ ClientTurn /\ UpTells(<<m>>, {"response_data"}) /\ H(m).seq = sent["client"]
    /\ sent'["client"] = sent["client"] + 1 /\ client = "serving"
    /\ UNCHANGED <<client, answer, parting>>
ClientEnded(k) ==
    /\ ClientTurn /\ UpTells(k, {"response_end"}) /\ UNCHANGED <<answer, sent>>
    /\ client = "serving" /\ client' = "over" /\ parting'["client"].how \in {"ended", "closed"}
    /\ EndsWith(k, "client", parting'["client"])
ClientFailed(k) ==
    /\ ClientTurn /\ UpTells(k, {"response_abort"}) /\ UNCHANGED sent
    /\ client' = "over" /\ parting'["client"].how = "aborted"
    /\ answer' = answer \/ client = "asking"

\* The client reads.
ClientRead(m) ==
    /\ down # <<>> /\ m = Head(down) /\ down' = Tail(down) /\ fault = "none"
    /\ UNCHANGED <<server, request, public, answer, sent, stray>>
    /\ parting'["server"] = parting["server"]
ClientFaulted(m) ==
    ClientRead(m) /\ ClientFaults(m) /\ fault' = "client"
    /\ UNCHANGED <<client, local, got, parting, up, taken>>
ClientTook(m) == ClientRead(m) /\ ~ClientFaults(m) /\ fault' = fault /\ taken' = m.bytes
ClientLeft(m) ==
    /\ ClientTook(m) /\ (~OfStream(m) \/ Type(m) \in Credits \/ client = "over")
    /\ UNCHANGED <<client, local, got, parting, up>>
ClientAsked(m) ==
    /\ ClientTook(m) /\ client = "none" /\ client' = "asking" /\ OfStream(m)
    /\ Type(m) = "request_start"
    /\ local' = [kind |-> m.payload.json["kind"].word, target |-> m.payload.json["target"],
                 headers |-> IF m.payload.json["kind"].word = "http"
                             THEN LocalHttp(m.payload.json["headers"].items)
                             ELSE LocalWebSocket(m.payload.json["headers"].items),
                 ended |-> Undefined]
    /\ UNCHANGED <<got, parting, up>>
ClientCounted(m, k) ==
    /\ ClientTook(m) /\ client \in {"asking", "serving"} /\ OfStream(m)
    /\ Type(m) = "request_data" /\ InTurn("client", m)
    /\ got'["client"] = got["client"] + 1 /\ got'["server"] = got["server"]
    /\ UpTells(k, Credits \cup {"response_abort"}) /\ UNCHANGED local
    /\ \/ UNCHANGED <<client, parting>>
       \/ client' = "over" /\ parting'["client"].how = "aborted"
ClientHeard(m) ==
    /\ ClientTook(m) /\ client \in {"asking", "serving"} /\ OfStream(m)
    /\ Type(m) = "request_end" /\ EndsInTurn("client", "server", m)
    /\ local' = [local EXCEPT !.ended = m.payload.json]
    /\ UNCHANGED <<client, got, parting, up>>
ClientTold(m) ==
    /\ ClientTook(m) /\ client \in {"asking", "serving"} /\ OfStream(m)
    /\ Type(m) = "request_abort"
    /\ client' = "over" /\ parting'["client"].how = "told" /\ UNCHANGED <<local, got, up>>

\* The server reads.
ServerRead(m) ==
    /\ up # <<>> /\ m = Head(up) /\ up' = Tail(up) /\ fault = "none"
    /\ UNCHANGED <<client, request, local, answer, sent, stray>>
    /\ parting'["client"] = parting["client"]
ServerFaulted(m) ==
    ServerRead(m) /\ ServerFaults(m) /\ fault' = "server"
    /\ UNCHANGED <<server, public, got, parting, down, taken>>
ServerTook(m) == ServerRead(m) /\ ~ServerFaults(m) /\ fault' = fault /\ taken' = m.bytes
ServerLeft(m) ==
    /\ ServerTook(m)
    /\ \/ ~OfStream(m) \/ Type(m) \in Credits \/ server = "over"
       \/ Type(m) = "response_start" /\ server # "none"
    /\ UNCHANGED <<server, public, got, parting, down>>
ServerCounted(m, k) ==
    /\ ServerTook(m) /\ server \in {"waiting", "answered"} /\ OfStream(m)
    /\ Type(m) = "response_data" /\ InTurn("server", m)
    /\ got'["server"] = got["server"] + 1 /\ got'["client"] = got["client"]
    /\ DownTells(k, Credits) /\ UNCHANGED <<server, public, parting>>
ServerAnswered(m) ==
    /\ ServerTook(m) /\ server = "waiting" /\ OfStream(m) /\ Type(m) = "response_start"
    /\ server' \in {"answered", "over"} /\ UNCHANGED <<got, parting, down>>
    /\ public' = [by |-> "local", status |-> m.payload.json["status"], ended |-> Undefined,
                  headers |-> FilterResponse(m.payload.json["headers"].items)]
ServerHeard(m) ==
    /\ ServerTook(m) /\ server \in {"waiting", "answered"} /\ OfStream(m)
    /\ Type(m) = "response_end" /\ EndsInTurn("server", "client", m) /\ server' = "over"
    /\ public' = IF server = "answered" THEN [public EXCEPT !.ended = m.payload.json] ELSE public
    /\ UNCHANGED <<got, parting, down>>
ServerTold(m) ==
    /\ ServerTook(m) /\ server \in {"waiting", "answered"} /\ OfStream(m)
    /\ Type(m) \in {"response_start", "response_abort"} /\ server' = "over"
    /\ parting'["server"].how \in {"silent", "told"}
    /\ public' \in {public, BadGateway} /\ UNCHANGED <<got, down>>

\* Somebody else writes.
Strayed(m) ==
    /\ m \in Strays /\ ~stray /\ stray' /\ fault = "none"
    /\ \/ down = <<>> /\ down' = <<m>> /\ UNCHANGED up
       \/ up = <<>> /\ up' = <<m>> /\ UNCHANGED down
    /\ UNCHANGED <<server, client, request, local, public, answer, sent, got, parting, taken, fault>>

ServerStep == (\E r : Opened(r)) \/ (\E m : ServerSent(m)) \/ (\E k : ServerEnded(k) \/ ServerBroke(k))
ClientStep == (\E m : ClientSent(m)) \/ (\E k : ClientAnswered(k) \/ ClientEnded(k) \/ ClientFailed(k))
ClientReading ==
    \E m : \/ ClientFaulted(m) \/ ClientLeft(m) \/ ClientAsked(m) \/ (\E k : ClientCounted(m, k))
           \/ ClientHeard(m) \/ ClientTold(m)
ServerReading ==
    \E m : \/ ServerFaulted(m) \/ ServerLeft(m) \/ (\E k : ServerCounted(m, k)) \/ ServerAnswered(m)
           \/ ServerHeard(m) \/ ServerTold(m)

\* What a side says of its end.
LEMMA EndSaid ==
    ASSUME NEW side \in Sides, sent[side] \in 0 .. MaxSent, NEW meta, NEW parted,
           NEW k, k = Said(EndType(side), meta),
           \/ ~IsSocket /\ meta = BodyEnd(side) /\ parted = [how |-> "ended"]
           \/ IsSocket /\ \E close \in Closes : /\ meta = SocketEnd(side, close)
                                                /\ parted = [how |-> "closed", close |-> close]
    PROVE  EndsWith(k, side, parted) /\ parted.how \in {"ended", "closed"}
<1>1. PICK v, n : v = Text(BodyKind(side), 1, {}) /\ n = Number(sent[side] - 1)
  OBVIOUS
<1>2. v.word = BodyKind(side) /\ n.n = sent[side] - 1 /\ v # Undefined /\ n # Undefined
  <2>1. v.is = "text" /\ v.word = BodyKind(side) /\ n.is = "number" /\ n.n = sent[side] - 1
    BY <1>1 DEF Text, Number
  <2> QED
    BY <2>1, NotUndefined
<1>3. "kind" \in DOMAIN meta /\ "lastSeq" \in DOMAIN meta /\ meta["kind"] = v /\ meta["lastSeq"] = n
  BY <1>1 DEF BodyEnd, SocketEnd
<1>4. Json(meta)["kind"] = v /\ Json(meta)["lastSeq"] = n
  <2>1. Given(meta, "kind") /\ Given(meta, "lastSeq")
    BY <1>2, <1>3 DEF Given, Field
  <2> QED
    BY <1>3, <2>1, JsonKeeps
<1>5. Weighs(meta)
  BY EndWeighs, CloseWeighs
<1>6. Says(EndType(side), meta)
  BY BodyEndSays, SocketEndSays
<1>7. SameCode(Json(meta), parted) /\ parted.how \in {"ended", "closed"}
  <2>1. CASE parted = [how |-> "ended"]
    BY <2>1 DEF SameCode
  <2>2. CASE IsSocket /\ \E close \in Closes : /\ meta = SocketEnd(side, close)
                                               /\ parted = [how |-> "closed", close |-> close]
    <3>1. PICK close \in Closes : meta = SocketEnd(side, close) /\ parted = [how |-> "closed", close |-> close]
      BY <2>2
    <3>2. SameCode(Json(SocketEnd(side, close)), parted)
      BY <3>1, CodeKept
    <3> QED
      BY <3>1, <3>2
  <2> QED
    BY <2>1, <2>2
<1>8. EndType(side) \in MetadataTypes /\ EndType(side) # "channel_credit"
  BY Types DEF EndType
<1>9. PICK m : m = Frame(EndType(side), meta)
  OBVIOUS
<1>10. Told(m, EndType(side), meta)
  <2>1. Told(Frame(EndType(side), meta), EndType(side), meta)
    BY <1>5, <1>6, <1>8, FrameReads
  <2> QED
    BY <1>9, <2>1
<1>11. Reads(m, EndType(side), 0, 0) /\ m.payload.json = Json(meta)
  BY <1>10 DEF Told
<1>12. /\ Readable(m.bytes, m.payload, MaxFrame) /\ H(m).stream = 1
       /\ Type(m) = EndType(side)
  BY <1>8, <1>11 DEF Reads
<1>13. k = <<m>>
  BY <1>6, <1>9 DEF Said
<1>14. Range(k) = {m}
  BY <1>13, OneMessage
<1>15. EndsWith(k, side, parted)
  BY <1>2, <1>4, <1>7, <1>11, <1>12, <1>14 DEF EndsWith
<1> QED
  BY <1>7, <1>15

\* The steps of the server.
LEMMA Opens ==
    ASSUME Shapes, NEW r \in Asked, PublicRequest(r)
    PROVE  Opened(r)
<1>1. /\ server = "none" /\ fault = "none" /\ request' = r
      /\ UNCHANGED <<client, local, answer, sent, got, up, taken, stray, fault>>
  BY DEF PublicRequest, counts
<1>2. PICK meta, m : meta = RequestStart(r) /\ m = Frame("request_start", RequestStart(r))
  OBVIOUS
<1>3. DOMAIN parting = Sides /\ "client" \in Sides /\ "server" \in Sides /\ IsSequence(down)
  BY DEF Shapes, Sides
<1>4. CASE Filterable(Entries(r.headers)) /\ Says("request_start", meta)
  <2>1. server' = "waiting" /\ down' = Append(down, m) /\ UNCHANGED <<public, parting>>
    BY <1>2, <1>4 DEF PublicRequest
  <2>2. Append(down, m) = down \o <<m>>
    BY <1>3, OneMessage
  <2>3. Weighs(meta)
    BY <1>2, StartWeighs
  <2>4. "request_start" \in MetadataTypes /\ ValidForDirection("request_start", "server-to-client")
    BY Types DEF ValidForDirection, Direction, Requests
  <2>5. PICK k : k = Said("request_start", meta)
    OBVIOUS
  <2>6. Tells(k, {"request_start"}, "server-to-client") /\ Carries(k, meta)
    BY <2>3, <2>4, <2>5, SaidTells
  <2>7. k = <<m>>
    BY <1>2, <1>4, <2>5 DEF Said
  <2>8. DownTells(<<m>>, {"request_start"}) /\ Carries(<<m>>, RequestStart(r))
    BY <1>2, <2>1, <2>2, <2>6, <2>7 DEF DownTells
  <2> QED
    BY <1>1, <2>1, <2>8 DEF Opened
<1>5. CASE ~(Filterable(Entries(r.headers)) /\ Says("request_start", meta))
  <2>1. server' = "over" /\ public' = BadGateway /\ Parts("server", [how |-> "refused"]) /\ down' = down
    BY <1>2, <1>5 DEF PublicRequest
  <2>2. parting'["server"].how = "refused" /\ parting'["client"] = parting["client"]
    BY <1>3, <2>1 DEF Parts
  <2> QED
    BY <1>1, <2>1, <2>2 DEF Opened
<1> QED
  BY <1>4, <1>5

\* Each step of a side as the proofs need it: a chunk of the public body is one data
\* frame, numbered with the next seq.
LEMMA ServerSends ==
    ASSUME Shapes, NEW bytes \in Sizes, NEW flags, PublicSends(bytes, flags)
    PROVE  \E m : ServerSent(m)
<1>1. PICK m : m = Data("request_data", flags, sent["server"], bytes)
  OBVIOUS
<1>2. /\ server \in {"waiting", "answered"} /\ fault = "none" /\ parting["server"] = Nothing
      /\ sent["server"] < MaxSent /\ flags \in OwnFlags /\ down' = Append(down, m)
      /\ sent' = [sent EXCEPT !["server"] = @ + 1]
      /\ UNCHANGED <<server, client, request, local, public, answer, got, parting, up, taken, stray, fault>>
  BY <1>1 DEF PublicSends, Uploading, ServerOpen, ends
<1>3. /\ sent \in [Sides -> 0 .. MaxSent] /\ "client" \in Sides /\ "server" \in Sides /\ IsSequence(down)
  BY DEF Shapes, Sides
<1>4. sent'["client"] = sent["client"] /\ sent'["server"] = sent["server"] + 1
  BY <1>2, <1>3
<1>5. "request_data" \in DataTypes /\ ValidForDirection("request_data", "server-to-client")
  BY Types DEF ValidForDirection, Direction, Requests
<1>6. sent["server"] \in 0 .. MaxSent
  BY <1>3
<1>7. Tells(<<m>>, {"request_data"}, "server-to-client") /\ H(m).seq = sent["server"]
  <2>1. PICK seq : seq = sent["server"]
    OBVIOUS
  <2>2. /\ Tells(<<Data("request_data", flags, seq, bytes)>>, {"request_data"}, "server-to-client")
        /\ H(Data("request_data", flags, seq, bytes)).seq = seq
    BY <1>2, <1>5, <1>6, <2>1, DataTells
  <2> QED
    BY <1>1, <2>1, <2>2
<1>8. Append(down, m) = down \o <<m>>
  BY <1>3, OneMessage
<1>9. DownTells(<<m>>, {"request_data"})
  BY <1>2, <1>7, <1>8 DEF DownTells
<1>10. ServerTurn
  BY <1>2, <1>4 DEF ServerTurn
<1>11. ServerSent(m)
  BY <1>2, <1>4, <1>7, <1>9, <1>10 DEF ServerSent
<1> QED
  BY <1>11

\* The end of the public body is one end frame that names the last seq.
LEMMA ServerEnds ==
    ASSUME Shapes, PublicEnds
    PROVE  \E k : ServerEnded(k)
<1>1. PICK k, how : k = Said("request_end", BodyEnd("server")) /\ how = [how |-> "ended"]
  OBVIOUS
<1>2. /\ server \in {"waiting", "answered"} /\ fault = "none" /\ parting["server"] = Nothing
      /\ ~IsSocket /\ Parts("server", how) /\ down' = down \o k
      /\ UNCHANGED <<server, client, request, local, public, answer, sent, got, up, taken, stray, fault>>
  BY <1>1 DEF PublicEnds, ServerOpen, ends, counts
<1>3. /\ DOMAIN parting = Sides /\ "client" \in Sides /\ "server" \in Sides /\ IsSequence(down)
      /\ sent["server"] \in 0 .. MaxSent
  BY DEF Shapes, Sides
<1>4. parting'["server"] = how /\ parting'["client"] = parting["client"]
  BY <1>2, <1>3 DEF Parts
<1>5. EndType("server") = "request_end"
  BY DEF EndType
<1>6. EndsWith(k, "server", how) /\ how.how \in {"ended", "closed"}
  <2>1. PICK side, meta : side = "server" /\ meta = BodyEnd(side)
    OBVIOUS
  <2>2. /\ side \in Sides /\ sent[side] \in 0 .. MaxSent /\ k = Said(EndType(side), meta)
        /\ ~IsSocket /\ meta = BodyEnd(side) /\ how = [how |-> "ended"]
    BY <1>1, <1>2, <1>3, <1>5, <2>1
  <2>3. EndsWith(k, side, how) /\ how.how \in {"ended", "closed"}
    BY <2>2, EndSaid
  <2> QED
    BY <2>1, <2>3
<1>7. Tells(k, {"request_end"}, "server-to-client")
  <2>1. "request_end" \in MetadataTypes /\ ValidForDirection("request_end", "server-to-client")
    BY Types DEF ValidForDirection, Direction, Requests
  <2>2. Weighs(BodyEnd("server"))
    BY EndWeighs
  <2> QED
    BY <1>1, <2>1, <2>2, SaidTells
<1>8. DownTells(k, {"request_end"})
  BY <1>2, <1>7 DEF DownTells
<1>9. ServerTurn
  BY <1>2, <1>4 DEF ServerTurn
<1>10. ServerEnded(k)
  BY <1>2, <1>4, <1>6, <1>8, <1>9 DEF ServerEnded
<1> QED
  BY <1>10

\* The public close says its code and reason in one end frame.
LEMMA ServerCloses ==
    ASSUME Shapes, Parted, NEW close \in Closes, PublicCloses(close)
    PROVE  \E k : ServerEnded(k)
<1>1. PICK k, how : /\ k = Said("request_end", SocketEnd("server", close))
                    /\ how = [how |-> "closed", close |-> close]
  OBVIOUS
<1>2. /\ server = "answered" /\ fault = "none" /\ server' = "over"
      /\ IsSocket /\ Parts("server", how) /\ down' = down \o k
      /\ UNCHANGED <<client, request, local, public, answer, sent, got, up, taken, stray, fault>>
  BY <1>1 DEF PublicCloses, ends, counts
<1>3. /\ DOMAIN parting = Sides /\ "client" \in Sides /\ "server" \in Sides /\ IsSequence(down)
      /\ sent["server"] \in 0 .. MaxSent
  BY DEF Shapes, Sides
<1>4. parting'["server"] = how /\ parting'["client"] = parting["client"]
  BY <1>2, <1>3 DEF Parts
<1>5. EndType("server") = "request_end"
  BY DEF EndType
<1>6. EndsWith(k, "server", how) /\ how.how \in {"ended", "closed"}
  <2>1. PICK side, meta : side = "server" /\ meta = SocketEnd(side, close)
    OBVIOUS
  <2>2. /\ side \in Sides /\ sent[side] \in 0 .. MaxSent /\ k = Said(EndType(side), meta)
        /\ IsSocket /\ meta = SocketEnd(side, close) /\ how = [how |-> "closed", close |-> close]
    BY <1>1, <1>2, <1>3, <1>5, <2>1
  <2>3. EndsWith(k, side, how) /\ how.how \in {"ended", "closed"}
    BY <2>2, EndSaid
  <2> QED
    BY <2>1, <2>3
<1>7. Tells(k, {"request_end"}, "server-to-client")
  <2>1. "request_end" \in MetadataTypes /\ ValidForDirection("request_end", "server-to-client")
    BY Types DEF ValidForDirection, Direction, Requests
  <2>2. Weighs(SocketEnd("server", close))
    BY CloseWeighs
  <2> QED
    BY <1>1, <2>1, <2>2, SaidTells
<1>8. DownTells(k, {"request_end"})
  BY <1>2, <1>7 DEF DownTells
<1>9. ServerTurn
  BY <1>2, <1>4 DEF ServerTurn
<1>10. parting["server"] = Nothing
  BY <1>2 DEF Parted
<1>11. ServerEnded(k)
  BY <1>2, <1>4, <1>6, <1>8, <1>9, <1>10 DEF ServerEnded
<1> QED
  BY <1>11

\* A public side that breaks off sends an abort at most.
LEMMA ServerBreaks ==
    ASSUME Shapes, NEW reason \in Troubles, PublicBreaks(reason)
    PROVE  \E k : ServerBroke(k)
<1>1. PICK k, how : k = Said("request_abort", Abort(reason)) /\ how = [how |-> "aborted"]
  OBVIOUS
<1>2. /\ server \in {"waiting", "answered"} /\ fault = "none" /\ server' = "over"
      /\ Parts("server", how) /\ down' = down \o k /\ public' \in {public, BadGateway}
      /\ UNCHANGED <<client, request, local, answer, sent, got, up, taken, stray, fault>>
  BY <1>1 DEF PublicBreaks, ServerOpen, counts
<1>3. DOMAIN parting = Sides /\ "client" \in Sides /\ "server" \in Sides /\ IsSequence(down)
  BY DEF Shapes, Sides
<1>4. parting'["server"] = how /\ parting'["client"] = parting["client"]
  BY <1>2, <1>3 DEF Parts
<1>5. Tells(k, {"request_abort"}, "server-to-client")
  <2>1. "request_abort" \in MetadataTypes /\ ValidForDirection("request_abort", "server-to-client")
    BY Types DEF ValidForDirection, Direction, Requests
  <2>2. Weighs(Abort(reason))
    BY TroublesAssumption, ReasonWeighs
  <2> QED
    BY <1>1, <2>1, <2>2, SaidTells
<1>6. DownTells(k, {"request_abort"})
  BY <1>2, <1>5 DEF DownTells
<1>7. ServerTurn
  BY <1>2, <1>4 DEF ServerTurn
<1>8. parting'["server"].how = "aborted"
  BY <1>1, <1>4
<1>9. ServerBroke(k)
  BY <1>2, <1>6, <1>7, <1>8 DEF ServerBroke
<1> QED
  BY <1>9

\* The steps of the client.
LEMMA Aborts ==
    ASSUME Shapes, NEW reason, IsText(reason), NEW k, k = Said("response_abort", Abort(reason))
    PROVE  /\ Tells(k, {"response_abort"}, "client-to-server")
           /\ Tells(k, Credits \cup {"response_abort"}, "client-to-server")
           /\ Aborted(reason) => /\ client' = "over" /\ parting'["client"].how = "aborted"
                                 /\ parting'["server"] = parting["server"] /\ up' = up \o k
<1>1. PICK how : how = [how |-> "aborted"]
  OBVIOUS
<1>2. Tells(k, {"response_abort"}, "client-to-server")
  <2>1. "response_abort" \in MetadataTypes /\ ValidForDirection("response_abort", "client-to-server")
    BY Types DEF ValidForDirection, Direction, Requests, Responses
  <2>2. Weighs(Abort(reason))
    BY ReasonWeighs
  <2> QED
    BY <2>1, <2>2, SaidTells
<1>3. Tells(k, Credits \cup {"response_abort"}, "client-to-server")
  BY <1>2 DEF Tells
<1>4. ASSUME Aborted(reason)
      PROVE  /\ client' = "over" /\ parting'["client"].how = "aborted"
             /\ parting'["server"] = parting["server"] /\ up' = up \o k
  <2>1. client' = "over" /\ Parts("client", how) /\ up' = up \o k
    BY <1>1, <1>4 DEF Aborted
  <2>2. DOMAIN parting = Sides /\ "client" \in Sides /\ "server" \in Sides
    BY DEF Shapes, Sides
  <2>3. parting'["client"] = how /\ parting'["server"] = parting["server"]
    BY <2>1, <2>2 DEF Parts
  <2> QED
    BY <1>1, <2>1, <2>3
<1> QED
  BY <1>2, <1>3, <1>4

\* The client's own error is text that an abort can carry.
LEMMA OwnErrorIsText == IsText(OwnError)
<1>1. PICK n : n = 1
  OBVIOUS
<1>2. n \in Nat
  BY <1>1
<1>3. IsText(Text("refused", n, {}))
  BY <1>2, TextWeight
<1> QED
  BY <1>1, <1>3 DEF OwnError

\* The local answer is one response start, or the client aborts because the start is
\* not one it may send.
LEMMA ClientAnswers ==
    ASSUME Shapes, Started, NEW a \in Answers, LocalAnswers(a)
    PROVE  \E k : ClientAnswered(k) \/ ClientFailed(k)
<1>1. PICK k, meta, l : /\ k = Said("response_start", ResponseStart(a)) /\ meta = ResponseStart(a)
                        /\ l = Said("response_abort", Abort(OwnError))
  OBVIOUS
<1>2. /\ client = "asking" /\ fault = "none" /\ a.kind = request.kind /\ answer' = a
      /\ UNCHANGED <<server, request, local, public, sent, got, down, taken, stray, fault>>
      /\ \/ client' = "serving" /\ up' = up \o k /\ UNCHANGED parting
         \/ Aborted(OwnError)
  BY <1>1 DEF LocalAnswers, counts
<1>3. request \in Asked
  BY <1>2 DEF Started
<1>4. (IsSocket <=> a.kind = "websocket") /\ (~IsSocket <=> a.kind = "http")
  <2>1. request.kind \in {"http", "websocket"}
    BY <1>3, AskedAssumption
  <2> QED
    BY <1>2, <2>1 DEF IsSocket
<1>5. Weighs(meta)
  BY <1>1, <1>4, ResponseWeighs
<1>6. Tells(k, {"response_start"}, "client-to-server") /\ Carries(k, meta)
  <2>1. "response_start" \in MetadataTypes /\ ValidForDirection("response_start", "client-to-server")
    BY Types DEF ValidForDirection, Direction, Requests, Responses
  <2> QED
    BY <1>1, <1>5, <2>1, SaidTells
<1>7. CASE client' = "serving" /\ up' = up \o k /\ UNCHANGED parting
  <2>1. UpTells(k, {"response_start"})
    BY <1>6, <1>7 DEF UpTells
  <2>2. ClientTurn
    BY <1>2, <1>7 DEF ClientTurn
  <2>3. Carries(k, ResponseStart(answer'))
    BY <1>1, <1>2, <1>6
  <2>4. ClientAnswered(k)
    BY <1>2, <1>7, <2>1, <2>2, <2>3 DEF ClientAnswered
  <2> QED
    BY <2>4
<1>8. CASE Aborted(OwnError)
  <2>1. /\ client' = "over" /\ parting'["client"].how = "aborted"
        /\ parting'["server"] = parting["server"] /\ up' = up \o l
        /\ Tells(l, {"response_abort"}, "client-to-server")
    BY <1>1, <1>8, OwnErrorIsText, Aborts
  <2>2. UpTells(l, {"response_abort"})
    BY <2>1 DEF UpTells
  <2>3. ClientTurn
    BY <1>2, <2>1 DEF ClientTurn
  <2>4. ClientFailed(l)
    BY <1>2, <2>1, <2>2, <2>3 DEF ClientFailed
  <2> QED
    BY <2>4
<1> QED
  BY <1>2, <1>7, <1>8

\* A local failure is one abort.
LEMMA ClientFails ==
    ASSUME Shapes, NEW reason \in Troubles, LocalFails(reason)
    PROVE  \E k : ClientFailed(k)
<1>1. PICK l : l = Said("response_abort", Abort(reason))
  OBVIOUS
<1>2. /\ client \in {"asking", "serving"} /\ fault = "none" /\ Aborted(reason)
      /\ UNCHANGED <<server, request, local, public, answer, sent, got, down, taken, stray, fault>>
  BY DEF LocalFails, ends, counts
<1>3. IsText(reason)
  BY TroublesAssumption
<1>4. /\ client' = "over" /\ parting'["client"].how = "aborted"
      /\ parting'["server"] = parting["server"] /\ up' = up \o l
      /\ Tells(l, {"response_abort"}, "client-to-server")
  BY <1>1, <1>2, <1>3, Aborts
<1>5. UpTells(l, {"response_abort"})
  BY <1>4 DEF UpTells
<1>6. ClientTurn
  BY <1>2, <1>4 DEF ClientTurn
<1>7. ClientFailed(l)
  BY <1>2, <1>4, <1>5, <1>6 DEF ClientFailed
<1> QED
  BY <1>7

\* A chunk of the local body is one data frame, numbered with the next seq.
LEMMA ClientSends ==
    ASSUME Shapes, NEW bytes \in Sizes, NEW flags, LocalSends(bytes, flags)
    PROVE  \E m : ClientSent(m)
<1>1. PICK m : m = Data("response_data", flags, sent["client"], bytes)
  OBVIOUS
<1>2. /\ client = "serving" /\ fault = "none"
      /\ sent["client"] < MaxSent /\ flags \in OwnFlags /\ up' = Append(up, m)
      /\ sent' = [sent EXCEPT !["client"] = @ + 1]
      /\ UNCHANGED <<server, client, request, local, public, answer, got, parting, down, taken, stray, fault>>
  BY <1>1 DEF LocalSends, Serving, ends
<1>3. /\ sent \in [Sides -> 0 .. MaxSent] /\ "client" \in Sides /\ "server" \in Sides /\ IsSequence(up)
  BY DEF Shapes, Sides
<1>4. sent'["server"] = sent["server"] /\ sent'["client"] = sent["client"] + 1
  BY <1>2, <1>3
<1>5. "response_data" \in DataTypes /\ ValidForDirection("response_data", "client-to-server")
  BY Types DEF ValidForDirection, Direction, Requests, Responses
<1>6. sent["client"] \in 0 .. MaxSent
  BY <1>3
<1>7. Tells(<<m>>, {"response_data"}, "client-to-server") /\ H(m).seq = sent["client"]
  <2>1. PICK seq : seq = sent["client"]
    OBVIOUS
  <2>2. /\ Tells(<<Data("response_data", flags, seq, bytes)>>, {"response_data"}, "client-to-server")
        /\ H(Data("response_data", flags, seq, bytes)).seq = seq
    BY <1>2, <1>5, <1>6, <2>1, DataTells
  <2> QED
    BY <1>1, <2>1, <2>2
<1>8. Append(up, m) = up \o <<m>>
  BY <1>3, OneMessage
<1>9. UpTells(<<m>>, {"response_data"})
  BY <1>2, <1>7, <1>8 DEF UpTells
<1>10. ClientTurn
  BY <1>2, <1>4 DEF ClientTurn
<1>11. ClientSent(m)
  BY <1>2, <1>4, <1>7, <1>9, <1>10 DEF ClientSent
<1> QED
  BY <1>11

\* The end of the local body or the local close is one end frame with the last seq.
LEMMA ClientEnds ==
    ASSUME Shapes, LocalEnds \/ \E close \in Closes : LocalCloses(close)
    PROVE  \E k : ClientEnded(k)
<1>1. PICK meta, how :
          /\ client = "serving" /\ fault = "none" /\ client' = "over" /\ Parts("client", how)
          /\ up' = up \o Said("response_end", meta)
          /\ UNCHANGED <<server, request, local, public, answer, sent, got, down, taken, stray, fault>>
          /\ \/ ~IsSocket /\ meta = BodyEnd("client") /\ how = [how |-> "ended"]
             \/ IsSocket /\ \E close \in Closes : /\ meta = SocketEnd("client", close)
                                                  /\ how = [how |-> "closed", close |-> close]
  BY DEF LocalEnds, LocalCloses, Serving, ends, counts
<1>2. PICK k : k = Said("response_end", meta)
  OBVIOUS
<1>3. /\ DOMAIN parting = Sides /\ "client" \in Sides /\ "server" \in Sides /\ IsSequence(up)
      /\ sent["client"] \in 0 .. MaxSent
  BY DEF Shapes, Sides
<1>4. parting'["client"] = how /\ parting'["server"] = parting["server"]
  BY <1>1, <1>3 DEF Parts
<1>5. EndType("client") = "response_end"
  BY DEF EndType
<1>6. EndsWith(k, "client", how) /\ how.how \in {"ended", "closed"}
  <2>1. PICK side : side = "client"
    OBVIOUS
  <2>2. /\ side \in Sides /\ sent[side] \in 0 .. MaxSent /\ k = Said(EndType(side), meta)
        /\ \/ ~IsSocket /\ meta = BodyEnd(side) /\ how = [how |-> "ended"]
           \/ IsSocket /\ \E close \in Closes : /\ meta = SocketEnd(side, close)
                                                /\ how = [how |-> "closed", close |-> close]
    BY <1>1, <1>2, <1>3, <1>5, <2>1
  <2>3. EndsWith(k, side, how) /\ how.how \in {"ended", "closed"}
    BY <2>2, EndSaid
  <2> QED
    BY <2>1, <2>3
<1>7. Tells(k, {"response_end"}, "client-to-server")
  <2>1. "response_end" \in MetadataTypes /\ ValidForDirection("response_end", "client-to-server")
    BY Types DEF ValidForDirection, Direction, Requests, Responses
  <2>2. Weighs(meta)
    BY <1>1, EndWeighs, CloseWeighs
  <2> QED
    BY <1>2, <2>1, <2>2, SaidTells
<1>8. UpTells(k, {"response_end"})
  BY <1>1, <1>2, <1>7 DEF UpTells
<1>9. ClientTurn
  BY <1>1, <1>4 DEF ClientTurn
<1>10. ClientEnded(k)
  BY <1>1, <1>4, <1>6, <1>8, <1>9 DEF ClientEnded
<1> QED
  BY <1>10

\* What a side takes.
LEMMA AcceptedTypes ==
    ASSUME NEW m
    PROVE  /\ Accepted(m, "server-to-client") =>
                  Type(m) \in {"request_start", "request_data", "request_end", "request_abort"} \cup Credits
           /\ Accepted(m, "client-to-server") =>
                  Type(m) \in {"response_start", "response_data", "response_end", "response_abort"} \cup Credits
           /\ \A d : Accepted(m, d) => Readable(m.bytes, m.payload, MaxFrame) /\ Type(m) \in FrameTypes
<1>1. ASSUME NEW d, Accepted(m, d)
      PROVE  Readable(m.bytes, m.payload, MaxFrame) /\ Type(m) \in FrameTypes
  BY <1>1 DEF Accepted, Readable, ValidFor, ValidHeader, Type
<1>2. ASSUME Accepted(m, "server-to-client")
      PROVE  Type(m) \in {"request_start", "request_data", "request_end", "request_abort"} \cup Credits
  <2>1. Type(m) \in FrameTypes /\ ValidForDirection(Type(m), "server-to-client")
    BY <1>1, <1>2 DEF Accepted
  <2>2. Type(m) \in FrameTypes /\ Type(m) \notin Responses
    BY <2>1, Types
  <2> QED
    BY <2>2, Types DEF Responses
<1>3. ASSUME Accepted(m, "client-to-server")
      PROVE  Type(m) \in {"response_start", "response_data", "response_end", "response_abort"} \cup Credits
  <2>1. Type(m) \in FrameTypes /\ ValidForDirection(Type(m), "client-to-server")
    BY <1>1, <1>3 DEF Accepted
  <2>2. Type(m) \in FrameTypes /\ Type(m) \notin Requests
    BY <2>1, Types
  <2> QED
    BY <2>2, Types DEF Requests
<1> QED
  BY <1>1, <1>2, <1>3

\* A frame of the stream that does not fail the client's connection is one the client
\* expects at this point.
LEMMA ClientAccepts ==
    ASSUME NEW m, ~ClientFaults(m), OfStream(m), Type(m) \notin Credits, client # "over"
    PROVE  \/ Type(m) = "request_start" /\ Understood(m) /\ client = "none"
           \/ Type(m) = "request_data" /\ client # "none" /\ InTurn("client", m)
           \/ Type(m) = "request_end" /\ client # "none" /\ EndsInTurn("client", "server", m)
           \/ Type(m) = "request_abort" /\ client # "none" /\ Understood(m)
<1>1. Type(m) \in {"request_start", "request_data", "request_end", "request_abort"}
  <2>1. Accepted(m, "server-to-client")
    BY DEF ClientFaults
  <2> QED
    BY <2>1, AcceptedTypes
<1>2. IF Type(m) = "request_start" THEN ~(~Understood(m) \/ (OfStream(m) /\ client # "none"))
      ELSE /\ OfStream(m) /\ client # "none"
           /\ ~(CASE Type(m) = "request_data" -> ~InTurn("client", m)
                  [] Type(m) = "request_end" -> ~EndsInTurn("client", "server", m)
                  [] OTHER -> ~Understood(m))
  BY DEF ClientFaults
<1>3. CASE Type(m) = "request_start"
  BY <1>2, <1>3
<1>4. ASSUME Type(m) # "request_start" PROVE client # "none"
  BY <1>2, <1>4
<1>5. CASE Type(m) = "request_data"
  BY <1>2, <1>4, <1>5
<1>6. CASE Type(m) = "request_end"
  BY <1>2, <1>4, <1>6
<1>7. CASE Type(m) = "request_abort"
  BY <1>2, <1>4, <1>7
<1> QED
  BY <1>1, <1>3, <1>5, <1>6, <1>7

\* The same of the server.
LEMMA ServerAccepts ==
    ASSUME NEW m, ~ServerFaults(m), OfStream(m), Type(m) \notin Credits, server # "over"
    PROVE  /\ server # "none"
           /\ \/ Type(m) = "response_start" /\ Understood(m)
              \/ Type(m) = "response_data" /\ InTurn("server", m)
              \/ Type(m) = "response_end" /\ EndsInTurn("server", "client", m)
              \/ Type(m) = "response_abort" /\ Understood(m)
<1>1. Type(m) \in {"response_start", "response_data", "response_end", "response_abort"}
  <2>1. Accepted(m, "client-to-server")
    BY DEF ServerFaults
  <2> QED
    BY <2>1, AcceptedTypes
<1>2. /\ OfStream(m) /\ server # "none"
      /\ ~(CASE Type(m) = "response_data" -> ~InTurn("server", m)
             [] Type(m) = "response_end" -> ~EndsInTurn("server", "client", m)
             [] OTHER -> ~Understood(m))
  BY DEF ServerFaults
<1>3. server # "none"
  BY <1>2
<1>4. CASE Type(m) = "response_data"
  BY <1>2, <1>3, <1>4
<1>5. CASE Type(m) = "response_end"
  BY <1>2, <1>3, <1>5
<1>6. CASE Type(m) \in {"response_start", "response_abort"}
  BY <1>2, <1>3, <1>6
<1> QED
  BY <1>1, <1>3, <1>4, <1>5, <1>6

\* The client reads.
LEMMA ClientReadsDo ==
    ASSUME Shapes, ClientReceives
    PROVE  ClientReading
<1>1. PICK m : m = Head(down)
  OBVIOUS
<1>2. /\ down # <<>> /\ fault = "none" /\ down' = Tail(down)
      /\ UNCHANGED <<server, request, public, answer, sent, stray>>
      /\ IF ClientFaults(m) THEN fault' = "client" /\ LeavesClient /\ UNCHANGED taken
         ELSE taken' = m.bytes /\ ClientReads(m) /\ UNCHANGED fault
  BY <1>1 DEF ClientReceives
<1>3. /\ DOMAIN parting = Sides /\ "client" \in Sides /\ "server" \in Sides
      /\ got \in [Sides -> Nat]
      /\ client \in {"none", "asking", "serving", "over"}
  BY DEF Shapes, Sides
<1>4. CASE ClientFaults(m)
  <2>1. fault' = "client" /\ UNCHANGED <<client, local, got, parting, up, taken>>
    BY <1>2, <1>4 DEF LeavesClient
  <2>2. ClientRead(m)
    BY <1>1, <1>2, <2>1 DEF ClientRead
  <2>3. ClientFaulted(m)
    BY <1>4, <2>1, <2>2 DEF ClientFaulted
  <2> QED
    BY <2>3 DEF ClientReading
<1>5. CASE ~ClientFaults(m)
  <2>1. taken' = m.bytes /\ ClientReads(m) /\ fault' = fault
    BY <1>2, <1>5
  <2>2. ASSUME parting'["server"] = parting["server"] PROVE ClientTook(m)
    <3>1. ClientRead(m)
      BY <1>1, <1>2, <2>2 DEF ClientRead
    <3> QED
      BY <1>5, <2>1, <3>1 DEF ClientTook
  <2>3. CASE ~OfStream(m) \/ Type(m) \in Credits \/ client = "over"
    <3>1. UNCHANGED <<client, local, got, parting, up>>
      BY <2>1, <2>3 DEF ClientReads, LeavesClient
    <3>2. ClientTook(m)
      BY <2>2, <3>1
    <3>3. ClientLeft(m)
      BY <2>3, <3>1, <3>2 DEF ClientLeft
    <3> QED
      BY <3>3 DEF ClientReading
  <2>4. CASE OfStream(m) /\ Type(m) \notin Credits /\ client # "over"
    <3>1. \/ Type(m) = "request_start" /\ Understood(m) /\ client = "none"
          \/ Type(m) = "request_data" /\ client # "none" /\ InTurn("client", m)
          \/ Type(m) = "request_end" /\ client # "none" /\ EndsInTurn("client", "server", m)
          \/ Type(m) = "request_abort" /\ client # "none" /\ Understood(m)
      BY <1>5, <2>4, ClientAccepts
    <3>2. CASE Type(m) = "request_start"
      <4>1. AsksLocal(m)
        BY <2>1, <2>4, <3>2 DEF ClientReads
      <4>2. client = "none"
        BY <3>1, <3>2
      <4>3. ClientTook(m)
        <5>1. UNCHANGED parting
          BY <4>1 DEF AsksLocal
        <5> QED
          BY <2>2, <5>1
      <4>4. ClientAsked(m)
        BY <2>4, <3>2, <4>1, <4>2, <4>3 DEF AsksLocal, ClientAsked
      <4> QED
        BY <4>4 DEF ClientReading
    <3>3. CASE Type(m) = "request_data"
      <4>1. TakesData(m)
        BY <2>1, <2>4, <3>3 DEF ClientReads
      <4>2. client \in {"asking", "serving"} /\ InTurn("client", m)
        BY <1>3, <2>4, <3>1, <3>3
      <4>3. /\ got'["client"] = got["client"] + 1 /\ got'["server"] = got["server"] /\ UNCHANGED local
        <5>1. got' = [got EXCEPT !["client"] = @ + 1] /\ UNCHANGED local
          BY <4>1 DEF TakesData, Counts
        <5> QED
          BY <1>3, <5>1
      <4>4. CASE m.payload.bytes = 0
        <5>1. PICK k : k = Said("response_abort", Abort(OwnError))
          OBVIOUS
        <5>2. Aborted(OwnError)
          BY <4>1, <4>4 DEF TakesData
        <5>3. /\ client' = "over" /\ parting'["client"].how = "aborted"
              /\ parting'["server"] = parting["server"] /\ up' = up \o k
              /\ Tells(k, Credits \cup {"response_abort"}, "client-to-server")
          BY <5>1, <5>2, OwnErrorIsText, Aborts
        <5>4. UpTells(k, Credits \cup {"response_abort"})
          BY <5>3 DEF UpTells
        <5>5. ClientTook(m)
          BY <2>2, <5>3
        <5>6. ClientCounted(m, k)
          BY <2>4, <3>3, <4>2, <4>3, <5>3, <5>4, <5>5 DEF ClientCounted
        <5> QED
          BY <5>6 DEF ClientReading
      <4>5. CASE m.payload.bytes # 0
        <5>1. PICK bytes, k : bytes = m.payload.bytes /\ k = Grants("server", bytes)
          OBVIOUS
        <5>2. up' = up \o k /\ UNCHANGED <<client, parting>>
          BY <4>1, <4>5, <5>1 DEF TakesData
        <5>3. Tells(k, Credits, "client-to-server")
          BY <5>1, GrantsTell
        <5>4. UpTells(k, Credits \cup {"response_abort"})
          BY <5>2, <5>3 DEF UpTells, Tells
        <5>5. ClientTook(m)
          BY <2>2, <5>2
        <5>6. ClientCounted(m, k)
          BY <2>4, <3>3, <4>2, <4>3, <5>2, <5>4, <5>5 DEF ClientCounted
        <5> QED
          BY <5>6 DEF ClientReading
      <4> QED
        BY <4>4, <4>5
    <3>4. CASE Type(m) = "request_end"
      <4>1. TakesRequestEnd(m)
        BY <2>1, <2>4, <3>4 DEF ClientReads
      <4>2. client \in {"asking", "serving"} /\ EndsInTurn("client", "server", m)
        BY <1>3, <2>4, <3>1, <3>4
      <4>3. /\ local' = [local EXCEPT !.ended = m.payload.json]
            /\ UNCHANGED <<client, got, parting, up>>
        BY <4>1 DEF TakesRequestEnd
      <4>4. ClientTook(m)
        BY <2>2, <4>3
      <4>5. ClientHeard(m)
        BY <2>4, <3>4, <4>2, <4>3, <4>4 DEF ClientHeard
      <4> QED
        BY <4>5 DEF ClientReading
    <3>5. CASE Type(m) = "request_abort"
      <4>1. TakesAbort
        BY <2>1, <2>4, <3>5 DEF ClientReads
      <4>2. client \in {"asking", "serving"}
        BY <1>3, <2>4, <3>1, <3>5
      <4>3. /\ client' = "over" /\ parting'["client"].how = "told"
            /\ parting'["server"] = parting["server"] /\ UNCHANGED <<local, got, up>>
        BY <1>3, <4>1 DEF TakesAbort, Parts
      <4>4. ClientTook(m)
        BY <2>2, <4>3
      <4>5. ClientTold(m)
        BY <2>4, <3>5, <4>2, <4>3, <4>4 DEF ClientTold
      <4> QED
        BY <4>5 DEF ClientReading
    <3> QED
      BY <3>1, <3>2, <3>3, <3>4, <3>5
  <2> QED
    BY <2>3, <2>4
<1> QED
  BY <1>4, <1>5

\* The server reads.
LEMMA ServerReadsDo ==
    ASSUME Shapes, ServerReceives
    PROVE  ServerReading
<1>1. PICK m : m = Head(up)
  OBVIOUS
<1>2. /\ up # <<>> /\ fault = "none" /\ up' = Tail(up)
      /\ UNCHANGED <<client, request, local, answer, sent, stray>>
      /\ IF ServerFaults(m) THEN fault' = "server" /\ LeavesServer /\ UNCHANGED taken
         ELSE taken' = m.bytes /\ ServerReads(m) /\ UNCHANGED fault
  BY <1>1 DEF ServerReceives
<1>3. /\ DOMAIN parting = Sides /\ "client" \in Sides /\ "server" \in Sides
      /\ got \in [Sides -> Nat]
      /\ server \in {"none", "waiting", "answered", "over"}
  BY DEF Shapes, Sides
<1>4. CASE ServerFaults(m)
  <2>1. fault' = "server" /\ UNCHANGED <<server, public, got, parting, down, taken>>
    BY <1>2, <1>4 DEF LeavesServer
  <2>2. ServerRead(m)
    BY <1>1, <1>2, <2>1 DEF ServerRead
  <2>3. ServerFaulted(m)
    BY <1>4, <2>1, <2>2 DEF ServerFaulted
  <2> QED
    BY <2>3 DEF ServerReading
<1>5. CASE ~ServerFaults(m)
  <2>1. taken' = m.bytes /\ ServerReads(m) /\ fault' = fault
    BY <1>2, <1>5
  <2>2. ASSUME parting'["client"] = parting["client"] PROVE ServerTook(m)
    <3>1. ServerRead(m)
      BY <1>1, <1>2, <2>2 DEF ServerRead
    <3> QED
      BY <1>5, <2>1, <3>1 DEF ServerTook
  <2>3. CASE ~OfStream(m) \/ Type(m) \in Credits \/ server = "over"
    <3>1. UNCHANGED <<server, public, got, parting, down>>
      BY <2>1, <2>3 DEF ServerReads, LeavesServer
    <3>2. ServerTook(m)
      BY <2>2, <3>1
    <3>3. ServerLeft(m)
      BY <2>3, <3>1, <3>2 DEF ServerLeft
    <3> QED
      BY <3>3 DEF ServerReading
  <2>4. CASE OfStream(m) /\ Type(m) \notin Credits /\ server # "over"
    <3>1. /\ server # "none"
          /\ \/ Type(m) = "response_start" /\ Understood(m)
             \/ Type(m) = "response_data" /\ InTurn("server", m)
             \/ Type(m) = "response_end" /\ EndsInTurn("server", "client", m)
             \/ Type(m) = "response_abort" /\ Understood(m)
      BY <1>5, <2>4, ServerAccepts
    <3>s. server \in {"waiting", "answered"}
      BY <1>3, <2>4, <3>1
    <3>2. CASE Type(m) = "response_start"
      <4>1. TakesStart(m) /\ UNCHANGED <<got, down>>
        BY <2>1, <2>4, <3>2 DEF ServerReads
      <4>2. CASE server # "waiting"
        <5>1. UNCHANGED <<server, public, parting>>
          BY <4>1, <4>2 DEF TakesStart
        <5>2. ServerTook(m)
          BY <2>2, <5>1
        <5>3. ServerLeft(m)
          BY <3>1, <3>2, <4>1, <5>1, <5>2 DEF ServerLeft
        <5> QED
          BY <5>3 DEF ServerReading
      <4>3. CASE server = "waiting" /\ ~Passable(m.payload.json)
        <5>1. server' = "over" /\ public' = BadGateway /\ Parts("server", [how |-> "silent"])
          BY <4>1, <4>3 DEF TakesStart
        <5>2. parting'["server"].how = "silent" /\ parting'["client"] = parting["client"]
          BY <1>3, <5>1 DEF Parts
        <5>3. ServerTook(m)
          BY <2>2, <5>2
        <5>4. ServerTold(m)
          BY <2>4, <3>s, <3>2, <4>1, <5>1, <5>2, <5>3 DEF ServerTold
        <5> QED
          BY <5>4 DEF ServerReading
      <4>4. CASE server = "waiting" /\ Passable(m.payload.json)
        <5>1. /\ public' = [by |-> "local", status |-> m.payload.json["status"], ended |-> Undefined,
                            headers |-> FilterResponse(m.payload.json["headers"].items)]
              /\ server' \in {"answered", "over"} /\ UNCHANGED parting
          BY <4>1, <4>4 DEF TakesStart
        <5>2. ServerTook(m)
          BY <2>2, <5>1
        <5>3. ServerAnswered(m)
          BY <2>4, <3>2, <4>1, <4>4, <5>1, <5>2 DEF ServerAnswered
        <5> QED
          BY <5>3 DEF ServerReading
      <4> QED
        BY <4>2, <4>3, <4>4
    <3>3. CASE Type(m) = "response_data"
      <4>1. PICK bytes, k : bytes = m.payload.bytes /\ k = Grants("client", bytes)
        OBVIOUS
      <4>2. Counts("server") /\ down' = down \o k /\ UNCHANGED <<server, public, parting>>
        BY <2>1, <2>4, <3>3, <4>1 DEF ServerReads
      <4>3. got'["server"] = got["server"] + 1 /\ got'["client"] = got["client"]
        BY <1>3, <4>2 DEF Counts
      <4>4. Tells(k, Credits, "server-to-client")
        BY <4>1, GrantsTell
      <4>5. DownTells(k, Credits)
        BY <4>2, <4>4 DEF DownTells
      <4>6. ServerTook(m)
        BY <2>2, <4>2
      <4>7. InTurn("server", m)
        BY <3>1, <3>3
      <4>8. ServerCounted(m, k)
        BY <2>4, <3>s, <3>3, <4>2, <4>3, <4>5, <4>6, <4>7 DEF ServerCounted
      <4> QED
        BY <4>8 DEF ServerReading
    <3>4. CASE Type(m) = "response_end"
      <4>1. TakesResponseEnd(m) /\ UNCHANGED <<got, down>>
        BY <2>1, <2>4, <3>4 DEF ServerReads
      <4>2. EndsInTurn("server", "client", m)
        BY <3>1, <3>4
      <4>3. /\ server' = "over" /\ UNCHANGED parting
            /\ public' = IF server = "answered" THEN [public EXCEPT !.ended = m.payload.json] ELSE public
        BY <4>1 DEF TakesResponseEnd
      <4>4. ServerTook(m)
        BY <2>2, <4>3
      <4>5. ServerHeard(m)
        BY <2>4, <3>s, <3>4, <4>1, <4>2, <4>3, <4>4 DEF ServerHeard
      <4> QED
        BY <4>5 DEF ServerReading
    <3>5. CASE Type(m) = "response_abort"
      <4>1. TakesResponseAbort /\ UNCHANGED <<got, down>>
        BY <2>1, <2>4, <3>5 DEF ServerReads
      <4>2. /\ server' = "over" /\ parting'["server"].how = "told" /\ public' \in {public, BadGateway}
            /\ parting'["client"] = parting["client"]
        BY <1>3, <4>1 DEF TakesResponseAbort, Parts
      <4>3. ServerTook(m)
        BY <2>2, <4>2
      <4>4. ServerTold(m)
        BY <2>4, <3>s, <3>5, <4>1, <4>2, <4>3 DEF ServerTold
      <4> QED
        BY <4>4 DEF ServerReading
    <3> QED
      BY <3>1, <3>2, <3>3, <3>4, <3>5
  <2> QED
    BY <2>3, <2>4
<1> QED
  BY <1>4, <1>5

\* Every step is one of these.
LEMMA Steps ==
    ASSUME Shapes, Started, Parted, Next
    PROVE  ServerStep \/ ClientStep \/ ClientReading \/ ServerReading \/ \E m : Strayed(m)
<1>1. ASSUME NEW r \in Asked, PublicRequest(r) PROVE ServerStep
  <2>1. Opened(r)
    BY <1>1, Opens
  <2> QED
    BY <2>1 DEF ServerStep
<1>2. ASSUME NEW bytes \in Sizes, NEW flags, PublicSends(bytes, flags) PROVE ServerStep
  <2>1. PICK m : ServerSent(m)
    BY <1>2, ServerSends
  <2> QED
    BY <2>1 DEF ServerStep
<1>3. ASSUME NEW bytes \in Sizes, NEW flags, LocalSends(bytes, flags) PROVE ClientStep
  <2>1. PICK m : ClientSent(m)
    BY <1>3, ClientSends
  <2> QED
    BY <2>1 DEF ClientStep
<1>4. ASSUME PublicEnds \/ \E close \in Closes : PublicCloses(close) PROVE ServerStep
  <2>1. PICK k : ServerEnded(k)
    BY <1>4, ServerEnds, ServerCloses
  <2> QED
    BY <2>1 DEF ServerStep
<1>5. ASSUME LocalEnds \/ \E close \in Closes : LocalCloses(close) PROVE ClientStep
  <2>1. PICK k : ClientEnded(k)
    BY <1>5, ClientEnds
  <2> QED
    BY <2>1 DEF ClientStep
<1>6. ASSUME NEW reason \in Troubles, PublicBreaks(reason) PROVE ServerStep
  <2>1. PICK k : ServerBroke(k)
    BY <1>6, ServerBreaks
  <2> QED
    BY <2>1 DEF ServerStep
<1>7. ASSUME NEW reason \in Troubles, LocalFails(reason) PROVE ClientStep
  <2>1. PICK k : ClientFailed(k)
    BY <1>7, ClientFails
  <2> QED
    BY <2>1 DEF ClientStep
<1>8. ASSUME NEW a \in Answers, LocalAnswers(a) PROVE ClientStep
  <2>1. PICK k : ClientAnswered(k) \/ ClientFailed(k)
    BY <1>8, ClientAnswers
  <2> QED
    BY <2>1 DEF ClientStep
<1>9. ASSUME NEW m \in Strays, StrayTurnsUp(m) PROVE Strayed(m)
  BY <1>9 DEF StrayTurnsUp, Strayed, ends, counts
<1>10. CASE ClientReceives
  BY <1>10, ClientReadsDo
<1>11. CASE ServerReceives
  BY <1>11, ServerReadsDo
<1> QED
  BY <1>1, <1>2, <1>3, <1>4, <1>5, <1>6, <1>7, <1>8, <1>9, <1>10, <1>11 DEF Next

-----------------------------------------------------------------------------
(* The invariant holds after every step, part by part.                         *)

\* What the variables range over.
CountersMove ==
    /\ sent' = sent \/ \E side \in Sides : sent[side] < MaxSent /\ sent' = [sent EXCEPT ![side] = @ + 1]
    /\ got' = got \/ \E side \in Sides : Counts(side)
    /\ parting' = parting \/ \E side \in Sides : \E how : Parts(side, how)

\* Each step counts what it sends and reads as `CountersMove` says.
LEMMA Moves ==
    ASSUME Next
    PROVE  CountersMove
<1>s. "server" \in Sides /\ "client" \in Sides
  BY DEF Sides
<1>1. ASSUME NEW r \in Asked, PublicRequest(r) PROVE CountersMove
  <2>1. sent' = sent /\ got' = got /\ (parting' = parting \/ Parts("server", [how |-> "refused"]))
    BY <1>1 DEF PublicRequest, counts
  <2> QED
    BY <1>s, <2>1 DEF CountersMove
<1>2. ASSUME NEW bytes \in Sizes, NEW flags, PublicSends(bytes, flags) PROVE CountersMove
  BY <1>s, <1>2 DEF PublicSends, CountersMove
<1>3. ASSUME NEW bytes \in Sizes, NEW flags, LocalSends(bytes, flags) PROVE CountersMove
  BY <1>s, <1>3 DEF LocalSends, CountersMove
<1>4. CASE PublicEnds
  <2>1. sent' = sent /\ got' = got /\ Parts("server", [how |-> "ended"])
    BY <1>4 DEF PublicEnds, counts
  <2> QED
    BY <1>s, <2>1 DEF CountersMove
<1>5. CASE LocalEnds
  <2>1. sent' = sent /\ got' = got /\ Parts("client", [how |-> "ended"])
    BY <1>5 DEF LocalEnds, counts
  <2> QED
    BY <1>s, <2>1 DEF CountersMove
<1>6. ASSUME NEW close \in Closes, PublicCloses(close) PROVE CountersMove
  <2>1. sent' = sent /\ got' = got /\ Parts("server", [how |-> "closed", close |-> close])
    BY <1>6 DEF PublicCloses, counts
  <2> QED
    BY <1>s, <2>1 DEF CountersMove
<1>7. ASSUME NEW close \in Closes, LocalCloses(close) PROVE CountersMove
  <2>1. sent' = sent /\ got' = got /\ Parts("client", [how |-> "closed", close |-> close])
    BY <1>7 DEF LocalCloses, counts
  <2> QED
    BY <1>s, <2>1 DEF CountersMove
<1>8. ASSUME NEW reason \in Troubles, PublicBreaks(reason) PROVE CountersMove
  <2>1. sent' = sent /\ got' = got /\ Parts("server", [how |-> "aborted"])
    BY <1>8 DEF PublicBreaks, counts
  <2> QED
    BY <1>s, <2>1 DEF CountersMove
<1>9. ASSUME NEW reason \in Troubles, LocalFails(reason) PROVE CountersMove
  <2>1. sent' = sent /\ got' = got /\ Parts("client", [how |-> "aborted"])
    BY <1>9 DEF LocalFails, Aborted, counts
  <2> QED
    BY <1>s, <2>1 DEF CountersMove
<1>10. ASSUME NEW a \in Answers, LocalAnswers(a) PROVE CountersMove
  <2>1. sent' = sent /\ got' = got /\ (parting' = parting \/ Parts("client", [how |-> "aborted"]))
    BY <1>10 DEF LocalAnswers, Aborted, counts
  <2> QED
    BY <1>s, <2>1 DEF CountersMove
<1>11. CASE ClientReceives
  <2>1. PICK m : m = Head(down)
    OBVIOUS
  <2>2. sent' = sent /\ (LeavesClient \/ ClientReads(m))
    BY <1>11, <2>1 DEF ClientReceives
  <2>3. \/ LeavesClient \/ AsksLocal(m) \/ TakesData(m) \/ TakesRequestEnd(m) \/ TakesAbort
        \/ UNCHANGED <<got, parting>>
    <3>1. CASE LeavesClient
      BY <3>1
    <3>2. CASE ClientReads(m) /\ ~LeavesClient
      <4>1. Type(m) \in {"request_start", "request_data", "request_end", "request_abort"}
        <5>1. ~ClientFaults(m) /\ ~(~OfStream(m) \/ Type(m) \in Credits \/ client = "over")
          BY <1>11, <2>1, <3>2 DEF ClientReceives, ClientReads
        <5>2. Accepted(m, "server-to-client")
          BY <5>1 DEF ClientFaults
        <5> QED
          BY <5>1, <5>2, AcceptedTypes
      <4> QED
        BY <3>2, <4>1 DEF ClientReads
    <3> QED
      BY <2>2, <3>1, <3>2
  <2>4. (got' = got \/ Counts("client")) /\ (parting' = parting \/ \E how : Parts("client", how))
    BY <2>3 DEF LeavesClient, AsksLocal, TakesData, TakesRequestEnd, TakesAbort, Aborted
  <2> QED
    BY <1>s, <2>2, <2>4 DEF CountersMove
<1>12. CASE ServerReceives
  <2>1. PICK m : m = Head(up)
    OBVIOUS
  <2>2. sent' = sent /\ (LeavesServer \/ ServerReads(m))
    BY <1>12, <2>1 DEF ServerReceives
  <2>3. (got' = got \/ Counts("server")) /\ (parting' = parting \/ \E how : Parts("server", how))
    <3>1. CASE LeavesServer
      BY <3>1 DEF LeavesServer
    <3>2. CASE ServerReads(m) /\ ~LeavesServer
      <4>1. Type(m) \in {"response_start", "response_data", "response_end", "response_abort"}
        <5>1. ~ServerFaults(m) /\ ~(~OfStream(m) \/ Type(m) \in Credits \/ server = "over")
          BY <1>12, <2>1, <3>2 DEF ServerReceives, ServerReads
        <5>2. Accepted(m, "client-to-server")
          BY <5>1 DEF ServerFaults
        <5> QED
          BY <5>1, <5>2, AcceptedTypes
      <4>2. CASE Type(m) = "response_data"
        BY <3>2, <4>2 DEF ServerReads
      <4>3. CASE Type(m) # "response_data"
        <5>1. (TakesStart(m) \/ TakesResponseEnd(m) \/ TakesResponseAbort) /\ got' = got
          BY <3>2, <4>1, <4>3 DEF ServerReads
        <5> QED
          BY <5>1 DEF TakesStart, TakesResponseEnd, TakesResponseAbort
      <4> QED
        BY <4>2, <4>3
    <3> QED
      BY <2>2, <3>1, <3>2
  <2> QED
    BY <1>s, <2>2, <2>3 DEF CountersMove
<1>13. ASSUME NEW m \in Strays, StrayTurnsUp(m) PROVE CountersMove
  BY <1>13 DEF StrayTurnsUp, counts, CountersMove
<1> QED
  BY <1>1, <1>2, <1>3, <1>4, <1>5, <1>6, <1>7, <1>8, <1>9, <1>10, <1>11, <1>12, <1>13 DEF Next

\* The counters stay numbers within their bounds.
LEMMA CountersKeep ==
    ASSUME Shapes, CountersMove
    PROVE  sent' \in [Sides -> 0 .. MaxSent] /\ got' \in [Sides -> Nat] /\ DOMAIN parting' = Sides
<1>1. sent \in [Sides -> 0 .. MaxSent] /\ got \in [Sides -> Nat] /\ DOMAIN parting = Sides
      /\ MaxSent \in Nat
  BY LimitsAssumption DEF Shapes
<1>2. sent' \in [Sides -> 0 .. MaxSent]
  <2>1. CASE sent' = sent
    BY <1>1, <2>1
  <2>2. CASE \E side \in Sides : sent[side] < MaxSent /\ sent' = [sent EXCEPT ![side] = @ + 1]
    <3>1. PICK side \in Sides : sent[side] < MaxSent /\ sent' = [sent EXCEPT ![side] = @ + 1]
      BY <2>2
    <3>2. sent[side] + 1 \in 0 .. MaxSent
      BY <1>1, <3>1
    <3> QED
      BY <1>1, <3>1, <3>2
  <2> QED
    BY <2>1, <2>2 DEF CountersMove
<1>3. got' \in [Sides -> Nat]
  BY <1>1 DEF CountersMove, Counts
<1>4. DOMAIN parting' = Sides
  BY <1>1 DEF CountersMove, Parts
<1> QED
  BY <1>2, <1>3, <1>4

\* The links stay sequences of messages of bytes.
LEMMA LinkKeeps ==
    ASSUME NEW l, IsSequence(l), \A m \in Range(l) : m.bytes \in Seq(0 .. Byte - 1),
           NEW l2,
           \/ l2 = l
           \/ l # << >> /\ l2 = Tail(l)
           \/ \E k, types, direction : Tells(k, types, direction) /\ l2 = l \o k
           \/ \E m : m.bytes \in Seq(0 .. Byte - 1) /\ l2 = <<m>>
    PROVE  IsSequence(l2) /\ \A m \in Range(l2) : m.bytes \in Seq(0 .. Byte - 1)
<1>1. CASE l2 = l
  BY <1>1
<1>2. CASE l # << >> /\ l2 = Tail(l)
  <2>1. Left(l2, l)
    BY <1>2, TailOf
  <2>2. IsSequence(l2) /\ Range(l2) \subseteq Range(l)
    BY <2>1 DEF Left
  <2> QED
    BY <2>2
<1>3. CASE \E k, types, direction : Tells(k, types, direction) /\ l2 = l \o k
  <2>1. PICK k, types, direction : Tells(k, types, direction) /\ l2 = l \o k
    BY <1>3
  <2>2. IsSequence(k) /\ \A m \in Range(k) : m.bytes \in Seq(0 .. Byte - 1)
    BY <2>1 DEF Tells
  <2>3. Joined(l2, l, k)
    BY <2>1, <2>2, JoinOf
  <2>4. IsSequence(l2) /\ Range(l2) = Range(l) \cup Range(k)
    BY <2>3 DEF Joined
  <2> QED
    BY <2>2, <2>4
<1>4. CASE \E m : m.bytes \in Seq(0 .. Byte - 1) /\ l2 = <<m>>
  <2>1. PICK m : m.bytes \in Seq(0 .. Byte - 1) /\ l2 = <<m>>
    BY <1>4
  <2>2. IsSequence(l2) /\ Range(l2) = {m}
    BY <2>1, OneMessage
  <2> QED
    BY <2>1, <2>2
<1> QED
  BY <1>1, <1>2, <1>3, <1>4

\* What a step makes of a link.
Goes(l, l2) ==
    \/ l2 = l
    \/ l # << >> /\ l2 = Tail(l)
    \/ \E k, types, direction : Tells(k, types, direction) /\ l2 = l \o k
    \/ \E m : m.bytes \in Seq(0 .. Byte - 1) /\ l2 = <<m>>
Stepped == ServerStep \/ ClientStep \/ ClientReading \/ ServerReading \/ \E m : Strayed(m)
Stands ==
    /\ server' \in {"none", "waiting", "answered", "over"}
    /\ client' \in {"none", "asking", "serving", "over"}
    /\ stray' \in BOOLEAN /\ fault' \in {"none", "client", "server"}
    /\ Goes(down, down') /\ Goes(up, up')

\* What a step leaves as it was.
LEMMA StandsOf ==
    ASSUME Shapes, Stepped
    PROVE  Stands
<1>0. /\ server \in {"none", "waiting", "answered", "over"}
      /\ client \in {"none", "asking", "serving", "over"}
      /\ stray \in BOOLEAN /\ fault \in {"none", "client", "server"}
  BY DEF Shapes
<1>1. ASSUME NEW k, NEW types, DownTells(k, types) PROVE Goes(down, down')
  BY <1>1 DEF DownTells, Goes
<1>2. ASSUME NEW k, NEW types, UpTells(k, types) PROVE Goes(up, up')
  BY <1>2 DEF UpTells, Goes
<1>3. (down' = down => Goes(down, down')) /\ (up' = up => Goes(up, up'))
  BY DEF Goes
<1>4. CASE ServerStep
  <2>1. ASSUME NEW r, Opened(r) PROVE Stands
    BY <1>0, <1>1, <1>3, <2>1 DEF Opened, Stands
  <2>2. ASSUME NEW m, ServerSent(m) PROVE Stands
    BY <1>0, <1>1, <1>3, <2>2 DEF ServerSent, ServerTurn, Stands
  <2>3. ASSUME NEW k, ServerEnded(k) PROVE Stands
    BY <1>0, <1>1, <1>3, <2>3 DEF ServerEnded, ServerTurn, Stands
  <2>4. ASSUME NEW k, ServerBroke(k) PROVE Stands
    BY <1>0, <1>1, <1>3, <2>4 DEF ServerBroke, ServerTurn, Stands
  <2> QED
    BY <1>4, <2>1, <2>2, <2>3, <2>4 DEF ServerStep
<1>5. CASE ClientStep
  <2>1. ASSUME NEW k, ClientAnswered(k) PROVE Stands
    BY <1>0, <1>2, <1>3, <2>1 DEF ClientAnswered, ClientTurn, Stands
  <2>2. ASSUME NEW m, ClientSent(m) PROVE Stands
    BY <1>0, <1>2, <1>3, <2>2 DEF ClientSent, ClientTurn, Stands
  <2>3. ASSUME NEW k, ClientEnded(k) PROVE Stands
    BY <1>0, <1>2, <1>3, <2>3 DEF ClientEnded, ClientTurn, Stands
  <2>4. ASSUME NEW k, ClientFailed(k) PROVE Stands
    BY <1>0, <1>2, <1>3, <2>4 DEF ClientFailed, ClientTurn, Stands
  <2> QED
    BY <1>5, <2>1, <2>2, <2>3, <2>4 DEF ClientStep
<1>6. CASE ClientReading
  <2>1. PICK m : \/ ClientFaulted(m) \/ ClientLeft(m) \/ ClientAsked(m) \/ (\E k : ClientCounted(m, k))
                 \/ ClientHeard(m) \/ ClientTold(m)
    BY <1>6 DEF ClientReading
  <2>2. ClientRead(m) /\ fault' \in {"none", "client", "server"}
    BY <1>0, <2>1 DEF ClientFaulted, ClientTook, ClientLeft, ClientAsked, ClientCounted, ClientHeard, ClientTold
  <2>3. Goes(down, down') /\ server' = server /\ stray' = stray
    BY <2>2 DEF ClientRead, Goes
  <2>4. Goes(up, up')
    BY <1>2, <1>3, <2>1 DEF ClientFaulted, ClientLeft, ClientAsked, ClientCounted, ClientHeard, ClientTold
  <2>5. client' \in {"none", "asking", "serving", "over"}
    BY <1>0, <2>1 DEF ClientFaulted, ClientLeft, ClientAsked, ClientCounted, ClientHeard, ClientTold
  <2> QED
    BY <1>0, <2>2, <2>3, <2>4, <2>5 DEF Stands
<1>7. CASE ServerReading
  <2>1. PICK m : \/ ServerFaulted(m) \/ ServerLeft(m) \/ (\E k : ServerCounted(m, k)) \/ ServerAnswered(m)
                 \/ ServerHeard(m) \/ ServerTold(m)
    BY <1>7 DEF ServerReading
  <2>2. ServerRead(m) /\ fault' \in {"none", "client", "server"}
    BY <1>0, <2>1 DEF ServerFaulted, ServerTook, ServerLeft, ServerCounted, ServerAnswered, ServerHeard, ServerTold
  <2>3. Goes(up, up') /\ client' = client /\ stray' = stray
    BY <2>2 DEF ServerRead, Goes
  <2>4. Goes(down, down')
    BY <1>1, <1>3, <2>1 DEF ServerFaulted, ServerLeft, ServerCounted, ServerAnswered, ServerHeard, ServerTold
  <2>5. server' \in {"none", "waiting", "answered", "over"}
    BY <1>0, <2>1 DEF ServerFaulted, ServerLeft, ServerCounted, ServerAnswered, ServerHeard, ServerTold
  <2> QED
    BY <1>0, <2>2, <2>3, <2>4, <2>5 DEF Stands
<1>8. ASSUME NEW m, Strayed(m) PROVE Stands
  <2>1. m.bytes \in Seq(0 .. Byte - 1)
    BY <1>8, StraysAssumption DEF Strayed
  <2>2. Goes(down, down') /\ Goes(up, up')
    BY <1>3, <1>8, <2>1 DEF Strayed, Goes
  <2> QED
    BY <1>0, <1>8, <2>2 DEF Strayed, Stands
<1> QED
  BY <1>4, <1>5, <1>6, <1>7, <1>8 DEF Stepped

\* Links, counters and decoded starts keep their shape.
LEMMA ShapesKeep ==
    ASSUME Shapes, Bytes, Stepped, CountersMove
    PROVE  Shapes' /\ Bytes'
<1>1. Stands
  BY StandsOf
<1>2. sent' \in [Sides -> 0 .. MaxSent] /\ got' \in [Sides -> Nat] /\ DOMAIN parting' = Sides
  BY CountersKeep
<1>3. /\ IsSequence(down) /\ \A m \in Range(down) : m.bytes \in Seq(0 .. Byte - 1)
      /\ IsSequence(up) /\ \A m \in Range(up) : m.bytes \in Seq(0 .. Byte - 1)
  BY DEF Shapes, Bytes
<1>4. PICK d, u : d = down' /\ u = up'
  OBVIOUS
<1>5. Goes(down, d) /\ Goes(up, u)
  BY <1>1, <1>4 DEF Stands
<1>6. IsSequence(d) /\ \A m \in Range(d) : m.bytes \in Seq(0 .. Byte - 1)
  BY <1>3, <1>5, LinkKeeps DEF Goes
<1>7. IsSequence(u) /\ \A m \in Range(u) : m.bytes \in Seq(0 .. Byte - 1)
  BY <1>3, <1>5, LinkKeeps DEF Goes
<1>8. IsSequence(down') /\ IsSequence(up')
  BY <1>4, <1>6, <1>7
<1>9. Shapes'
  BY <1>1, <1>2, <1>8 DEF Shapes, Stands
<1>10. Bytes'
  BY <1>4, <1>6, <1>7 DEF Bytes
<1> QED
  BY <1>9, <1>10

\* Who has something to work with, and how the server parts with the stream.
LEMMA StartedKeeps ==
    ASSUME Shapes, Started, Parted, StartsAreOwn, Stepped
    PROVE  Started' /\ Parted'
<1>0. /\ server \in {"none", "waiting", "answered", "over"}
      /\ client \in {"none", "asking", "serving", "over"}
  BY DEF Shapes
<1>1. CASE ServerStep
  <2>1. ASSUME NEW r, Opened(r) PROVE Started' /\ Parted'
    BY <1>0, <2>1 DEF Opened, Started, Parted, BadGateway
  <2>2. ASSUME NEW m, ServerSent(m) PROVE Started' /\ Parted'
    BY <1>0, <2>2 DEF ServerSent, ServerTurn, Started, Parted
  <2>3. ASSUME NEW k, ServerEnded(k) PROVE Started' /\ Parted'
    <3>1. Started'
      BY <1>0, <2>3 DEF ServerEnded, ServerTurn, Started
    <3>2. Parted'
      BY <1>0, <2>3 DEF ServerEnded, ServerTurn, Parted, IsSocket
    <3> QED
      BY <3>1, <3>2
  <2>4. ASSUME NEW k, ServerBroke(k) PROVE Started' /\ Parted'
    BY <1>0, <2>4 DEF ServerBroke, ServerTurn, Started, Parted, BadGateway
  <2> QED
    BY <1>1, <2>1, <2>2, <2>3, <2>4 DEF ServerStep
<1>2. CASE ClientStep
  <2>0. Parted'
    <3>1. ClientTurn
      BY <1>2 DEF ClientStep, ClientAnswered, ClientSent, ClientEnded, ClientFailed
    <3> QED
      BY <3>1 DEF ClientTurn, Parted, IsSocket
  <2>1. ASSUME NEW k, ClientAnswered(k) PROVE Started'
    BY <1>0, <2>1 DEF ClientAnswered, ClientTurn, Started
  <2>2. ASSUME NEW m, ClientSent(m) PROVE Started'
    BY <1>0, <2>2 DEF ClientSent, ClientTurn, Started
  <2>3. ASSUME NEW k, ClientEnded(k) PROVE Started'
    BY <1>0, <2>3 DEF ClientEnded, ClientTurn, Started
  <2>4. ASSUME NEW k, ClientFailed(k) PROVE Started'
    BY <1>0, <2>4 DEF ClientFailed, ClientTurn, Started
  <2> QED
    BY <1>2, <2>0, <2>1, <2>2, <2>3, <2>4 DEF ClientStep
<1>3. CASE ClientReading
  <2>1. PICK m : \/ ClientFaulted(m) \/ ClientLeft(m) \/ ClientAsked(m) \/ (\E k : ClientCounted(m, k))
                 \/ ClientHeard(m) \/ ClientTold(m)
    BY <1>3 DEF ClientReading
  <2>2. ClientRead(m)
    BY <2>1 DEF ClientFaulted, ClientTook, ClientLeft, ClientAsked, ClientCounted, ClientHeard, ClientTold
  <2>3. Parted'
    BY <2>2 DEF ClientRead, Parted, IsSocket
  <2>4. ASSUME ClientFaulted(m) \/ ClientLeft(m) PROVE Started'
    BY <2>2, <2>4 DEF ClientRead, ClientFaulted, ClientLeft, Started
  <2>5. ASSUME ClientAsked(m) PROVE Started'
    <3>1. server # "none"
      <4>1. m \in Range(down)
        <5>1. IsSequence(down) /\ down # << >> /\ m = Head(down)
          BY <2>2 DEF Shapes, ClientRead
        <5>2. Left(Tail(down), down)
          BY <5>1, TailOf
        <5> QED
          BY <5>1, <5>2 DEF Left
      <4>2. Accepted(m, "server-to-client") /\ Type(m) = "request_start"
        BY <2>5 DEF ClientAsked, ClientTook, ClientFaults
      <4>3. Readable(m.bytes, m.payload, MaxFrame)
        BY <4>2 DEF Accepted
      <4> QED
        BY <4>1, <4>2, <4>3 DEF StartsAreOwn
    <3>2. client' = "asking" /\ DOMAIN local' = {"kind", "target", "headers", "ended"}
      BY <2>5 DEF ClientAsked
    <3> QED
      BY <2>2, <3>1, <3>2 DEF ClientRead, Started
  <2>6. ASSUME NEW k, ClientCounted(m, k) PROVE Started'
    BY <1>0, <2>2, <2>6 DEF ClientRead, ClientCounted, Started
  <2>7. ASSUME ClientHeard(m) PROVE Started'
    <3>1. DOMAIN local' = DOMAIN local
      BY <2>7 DEF ClientHeard
    <3> QED
      BY <1>0, <2>2, <2>7, <3>1 DEF ClientRead, ClientHeard, Started
  <2>8. ASSUME ClientTold(m) PROVE Started'
    BY <1>0, <2>2, <2>8 DEF ClientRead, ClientTold, Started
  <2> QED
    BY <2>1, <2>3, <2>4, <2>5, <2>6, <2>7, <2>8
<1>4. CASE ServerReading
  <2>1. PICK m : \/ ServerFaulted(m) \/ ServerLeft(m) \/ (\E k : ServerCounted(m, k)) \/ ServerAnswered(m)
                 \/ ServerHeard(m) \/ ServerTold(m)
    BY <1>4 DEF ServerReading
  <2>2. ServerRead(m)
    BY <2>1 DEF ServerFaulted, ServerTook, ServerLeft, ServerCounted, ServerAnswered, ServerHeard, ServerTold
  <2>3. CASE ServerFaulted(m) \/ ServerLeft(m) \/ \E k : ServerCounted(m, k)
    BY <2>2, <2>3 DEF ServerRead, ServerFaulted, ServerLeft, ServerCounted, Started, Parted, IsSocket
  <2>4. CASE ServerAnswered(m)
    BY <2>2, <2>4 DEF ServerRead, ServerAnswered, Started, Parted, IsSocket
  <2>5. CASE ServerHeard(m)
    BY <2>2, <2>5 DEF ServerRead, ServerHeard, Started, Parted, IsSocket
  <2>6. CASE ServerTold(m)
    BY <2>2, <2>6 DEF ServerRead, ServerTold, Started, Parted, IsSocket
  <2> QED
    BY <2>1, <2>3, <2>4, <2>5, <2>6
<1>5. ASSUME NEW m, Strayed(m) PROVE Started' /\ Parted'
  BY <1>5 DEF Strayed, Started, Parted, IsSocket
<1> QED
  BY <1>1, <1>2, <1>3, <1>4, <1>5 DEF Stepped

\* Which messages there are after a step.
LEMMA DownMembers ==
    ASSUME Shapes, NEW k, NEW types, DownTells(k, types)
    PROVE  /\ Joined(down', down, k) /\ Range(down') = Range(down) \cup Range(k)
           /\ \A m \in Range(k) : Type(m) \in types /\ Legible(m, "server-to-client")
           /\ IsSequence(k)
<1>1. IsSequence(down) /\ Tells(k, types, "server-to-client") /\ down' = down \o k
  BY DEF Shapes, DownTells
<1>2. IsSequence(k) /\ \A m \in Range(k) : Type(m) \in types /\ Legible(m, "server-to-client")
  BY <1>1 DEF Tells
<1>3. Joined(down \o k, down, k)
  BY <1>1, <1>2, JoinOf
<1>4. Joined(down', down, k)
  BY <1>1, <1>3
<1>5. Range(down') = Range(down) \cup Range(k)
  BY <1>4 DEF Joined
<1> QED
  BY <1>2, <1>4, <1>5

\* What is in the link to the server after the client sent.
LEMMA UpMembers ==
    ASSUME Shapes, NEW k, NEW types, UpTells(k, types)
    PROVE  /\ Joined(up', up, k) /\ Range(up') = Range(up) \cup Range(k)
           /\ \A m \in Range(k) : Type(m) \in types /\ Legible(m, "client-to-server")
           /\ IsSequence(k)
<1>1. IsSequence(up) /\ Tells(k, types, "client-to-server") /\ up' = up \o k
  BY DEF Shapes, UpTells
<1>2. IsSequence(k) /\ \A m \in Range(k) : Type(m) \in types /\ Legible(m, "client-to-server")
  BY <1>1 DEF Tells
<1>3. Joined(up \o k, up, k)
  BY <1>1, <1>2, JoinOf
<1>4. Joined(up', up, k)
  BY <1>1, <1>3
<1>5. Range(up') = Range(up) \cup Range(k)
  BY <1>4 DEF Joined
<1> QED
  BY <1>2, <1>4, <1>5

\* What is in a link before and after a message was read from it.
LEMMA ReadMembers ==
    ASSUME Shapes, NEW m
    PROVE  /\ ClientRead(m) => /\ Left(down', down) /\ m = Head(down) /\ m \in Range(down)
                               /\ Range(down) = Range(down') \cup {m}
           /\ ServerRead(m) => /\ Left(up', up) /\ m = Head(up) /\ m \in Range(up)
                               /\ Range(up) = Range(up') \cup {m}
<1>1. ASSUME ClientRead(m)
      PROVE  /\ Left(down', down) /\ m = Head(down) /\ m \in Range(down)
             /\ Range(down) = Range(down') \cup {m}
  <2>1. IsSequence(down) /\ down # << >> /\ m = Head(down) /\ down' = Tail(down)
    BY <1>1 DEF Shapes, ClientRead
  <2>2. Left(Tail(down), down)
    BY <2>1, TailOf
  <2>3. Left(down', down)
    BY <2>1, <2>2
  <2> QED
    BY <2>1, <2>3 DEF Left
<1>2. ASSUME ServerRead(m)
      PROVE  /\ Left(up', up) /\ m = Head(up) /\ m \in Range(up)
             /\ Range(up) = Range(up') \cup {m}
  <2>1. IsSequence(up) /\ up # << >> /\ m = Head(up) /\ up' = Tail(up)
    BY <1>2 DEF Shapes, ServerRead
  <2>2. Left(Tail(up), up)
    BY <2>1, TailOf
  <2>3. Left(up', up)
    BY <2>1, <2>2
  <2> QED
    BY <2>1, <2>3 DEF Left
<1> QED
  BY <1>1, <1>2

\* Only the two programs start the stream.
NoStarts(l, l2, type) == \A m \in Range(l2) : m \in Range(l) \/ ~(Readable(m.bytes, m.payload, MaxFrame) /\ Type(m) = type)
SameAnswer ==
    client \notin {"none", "asking"} => client' \notin {"none", "asking"} /\ answer' = answer

\* Steps that bring no new start keep the starts that are under way.
LEMMA OwnKeeps ==
    ASSUME StartsAreOwn, NoStarts(down, down', "request_start"), NoStarts(up, up', "response_start"),
           server # "none" => server' # "none", request' = request, SameAnswer
    PROVE  StartsAreOwn'
<1>1. ASSUME NEW m \in Range(down'), Readable(m.bytes, m.payload, MaxFrame), Type(m) = "request_start"
      PROVE  server' # "none" /\ m.payload.json = Json(RequestStart(request'))
  <2>1. m \in Range(down)
    BY <1>1 DEF NoStarts
  <2> QED
    BY <1>1, <2>1 DEF StartsAreOwn
<1>2. ASSUME NEW m \in Range(up'), Readable(m.bytes, m.payload, MaxFrame), Type(m) = "response_start"
      PROVE  /\ client' \notin {"none", "asking"} /\ answer' \in Answers /\ answer'.kind = request'.kind
             /\ m.payload.json = Json(ResponseStart(answer))'
  <2>1. m \in Range(up)
    BY <1>2 DEF NoStarts
  <2>2. /\ client \notin {"none", "asking"} /\ answer \in Answers /\ answer.kind = request.kind
        /\ m.payload.json = Json(ResponseStart(answer))
    BY <1>2, <2>1 DEF StartsAreOwn
  <2>3. answer' = answer /\ IsSocket' = IsSocket
    BY <2>2 DEF SameAnswer, IsSocket
  <2>4. Json(ResponseStart(answer))' = Json(ResponseStart(answer))
    BY <2>3 DEF ResponseStart
  <2> QED
    BY <2>2, <2>3, <2>4 DEF SameAnswer
<1> QED
  BY <1>1, <1>2 DEF StartsAreOwn, Type

\* The steps after which a link holds no start that it did not hold before.
LEMMA NoneStarts ==
    ASSUME Shapes
    PROVE  /\ \A type : NoStarts(down, down, type) /\ NoStarts(up, up, type)
           /\ \A type, k, types : DownTells(k, types) /\ type \notin types => NoStarts(down, down', type)
           /\ \A type, k, types : UpTells(k, types) /\ type \notin types => NoStarts(up, up', type)
           /\ \A type, m : ClientRead(m) => NoStarts(down, down', type)
           /\ \A type, m : ServerRead(m) => NoStarts(up, up', type)
           /\ \A m \in Strays : /\ down' = <<m>> => NoStarts(down, down', "request_start")
                                /\ up' = <<m>> => NoStarts(up, up', "response_start")
<1>1. \A type : NoStarts(down, down, type) /\ NoStarts(up, up, type)
  BY DEF NoStarts
<1>2. ASSUME NEW type, NEW k, NEW types, type \notin types, DownTells(k, types)
      PROVE  NoStarts(down, down', type)
  BY <1>2, DownMembers DEF NoStarts
<1>3. ASSUME NEW type, NEW k, NEW types, type \notin types, UpTells(k, types)
      PROVE  NoStarts(up, up', type)
  BY <1>3, UpMembers DEF NoStarts
<1>4. ASSUME NEW type, NEW m, ClientRead(m) PROVE NoStarts(down, down', type)
  BY <1>4, ReadMembers DEF NoStarts
<1>5. ASSUME NEW type, NEW m, ServerRead(m) PROVE NoStarts(up, up', type)
  BY <1>5, ReadMembers DEF NoStarts
<1>6. ASSUME NEW m \in Strays, down' = <<m>> PROVE NoStarts(down, down', "request_start")
  <2>1. Range(down') = {m}
    BY <1>6, OneMessage
  <2> QED
    BY <2>1, StraysAssumption DEF NoStarts
<1>7. ASSUME NEW m \in Strays, up' = <<m>> PROVE NoStarts(up, up', "response_start")
  <2>1. Range(up') = {m}
    BY <1>7, OneMessage
  <2> QED
    BY <2>1, StraysAssumption DEF NoStarts
<1> QED
  BY <1>1, <1>2, <1>3, <1>4, <1>5, <1>6, <1>7

\* Every start under way is the one that the request and the answer call for.
LEMMA StartsKeep ==
    ASSUME Shapes, Started, StartsAreOwn, Stepped
    PROVE  StartsAreOwn'
<1>1. CASE ServerStep
  <2>1. ASSUME NEW r, Opened(r) PROVE StartsAreOwn'
    <3>1. /\ server = "none" /\ server' # "none" /\ client = "none" /\ request' = r /\ up' = up
          /\ \/ down' = down
             \/ \E m : DownTells(<<m>>, {"request_start"}) /\ Carries(<<m>>, RequestStart(r))
      BY <2>1 DEF Opened, Started
    <3>2. ASSUME NEW m \in Range(down'), Readable(m.bytes, m.payload, MaxFrame), Type(m) = "request_start"
          PROVE  m.payload.json = Json(RequestStart(r))
      <4>1. m \notin Range(down)
        BY <3>1, <3>2 DEF StartsAreOwn
      <4>2. PICK n : DownTells(<<n>>, {"request_start"}) /\ Carries(<<n>>, RequestStart(r))
        BY <3>1, <3>2, <4>1
      <4>3. PICK k : k = <<n>>
        OBVIOUS
      <4>4. m \in Range(k)
        BY <3>2, <4>1, <4>2, <4>3, DownMembers
      <4> QED
        BY <4>2, <4>3, <4>4 DEF Carries
    <3>3. \A m \in Range(up') : ~(Readable(m.bytes, m.payload, MaxFrame) /\ Type(m) = "response_start")
      BY <3>1 DEF StartsAreOwn
    <3> QED
      BY <3>1, <3>2, <3>3 DEF StartsAreOwn, Type
  <2>2. ASSUME ServerTurn, NEW k, NEW types, "request_start" \notin types, DownTells(k, types)
        PROVE  StartsAreOwn'
    <3>1. NoStarts(down, down', "request_start")
      BY <2>2, NoneStarts
    <3>2. NoStarts(up, up', "response_start")
      BY <2>2, NoneStarts DEF ServerTurn
    <3>3. SameAnswer /\ request' = request /\ server' # "none"
      BY <2>2 DEF ServerTurn, SameAnswer
    <3> QED
      BY <3>1, <3>2, <3>3, OwnKeeps
  <2>3. ASSUME NEW m, ServerSent(m) PROVE StartsAreOwn'
    BY <2>2, <2>3 DEF ServerSent
  <2>4. ASSUME NEW k, ServerEnded(k) \/ ServerBroke(k) PROVE StartsAreOwn'
    BY <2>2, <2>4 DEF ServerEnded, ServerBroke
  <2> QED
    BY <1>1, <2>1, <2>3, <2>4 DEF ServerStep
<1>2. CASE ClientStep
  <2>1. ASSUME NEW k, ClientAnswered(k) PROVE StartsAreOwn'
    <3>1. /\ client = "asking" /\ client' = "serving" /\ server' = server /\ request' = request
          /\ answer' \in Answers /\ answer'.kind = request'.kind /\ down' = down
          /\ UpTells(k, {"response_start"}) /\ Carries(k, ResponseStart(answer'))
      BY <2>1 DEF ClientAnswered, ClientTurn
    <3>2. \A m \in Range(up) : ~(Readable(m.bytes, m.payload, MaxFrame) /\ Type(m) = "response_start")
      BY <3>1 DEF StartsAreOwn
    <3>3. ASSUME NEW m \in Range(up'), Readable(m.bytes, m.payload, MaxFrame), Type(m) = "response_start"
          PROVE  m.payload.json = Json(ResponseStart(answer'))
      <4>1. m \in Range(k)
        BY <3>1, <3>2, <3>3, UpMembers
      <4> QED
        BY <3>1, <4>1 DEF Carries
    <3>4. Json(ResponseStart(answer))' = Json(ResponseStart(answer'))
      BY <3>1 DEF ResponseStart, IsSocket
    <3> QED
      BY <3>1, <3>3, <3>4 DEF StartsAreOwn, Type
  <2>2. ASSUME ClientTurn, NEW k, NEW types, "response_start" \notin types, UpTells(k, types),
               answer' = answer \/ client = "asking"
        PROVE  StartsAreOwn'
    <3>1. NoStarts(up, up', "response_start")
      BY <2>2, NoneStarts
    <3>2. NoStarts(down, down', "request_start")
      BY <2>2, NoneStarts DEF ClientTurn
    <3>3. SameAnswer /\ request' = request /\ server' = server
      BY <2>2 DEF ClientTurn, SameAnswer
    <3> QED
      BY <3>1, <3>2, <3>3, OwnKeeps
  <2>3. ASSUME NEW m, ClientSent(m) PROVE StartsAreOwn'
    BY <2>2, <2>3 DEF ClientSent
  <2>4. ASSUME NEW k, ClientEnded(k) \/ ClientFailed(k) PROVE StartsAreOwn'
    BY <2>2, <2>4 DEF ClientEnded, ClientFailed
  <2> QED
    BY <1>2, <2>1, <2>3, <2>4 DEF ClientStep
<1>3. CASE ClientReading
  <2>1. PICK m : \/ ClientFaulted(m) \/ ClientLeft(m) \/ ClientAsked(m) \/ (\E k : ClientCounted(m, k))
                 \/ ClientHeard(m) \/ ClientTold(m)
    BY <1>3 DEF ClientReading
  <2>2. ClientRead(m)
    BY <2>1 DEF ClientFaulted, ClientTook, ClientLeft, ClientAsked, ClientCounted, ClientHeard, ClientTold
  <2>3. NoStarts(down, down', "request_start")
    BY <2>2, NoneStarts
  <2>4. SameAnswer
    BY <2>1, <2>2 DEF ClientRead, SameAnswer, ClientFaulted, ClientLeft, ClientAsked, ClientCounted, ClientHeard, ClientTold
  <2>5. NoStarts(up, up', "response_start")
    <3>1. up' = up \/ \E k : UpTells(k, Credits \cup {"response_abort"})
      BY <2>1 DEF ClientFaulted, ClientLeft, ClientAsked, ClientCounted, ClientHeard, ClientTold
    <3>2. "response_start" \notin Credits \cup {"response_abort"}
      BY DEF Credits
    <3> QED
      BY <3>1, <3>2, NoneStarts
  <2>6. server' = server /\ request' = request
    BY <2>2 DEF ClientRead
  <2> QED
    BY <2>3, <2>4, <2>5, <2>6, OwnKeeps
<1>4. CASE ServerReading
  <2>1. PICK m : \/ ServerFaulted(m) \/ ServerLeft(m) \/ (\E k : ServerCounted(m, k)) \/ ServerAnswered(m)
                 \/ ServerHeard(m) \/ ServerTold(m)
    BY <1>4 DEF ServerReading
  <2>2. ServerRead(m)
    BY <2>1 DEF ServerFaulted, ServerTook, ServerLeft, ServerCounted, ServerAnswered, ServerHeard, ServerTold
  <2>3. NoStarts(up, up', "response_start")
    BY <2>2, NoneStarts
  <2>4. SameAnswer /\ request' = request
    BY <2>2 DEF ServerRead, SameAnswer
  <2>5. NoStarts(down, down', "request_start")
    <3>1. down' = down \/ \E k : DownTells(k, Credits)
      BY <2>1 DEF ServerFaulted, ServerLeft, ServerCounted, ServerAnswered, ServerHeard, ServerTold
    <3>2. "request_start" \notin Credits
      BY DEF Credits
    <3> QED
      BY <3>1, <3>2, NoneStarts
  <2>6. server # "none" => server' # "none"
    BY <2>1 DEF ServerFaulted, ServerLeft, ServerCounted, ServerAnswered, ServerHeard, ServerTold
  <2> QED
    BY <2>3, <2>4, <2>5, <2>6, OwnKeeps
<1>5. ASSUME NEW m, Strayed(m) PROVE StartsAreOwn'
  <2>1. NoStarts(down, down', "request_start") /\ NoStarts(up, up', "response_start")
    BY <1>5, NoneStarts DEF Strayed
  <2>2. SameAnswer /\ request' = request /\ server' = server
    BY <1>5 DEF Strayed, SameAnswer
  <2> QED
    BY <2>1, <2>2, OwnKeeps
<1> QED
  BY <1>1, <1>2, <1>3, <1>4, <1>5 DEF Stepped

\* What a side read is what would have been written.
LEMMA CanonicalOf ==
    ASSUME NEW m, m.bytes \in Seq(0 .. Byte - 1), Readable(m.bytes, m.payload, MaxFrame)
    PROVE  EncodeHeader(HeaderOf(m.bytes)) = m.bytes
<1>1. PICK e : e = m.bytes
  OBVIOUS
<1>2. /\ e \in Seq(0 .. Byte - 1) /\ Len(e) = HeaderBytes
      /\ SubSeq(e, 1, 2) = Magic /\ e[3] = Version /\ e[4] \in Codes
  BY <1>1 DEF Readable
<1>3. EncodeHeader(HeaderOf(e)) = e
  BY <1>2, WrittenAsRead
<1> QED
  BY <1>1, <1>3

\* Every step keeps `ReadIsCanonical`.
LEMMA CanonicalKeeps ==
    ASSUME Shapes, Bytes, ReadIsCanonical, Stepped
    PROVE  ReadIsCanonical'
<1>1. CASE taken' = taken
  BY <1>1 DEF ReadIsCanonical
<1>2. ASSUME NEW m, taken' = m.bytes, m \in Range(down) \cup Range(up), NEW d, Accepted(m, d)
      PROVE  ReadIsCanonical'
  <2>1. m.bytes \in Seq(0 .. Byte - 1) /\ Readable(m.bytes, m.payload, MaxFrame)
    BY <1>2 DEF Bytes, Accepted
  <2>2. EncodeHeader(HeaderOf(m.bytes)) = m.bytes
    BY <2>1, CanonicalOf
  <2> QED
    BY <1>2, <2>2 DEF ReadIsCanonical
<1>3. CASE ServerStep \/ ClientStep \/ \E m : Strayed(m)
  <2>1. taken' = taken
    BY <1>3 DEF ServerStep, Opened, ServerSent, ServerEnded, ServerBroke, ServerTurn,
           ClientStep, ClientAnswered, ClientSent, ClientEnded, ClientFailed, ClientTurn, Strayed
  <2> QED
    BY <1>1, <2>1
<1>4. CASE ClientReading
  <2>1. PICK m : \/ ClientFaulted(m) \/ ClientTook(m)
    BY <1>4 DEF ClientReading, ClientLeft, ClientAsked, ClientCounted, ClientHeard, ClientTold
  <2>2. CASE ClientFaulted(m)
    BY <1>1, <2>2 DEF ClientFaulted
  <2>3. CASE ClientTook(m)
    <3>1. ClientRead(m) /\ Accepted(m, "server-to-client") /\ taken' = m.bytes
      BY <2>3 DEF ClientTook, ClientFaults
    <3>2. m \in Range(down)
      BY <3>1, ReadMembers
    <3> QED
      BY <1>2, <3>1, <3>2
  <2> QED
    BY <2>1, <2>2, <2>3
<1>5. CASE ServerReading
  <2>1. PICK m : \/ ServerFaulted(m) \/ ServerTook(m)
    BY <1>5 DEF ServerReading, ServerLeft, ServerCounted, ServerAnswered, ServerHeard, ServerTold
  <2>2. CASE ServerFaulted(m)
    BY <1>1, <2>2 DEF ServerFaulted
  <2>3. CASE ServerTook(m)
    <3>1. ServerRead(m) /\ Accepted(m, "client-to-server") /\ taken' = m.bytes
      BY <2>3 DEF ServerTook, ServerFaults
    <3>2. m \in Range(up)
      BY <3>1, ReadMembers
    <3> QED
      BY <1>2, <3>1, <3>2
  <2> QED
    BY <2>1, <2>2, <2>3
<1> QED
  BY <1>3, <1>4, <1>5 DEF Stepped

-----------------------------------------------------------------------------
(* What is on its way stays legible, and in order.                             *)

DownLegible == DownIsLegible /\ DownEnds /\ DownStarts /\ DownRuns
UpLegible == UpIsLegible /\ UpEnds /\ UpStarts /\ UpRuns

\* What is legible depends on the request alone.
LEMMA LegibleSame ==
    ASSUME request' = request
    PROVE  /\ \A m, d : Legible(m, d)' <=> Legible(m, d)
           /\ IsSocket' <=> IsSocket
           /\ \A side : BodyKind(side)' = BodyKind(side)
           /\ \A m : IsData(m)' <=> IsData(m)
           /\ \A m : IsEndOf(m)' <=> IsEndOf(m)
<1>1. IsSocket' <=> IsSocket
  BY DEF IsSocket
<1>2. ASSUME NEW m, NEW d PROVE Legible(m, d)' <=> Legible(m, d)
  BY <1>1 DEF Legible, Accepted, Understood, OwnFlags, H, Type
<1>3. ASSUME NEW side PROVE BodyKind(side)' = BodyKind(side)
  BY <1>1 DEF BodyKind
<1> QED
  BY <1>1, <1>2, <1>3 DEF IsData, IsEndOf, Type

\* An end stays the end of what was said, also when the side lets go of the stream for
\* another reason.
LEMMA EndSame ==
    ASSUME request' = request, NEW side, sent'[side] = sent[side],
           parting'[side] = parting[side] \/ parting'[side].how # "closed",
           NEW m, EndOf(m, side)
    PROVE  EndOf(m, side)'
<1>1. BodyKind(side)' = BodyKind(side)
  BY LegibleSame
<1>2. SameCode(m.payload.json, parting'[side])
  BY DEF EndOf, SameCode
<1>3. /\ m.payload.json["kind"].word = BodyKind(side)'
      /\ m.payload.json["lastSeq"].n = sent'[side] - 1
  BY <1>1 DEF EndOf
<1> QED
  BY <1>2, <1>3 DEF EndOf, SameCode

\* Messages join that are neither data nor an end nor the start of the stream.
Quiet == {"request_abort", "response_abort", "response_start"} \cup Credits
DownQuiet(k, types) ==
    /\ DownTells(k, types) /\ types \subseteq Quiet
    /\ k # <<>> => server \in {"waiting", "answered"}
    /\ request' = request /\ sent'["server"] = sent["server"] /\ got'["client"] = got["client"]
    /\ parting'["server"] = parting["server"] \/ parting'["server"].how \in {"aborted", "silent", "told"}
    /\ (client' = "none" <=> client = "none") /\ (client' # "over" => client # "over")
    /\ server' = server \/ (server' # "none" /\ server \in {"waiting", "answered"})

\* Credits and aborts are neither data, nor ends, nor request starts.
LEMMA QuietType ==
    ASSUME NEW m, Type(m) \in Quiet
    PROVE  ~IsData(m) /\ ~IsEndOf(m) /\ Type(m) # "request_start"
  BY DEF Quiet, Credits, IsData, IsEndOf, DataTypes

\* Messages join that are not the start.
LEMMA DownStartsKeep ==
    ASSUME Shapes, DownStarts, NEW k, NEW types, DownTells(k, types), "request_start" \notin types,
           k # <<>> => server \in {"waiting", "answered"},
           client' = "none" <=> client = "none",
           server' = server \/ (server' # "none" /\ server \in {"waiting", "answered"})
    PROVE  DownStarts'
<1>0. DownStarts /\ IsSequence(down) /\ down' = down \o k
  BY DEF Shapes, DownTells
<1>1. /\ Joined(down', down, k) /\ Range(down') = Range(down) \cup Range(k)
      /\ \A m \in Range(k) : Type(m) \in types /\ Legible(m, "server-to-client")
      /\ IsSequence(k)
  BY <1>0, DownMembers
<1>2. \A m \in Range(k) : Type(m) # "request_start"
  BY <1>1
<1>5. DownStarts'
  <2>1. ASSUME NEW i \in DOMAIN down' PROVE Type(down'[i]) = "request_start" <=> i = 1 /\ client' = "none"
    <3>0. DOMAIN down' = 1 .. Len(down') /\ DOMAIN down = 1 .. Len(down) /\ Len(down) \in Nat
      <4>1. IsSequence(down')
        BY <1>1 DEF Joined
      <4> QED
        BY <1>0, <4>1, Elements
    <3>1. i \in 1 .. Len(down')
      BY <2>1, <3>0
    <3>2. \/ i \in 1 .. Len(down) /\ down'[i] = down[i]
          \/ i > Len(down) /\ i - Len(down) \in 1 .. Len(k) /\ down'[i] = k[i - Len(down)]
      <4>1. PICK x : x = down'
        OBVIOUS
      <4>2. Joined(x, down, k) /\ i \in 1 .. Len(x)
        BY <1>1, <3>1, <4>1
      <4>3. \/ i \in 1 .. Len(down) /\ x[i] = down[i]
            \/ i > Len(down) /\ i - Len(down) \in 1 .. Len(k) /\ x[i] = k[i - Len(down)]
        BY <1>0, <1>1, <4>2, JoinedPlaces
      <4> QED
        BY <4>1, <4>3
    <3>3. CASE i \in 1 .. Len(down) /\ down'[i] = down[i]
      <4>1. Type(down[i]) = "request_start" <=> i = 1 /\ client = "none"
        BY <1>0, <3>0, <3>3 DEF DownStarts
      <4> QED
        BY <3>3, <4>1
    <3>4. CASE i > Len(down) /\ i - Len(down) \in 1 .. Len(k) /\ down'[i] = k[i - Len(down)]
      <4>1. k[i - Len(down)] \in Range(k) /\ k # << >>
        BY <1>1, <3>4, Elements, NoMessage
      <4>2. Type(down'[i]) # "request_start"
        BY <1>2, <3>4, <4>1
      <4>3. client' = "none" => Len(down) > 0
        <5>1. client' = "none" => down # << >>
          BY <1>0, <4>1 DEF DownStarts
        <5>2. IsSequence(down) /\ (Len(down) = 0 => down = << >>)
          BY <1>0 DEF IsSequence
        <5> QED
          BY <3>0, <5>1, <5>2
      <4> QED
        BY <3>0, <3>4, <4>2, <4>3
    <3> QED
      BY <3>2, <3>3, <3>4
  <2>2. down' # << >> => server' # "none"
    <3>1. CASE down = << >> /\ k = << >>
      <4>1. Range(down') = {} /\ IsSequence(down')
        BY <1>1, <3>1, NoMessage DEF Joined
      <4>2. Len(down') = 0
        BY <4>1, Elements
      <4> QED
        BY <4>1, <4>2 DEF IsSequence
    <3>2. CASE down # << >> \/ k # << >>
      <4>1. server # "none"
        BY <1>0, <3>2 DEF DownStarts
      <4> QED
        BY <4>1
    <3> QED
      BY <3>1, <3>2
  <2>3. server' \in {"waiting", "answered"} /\ client' = "none" => down' # << >>
    <3>1. server' \in {"waiting", "answered"} /\ client' = "none" => down # << >>
      BY <1>0 DEF DownStarts
    <3>2. down # << >> => down' # << >>
      <4>1. down # << >> => Len(down) > 0
        BY <1>0 DEF IsSequence
      <4>2. Len(down') = Len(down) + Len(k) /\ Len(k) \in Nat /\ Len(down) \in Nat
        BY <1>0, <1>1, Elements DEF Joined
      <4>3. Len(<< >>) = 0
        OBVIOUS
      <4> QED
        BY <4>1, <4>2, <4>3
    <3> QED
      BY <3>1, <3>2
  <2> QED
    BY <2>1, <2>2, <2>3 DEF DownStarts, Type
<1> QED
  BY <1>5

\* Frames that are neither start, data nor end keep the link to the client legible.
LEMMA DownQuietKeeps ==
    ASSUME Shapes, DownLegible, NEW k, NEW types, DownQuiet(k, types)
    PROVE  DownLegible'
<1>0. /\ DownIsLegible /\ DownEnds /\ DownStarts /\ DownRuns /\ request' = request
      /\ DownTells(k, types) /\ types \subseteq Quiet /\ IsSequence(down) /\ down' = down \o k
  BY DEF DownLegible, DownQuiet, Shapes, DownTells
<1>1. /\ Joined(down', down, k) /\ Range(down') = Range(down) \cup Range(k)
      /\ \A m \in Range(k) : Type(m) \in types /\ Legible(m, "server-to-client")
      /\ IsSequence(k)
  BY <1>0, DownMembers
<1>2. \A m \in Range(k) : ~IsData(m) /\ ~IsEndOf(m) /\ Type(m) # "request_start"
  BY <1>0, <1>1, QuietType
<1>3. DownIsLegible'
  <2>1. \A m \in Range(down') : Legible(m, "server-to-client")
    BY <1>0, <1>1 DEF DownIsLegible
  <2>2. \A m, d : Legible(m, d)' <=> Legible(m, d)
    BY <1>0, LegibleSame
  <2> QED
    BY <2>1, <2>2 DEF DownIsLegible
<1>4. DownEnds'
  <2>1. ASSUME NEW m \in Range(down'), IsEndOf(m)
        PROVE  parting'["server"] # Nothing /\ EndOf(m, "server")'
    <3>1. m \in Range(down)
      BY <1>1, <1>2, <2>1
    <3>2. parting["server"] # Nothing /\ EndOf(m, "server")
      BY <1>0, <2>1, <3>1 DEF DownEnds
    <3>3. sent'["server"] = sent["server"] /\ (parting'["server"] = parting["server"] \/ parting'["server"].how # "closed")
          /\ parting'["server"] # Nothing
      BY <3>2 DEF DownQuiet, Nothing
    <3> QED
      BY <1>0, <3>2, <3>3, EndSame
  <2> QED
    BY <2>1 DEF DownEnds, IsEndOf, Type
<1>5. DownStarts'
  BY <1>0, QuietType, DownStartsKeep DEF DownQuiet, Quiet, Credits
<1>6. DownRuns'
  <2>1. EndIsLast(down')
    BY <1>0, <1>1, <1>2, EndsJoined DEF DownRuns
  <2>2. client' # "over" => got["client"] <= sent["server"] /\ Runs(down', got["client"], sent["server"])
    <3>1. ASSUME client' # "over"
          PROVE  got["client"] <= sent["server"] /\ Runs(down', got["client"], sent["server"])
      <4>1. got["client"] <= sent["server"] /\ Runs(down, got["client"], sent["server"])
        BY <1>0, <3>1 DEF DownRuns, DownQuiet
      <4>2. PICK a, b : a = got["client"] /\ b = sent["server"]
        OBVIOUS
      <4>3. Runs(down \o k, a, b)
        BY <1>0, <1>1, <1>2, <4>1, <4>2, RunsJoined
      <4> QED
        BY <1>0, <4>1, <4>2, <4>3
    <3> QED
      BY <3>1
  <2>3. got'["client"] = got["client"] /\ sent'["server"] = sent["server"]
    BY DEF DownQuiet
  <2> QED
    BY <2>1, <2>2, <2>3 DEF DownRuns, EndIsLast, Runs, IsData, IsEndOf, Type, H
<1> QED
  BY <1>3, <1>4, <1>5, <1>6 DEF DownLegible

\* Nobody said an end before the server did.
LEMMA NoEndYet ==
    ASSUME DownEnds, parting["server"] = Nothing
    PROVE  \A m \in Range(down) : ~IsEndOf(m)
  BY DEF DownEnds

\* Data joins.
LEMMA DownNextKeeps ==
    ASSUME Shapes, DownLegible, NEW m, ServerSent(m), CountersMove
    PROVE  DownLegible'
<1>1. PICK k, types : k = <<m>> /\ types = {"request_data"}
  OBVIOUS
<1>0. /\ DownIsLegible /\ DownEnds /\ DownStarts /\ DownRuns /\ request' = request
      /\ DownTells(k, types) /\ IsSequence(down) /\ down' = down \o <<m>>
      /\ server \in {"waiting", "answered"} /\ client' = client /\ server' = server
      /\ parting["server"] = Nothing
      /\ got' = got /\ H(m).seq = sent["server"] /\ sent'["server"] = sent["server"] + 1
  BY <1>1 DEF DownLegible, Shapes, ServerSent, ServerTurn, DownTells
<1>2. /\ Range(down') = Range(down) \cup Range(k) /\ Range(k) = {m}
      /\ Type(m) = "request_data" /\ Legible(m, "server-to-client")
  <2>1. /\ Range(down') = Range(down) \cup Range(k)
        /\ \A q \in Range(k) : Type(q) \in types /\ Legible(q, "server-to-client")
    BY <1>0, DownMembers
  <2>2. Range(k) = {m}
    BY <1>1, OneMessage
  <2> QED
    BY <1>1, <2>1, <2>2
<1>3. DownIsLegible'
  <2>1. \A q \in Range(down') : Legible(q, "server-to-client")
    BY <1>0, <1>2 DEF DownIsLegible
  <2>2. \A q, d : Legible(q, d)' <=> Legible(q, d)
    BY <1>0, LegibleSame
  <2> QED
    BY <2>1, <2>2 DEF DownIsLegible
<1>4. \A q \in Range(down) : ~IsEndOf(q)
  BY <1>0, NoEndYet
<1>5. DownEnds'
  <2>1. \A q \in Range(down') : ~IsEndOf(q)
    BY <1>2, <1>4 DEF IsEndOf
  <2> QED
    BY <2>1 DEF DownEnds, IsEndOf, Type
<1>6. DownStarts'
  <2>1. "request_start" \notin types
    BY <1>1
  <2> QED
    BY <1>0, <2>1, DownStartsKeep
<1>7. DownRuns'
  <2>1. EndIsLast(down')
    BY <1>0, <1>4, EndsNext
  <2>2. ASSUME client # "over"
        PROVE  got["client"] <= sent["server"] + 1 /\ Runs(down', got["client"], sent["server"] + 1)
    <3>1. PICK a, b : a = got["client"] /\ b = sent["server"]
      OBVIOUS
    <3>2. a \in Nat /\ b \in Nat
      BY <3>1, LimitsAssumption DEF Shapes, Sides
    <3>3. a <= b /\ Runs(down, a, b)
      BY <1>0, <2>2, <3>1 DEF DownRuns
    <3>4. IsData(m)
      BY <1>2 DEF IsData, DataTypes
    <3>5. Runs(down \o <<m>>, a, b + 1)
      BY <1>0, <3>1, <3>2, <3>3, <3>4, RunsNext
    <3> QED
      BY <1>0, <3>1, <3>2, <3>3, <3>5
  <2>3. client' # "over" => got'["client"] <= sent'["server"] /\ Runs(down', got'["client"], sent'["server"])
    BY <1>0, <2>2
  <2> QED
    BY <2>1, <2>3 DEF DownRuns, EndIsLast, Runs, IsData, IsEndOf, Type, H
<1> QED
  BY <1>3, <1>5, <1>6, <1>7 DEF DownLegible

\* The end joins.
LEMMA DownEndKeeps ==
    ASSUME Shapes, DownLegible, NEW k, ServerEnded(k)
    PROVE  DownLegible'
<1>1. PICK types : types = {"request_end"}
  OBVIOUS
<1>0. /\ DownIsLegible /\ DownEnds /\ DownStarts /\ DownRuns /\ request' = request
      /\ DownTells(k, types) /\ IsSequence(down) /\ down' = down \o k
      /\ server \in {"waiting", "answered"} /\ client' = client
      /\ server' = server \/ (server' # "none" /\ server \in {"waiting", "answered"})
      /\ parting["server"] = Nothing /\ parting'["server"].how \in {"ended", "closed"}
      /\ got' = got /\ sent' = sent /\ EndsWith(k, "server", parting'["server"])
  BY <1>1 DEF DownLegible, Shapes, ServerEnded, ServerTurn, DownTells
<1>2. /\ Range(down') = Range(down) \cup Range(k) /\ IsSequence(k)
      /\ \A m \in Range(k) : Type(m) = "request_end" /\ Legible(m, "server-to-client")
  BY <1>0, <1>1, DownMembers
<1>3. DownIsLegible'
  <2>1. \A q \in Range(down') : Legible(q, "server-to-client")
    BY <1>0, <1>2 DEF DownIsLegible
  <2>2. \A q, d : Legible(q, d)' <=> Legible(q, d)
    BY <1>0, LegibleSame
  <2> QED
    BY <2>1, <2>2 DEF DownIsLegible
<1>4. \A q \in Range(down) : ~IsEndOf(q)
  BY <1>0, NoEndYet
<1>5. DownEnds'
  <2>1. parting'["server"] # Nothing
    BY <1>0 DEF Nothing
  <2>2. ASSUME NEW q \in Range(k) PROVE EndOf(q, "server")'
    <3>1. /\ q.payload.json["kind"].word = BodyKind("server")
          /\ q.payload.json["lastSeq"].n = sent["server"] - 1
          /\ SameCode(q.payload.json, parting'["server"])
      BY <1>0 DEF EndsWith
    <3>2. BodyKind("server")' = BodyKind("server")
      BY <1>0, LegibleSame
    <3> QED
      BY <1>0, <3>1, <3>2 DEF EndOf, SameCode
  <2>3. \A q \in Range(down') : IsEndOf(q) => q \in Range(k)
    BY <1>2, <1>4
  <2> QED
    BY <2>1, <2>2, <2>3 DEF DownEnds, IsEndOf, Type
<1>6. DownStarts'
  <2>1. "request_start" \notin types
    BY <1>1
  <2> QED
    BY <1>0, <2>1, DownStartsKeep
<1>7. DownRuns'
  <2>0. \A m \in Range(k) : ~IsData(m)
    BY <1>2 DEF IsData, DataTypes
  <2>1. EndIsLast(down')
    BY <1>0, <1>2, <2>0, EndsJoined DEF DownRuns
  <2>2. ASSUME client # "over"
        PROVE  got["client"] <= sent["server"] /\ Runs(down', got["client"], sent["server"])
    <3>1. PICK a, b : a = got["client"] /\ b = sent["server"]
      OBVIOUS
    <3>2. a <= b /\ Runs(down, a, b)
      BY <1>0, <2>2, <3>1 DEF DownRuns
    <3>3. Runs(down \o k, a, b)
      BY <1>0, <1>2, <2>0, <3>2, RunsJoined
    <3> QED
      BY <1>0, <3>1, <3>2, <3>3
  <2>3. client' # "over" => got'["client"] <= sent'["server"] /\ Runs(down', got'["client"], sent'["server"])
    BY <1>0, <2>2
  <2> QED
    BY <2>1, <2>3 DEF DownRuns, EndIsLast, Runs, IsData, IsEndOf, Type, H
<1> QED
  BY <1>3, <1>5, <1>6, <1>7 DEF DownLegible

\* What the client reads is no fault while everything is legible.
LEMMA ClientReadsWell ==
    ASSUME Shapes, DownLegible, NEW m, ClientRead(m)
    PROVE  /\ ~ClientFaults(m) /\ (OfStream(m) \/ Type(m) = "channel_credit")
           /\ (client = "none" <=> Type(m) = "request_start")
<1>0. DownIsLegible /\ DownEnds /\ DownStarts /\ DownRuns /\ IsSequence(down) /\ down # << >>
  BY DEF DownLegible, Shapes, ClientRead
<1>1. m = Head(down) /\ m \in Range(down) /\ Left(down', down)
  BY ReadMembers
<1>2. /\ Accepted(m, "server-to-client") /\ (Type(m) \notin DataTypes => Understood(m))
      /\ (Type(m) \in DataTypes => H(m).flags \in OwnFlags)
      /\ H(m).stream = IF Type(m) = "channel_credit" THEN 0 ELSE 1
  BY <1>0, <1>1 DEF DownIsLegible, Legible
<1>3. client = "none" <=> Type(m) = "request_start"
  <2>1. m = down[1] /\ 1 \in DOMAIN down
    <3>1. Len(down) > 0 /\ m = down[1]
      BY <1>1 DEF Left
    <3> QED
      BY <1>0, <3>1, Elements
  <2> QED
    BY <1>0, <2>1 DEF DownStarts
<1>4. Type(m) \in {"request_start", "request_data", "request_end", "request_abort"} \cup Credits
  BY <1>2, AcceptedTypes
<1>5. Type(m) \in Credits => Understood(m)
  BY <1>2 DEF Credits, DataTypes
<1>6. Type(m) \notin Credits => OfStream(m)
  BY <1>2 DEF Credits, OfStream, H
<1>7. ASSUME client # "over", Type(m) = "request_data" PROVE InTurn("client", m)
  <2>1. PICK a, b : a = got["client"] /\ b = sent["server"]
    OBVIOUS
  <2>2. a \in Nat /\ b \in Nat
    BY <2>1, LimitsAssumption DEF Shapes, Sides
  <2>3. Runs(down, a, b)
    BY <1>0, <1>7, <2>1 DEF DownRuns
  <2>4. IsData(m)
    BY <1>7 DEF IsData, DataTypes
  <2>5. H(m).seq = a
    BY <1>0, <1>1, <2>2, <2>3, <2>4, RunsLeft
  <2> QED
    BY <1>2, <1>7, <2>1, <2>5 DEF InTurn, H, DataTypes
<1>8. ASSUME client # "over", Type(m) = "request_end" PROVE EndsInTurn("client", "server", m)
  <2>1. PICK a, b : a = got["client"] /\ b = sent["server"]
    OBVIOUS
  <2>2. a \in Nat /\ b \in Nat
    BY <2>1, LimitsAssumption DEF Shapes, Sides
  <2>3. a <= b /\ Runs(down, a, b) /\ EndIsLast(down)
    BY <1>0, <1>8, <2>1 DEF DownRuns
  <2>4. IsEndOf(Head(down))
    BY <1>1, <1>8 DEF IsEndOf
  <2>5. \A q \in Range(down) : ~IsData(q)
    BY <1>0, <2>3, <2>4, EndsLeft
  <2>6. a = b
    BY <1>0, <2>2, <2>3, <2>5, RunsOut
  <2>7. EndOf(m, "server")
    BY <1>0, <1>1, <2>4 DEF DownEnds
  <2>8. Understood(m)
    BY <1>2, <1>8 DEF DataTypes
  <2> QED
    BY <2>1, <2>6, <2>7, <2>8 DEF EndOf, EndsInTurn
<1>9. ~ClientFaults(m)
  <2>1. CASE Type(m) \in Credits
    BY <1>2, <1>5, <2>1 DEF ClientFaults
  <2>2. CASE OfStream(m) /\ client = "over"
    BY <1>2, <1>5, <2>2 DEF ClientFaults
  <2>3. CASE Type(m) = "request_start"
    <3>1. Understood(m)
      BY <1>2, <2>3 DEF DataTypes
    <3> QED
      BY <1>2, <1>3, <1>5, <2>3, <3>1 DEF ClientFaults
  <2>4. CASE Type(m) = "request_data" /\ client # "over"
    BY <1>2, <1>3, <1>5, <1>6, <1>7, <2>4 DEF ClientFaults
  <2>5. CASE Type(m) = "request_end" /\ client # "over"
    BY <1>2, <1>3, <1>5, <1>6, <1>8, <2>5 DEF ClientFaults
  <2>6. CASE Type(m) = "request_abort" /\ client # "over"
    <3>1. Understood(m)
      BY <1>2, <2>6 DEF DataTypes
    <3> QED
      BY <1>2, <1>3, <1>5, <1>6, <2>6, <3>1 DEF ClientFaults
  <2> QED
    BY <1>4, <1>6, <2>1, <2>2, <2>3, <2>4, <2>5, <2>6 DEF Credits
<1>10. OfStream(m) \/ Type(m) = "channel_credit"
  BY <1>2 DEF OfStream, H
<1> QED
  BY <1>3, <1>9, <1>10

\* The client takes what is first.
LEMMA DownLeftKeeps ==
    ASSUME Shapes, DownLegible, NEW m, ClientRead(m), client' # "none",
           client' # "over" => client # "over",
           client' # "over" => got'["client"] = IF IsData(m) THEN got["client"] + 1 ELSE got["client"]
    PROVE  DownLegible'
<1>0. /\ DownIsLegible /\ DownEnds /\ DownStarts /\ DownRuns /\ IsSequence(down) /\ down # << >>
      /\ request' = request /\ sent' = sent /\ server' = server /\ m = Head(down)
      /\ parting'["server"] = parting["server"] /\ down' = Tail(down)
  BY DEF DownLegible, Shapes, ClientRead
<1>1. Left(down', down) /\ m \in Range(down) /\ Range(down) = Range(down') \cup {m}
  BY ReadMembers
<1>2. DownIsLegible'
  <2>1. \A q \in Range(down') : Legible(q, "server-to-client")
    BY <1>0, <1>1 DEF DownIsLegible
  <2>2. \A q, d : Legible(q, d)' <=> Legible(q, d)
    BY <1>0, LegibleSame
  <2> QED
    BY <2>1, <2>2 DEF DownIsLegible
<1>3. DownEnds'
  <2>1. ASSUME NEW q \in Range(down'), IsEndOf(q)
        PROVE  parting'["server"] # Nothing /\ EndOf(q, "server")'
    <3>1. parting["server"] # Nothing /\ EndOf(q, "server")
      BY <1>0, <1>1, <2>1 DEF DownEnds
    <3>2. sent'["server"] = sent["server"]
      BY <1>0
    <3> QED
      BY <1>0, <3>1, <3>2, EndSame
  <2> QED
    BY <2>1 DEF DownEnds, IsEndOf, Type
<1>4. DownStarts'
  <2>0. /\ DOMAIN down' = 1 .. Len(down') /\ DOMAIN down = 1 .. Len(down)
        /\ Len(down) \in Nat /\ Len(down') = Len(down) - 1
    <3>1. IsSequence(down')
      BY <1>1 DEF Left
    <3> QED
      BY <1>0, <1>1, <3>1, Elements DEF Left
  <2>1. ASSUME NEW i \in DOMAIN down' PROVE Type(down'[i]) # "request_start"
    <3>1. down'[i] = down[i + 1] /\ i + 1 \in DOMAIN down /\ i + 1 # 1
      BY <1>1, <2>0, <2>1 DEF Left
    <3>2. PICK j : j = i + 1
      OBVIOUS
    <3> QED
      BY <1>0, <3>1, <3>2 DEF DownStarts
  <2>2. server # "none"
    BY <1>0 DEF DownStarts
  <2> QED
    BY <1>0, <2>1, <2>2 DEF DownStarts, Type
<1>5. DownRuns'
  <2>1. EndIsLast(down')
    BY <1>0, EndsLeft DEF DownRuns
  <2>2. ASSUME client' # "over"
        PROVE  got'["client"] <= sent'["server"] /\ Runs(down', got'["client"], sent'["server"])
    <3>1. PICK a, b : a = got["client"] /\ b = sent["server"]
      OBVIOUS
    <3>2. a \in Nat /\ b \in Nat
      BY <3>1, LimitsAssumption DEF Shapes, Sides
    <3>3. a <= b /\ Runs(down, a, b)
      BY <1>0, <2>2, <3>1 DEF DownRuns
    <3>4. CASE IsData(m)
      <4>1. a + 1 <= b /\ Runs(down', a + 1, b)
        BY <1>0, <3>2, <3>3, <3>4, RunsLeft
      <4> QED
        BY <1>0, <2>2, <3>1, <3>4, <4>1
    <3>5. CASE ~IsData(m)
      <4>1. Runs(down', a, b)
        BY <1>0, <3>2, <3>3, <3>5, RunsLeft
      <4> QED
        BY <1>0, <2>2, <3>1, <3>3, <3>5, <4>1
    <3> QED
      BY <3>4, <3>5
  <2> QED
    BY <2>1, <2>2 DEF DownRuns, EndIsLast, Runs, IsData, IsEndOf, Type, H
<1> QED
  BY <1>2, <1>3, <1>4, <1>5 DEF DownLegible

\* Messages join the other way that are neither data nor an end.
UpQuiet(k, types) ==
    /\ UpTells(k, types) /\ types \subseteq Quiet
    /\ k # <<>> => client' # "none"
    /\ request' = request /\ sent'["client"] = sent["client"] /\ got'["server"] = got["server"]
    /\ parting'["client"] = parting["client"] \/ client # "over"
    /\ (client = "over" => client' = "over") /\ (client # "none" => client' # "none")
    /\ server' # "over" => server # "over"

\* The server hears of a stream only after the client had its request.
LEMMA UpStartsKeep ==
    ASSUME Shapes, UpStarts, NEW k, NEW types, UpTells(k, types),
           k # <<>> => client' # "none", client # "none" => client' # "none"
    PROVE  UpStarts'
<1>0. UpStarts /\ IsSequence(up) /\ up' = up \o k
  BY DEF Shapes, UpTells
<1>1. Joined(up', up, k)
  BY <1>0, UpMembers
<1>2. CASE up = << >> /\ k = << >>
  <2>1. Range(up') = {} /\ IsSequence(up')
    BY <1>1, <1>2, NoMessage DEF Joined
  <2>2. Len(up') = 0
    BY <2>1, Elements
  <2>3. up' = << >>
    BY <2>1, <2>2 DEF IsSequence
  <2> QED
    BY <2>3 DEF UpStarts
<1>3. CASE up # << >> \/ k # << >>
  BY <1>0, <1>3 DEF UpStarts
<1> QED
  BY <1>2, <1>3

\* Frames that are neither data nor end keep the link to the server legible.
LEMMA UpQuietKeeps ==
    ASSUME Shapes, UpLegible, NEW k, NEW types, UpQuiet(k, types)
    PROVE  UpLegible'
<1>0. /\ UpIsLegible /\ UpEnds /\ UpStarts /\ UpRuns /\ request' = request
      /\ UpTells(k, types) /\ types \subseteq Quiet /\ IsSequence(up) /\ up' = up \o k
  BY DEF UpLegible, UpQuiet, Shapes, UpTells
<1>1. /\ Joined(up', up, k) /\ Range(up') = Range(up) \cup Range(k)
      /\ \A m \in Range(k) : Type(m) \in types /\ Legible(m, "client-to-server")
      /\ IsSequence(k)
  BY <1>0, UpMembers
<1>2. \A m \in Range(k) : ~IsData(m) /\ ~IsEndOf(m)
  BY <1>0, <1>1, QuietType
<1>3. UpIsLegible'
  <2>1. \A m \in Range(up') : Legible(m, "client-to-server")
    BY <1>0, <1>1 DEF UpIsLegible
  <2>2. \A m, d : Legible(m, d)' <=> Legible(m, d)
    BY <1>0, LegibleSame
  <2> QED
    BY <2>1, <2>2 DEF UpIsLegible
<1>4. UpEnds'
  <2>1. ASSUME NEW m \in Range(up'), IsEndOf(m)
        PROVE  client' = "over" /\ EndOf(m, "client")'
    <3>1. m \in Range(up)
      BY <1>1, <1>2, <2>1
    <3>2. client = "over" /\ EndOf(m, "client")
      BY <1>0, <2>1, <3>1 DEF UpEnds
    <3>3. sent'["client"] = sent["client"] /\ parting'["client"] = parting["client"] /\ client' = "over"
      BY <3>2 DEF UpQuiet
    <3> QED
      BY <1>0, <3>2, <3>3, EndSame
  <2> QED
    BY <2>1 DEF UpEnds, IsEndOf, Type
<1>5. UpStarts'
  BY <1>0, UpStartsKeep DEF UpQuiet
<1>6. UpRuns'
  <2>1. EndIsLast(up')
    BY <1>0, <1>1, <1>2, EndsJoined DEF UpRuns
  <2>2. server' # "over" => got["server"] <= sent["client"] /\ Runs(up', got["server"], sent["client"])
    <3>1. ASSUME server' # "over"
          PROVE  got["server"] <= sent["client"] /\ Runs(up', got["server"], sent["client"])
      <4>1. got["server"] <= sent["client"] /\ Runs(up, got["server"], sent["client"])
        BY <1>0, <3>1 DEF UpRuns, UpQuiet
      <4>2. PICK a, b : a = got["server"] /\ b = sent["client"]
        OBVIOUS
      <4>3. Runs(up \o k, a, b)
        BY <1>0, <1>1, <1>2, <4>1, <4>2, RunsJoined
      <4> QED
        BY <1>0, <4>1, <4>2, <4>3
    <3> QED
      BY <3>1
  <2>3. got'["server"] = got["server"] /\ sent'["client"] = sent["client"]
    BY DEF UpQuiet
  <2> QED
    BY <2>1, <2>2, <2>3 DEF UpRuns, EndIsLast, Runs, IsData, IsEndOf, Type, H
<1> QED
  BY <1>3, <1>4, <1>5, <1>6 DEF UpLegible

\* Nobody said an end before the client did.
LEMMA NoAnswerEndYet ==
    ASSUME UpEnds, client # "over"
    PROVE  \A m \in Range(up) : ~IsEndOf(m)
  BY DEF UpEnds

\* Data joins.
LEMMA UpNextKeeps ==
    ASSUME Shapes, UpLegible, NEW m, ClientSent(m)
    PROVE  UpLegible'
<1>1. PICK k, types : k = <<m>> /\ types = {"response_data"}
  OBVIOUS
<1>0. /\ UpIsLegible /\ UpEnds /\ UpStarts /\ UpRuns /\ request' = request
      /\ UpTells(k, types) /\ IsSequence(up) /\ up' = up \o <<m>>
      /\ client = "serving" /\ client' = client /\ server' = server
      /\ got' = got /\ H(m).seq = sent["client"] /\ sent'["client"] = sent["client"] + 1
  BY <1>1 DEF UpLegible, Shapes, ClientSent, ClientTurn, UpTells
<1>2. /\ Range(up') = Range(up) \cup Range(k) /\ Range(k) = {m}
      /\ Type(m) = "response_data" /\ Legible(m, "client-to-server")
  <2>1. /\ Range(up') = Range(up) \cup Range(k)
        /\ \A q \in Range(k) : Type(q) \in types /\ Legible(q, "client-to-server")
    BY <1>0, UpMembers
  <2>2. Range(k) = {m}
    BY <1>1, OneMessage
  <2> QED
    BY <1>1, <2>1, <2>2
<1>3. UpIsLegible'
  <2>1. \A q \in Range(up') : Legible(q, "client-to-server")
    BY <1>0, <1>2 DEF UpIsLegible
  <2>2. \A q, d : Legible(q, d)' <=> Legible(q, d)
    BY <1>0, LegibleSame
  <2> QED
    BY <2>1, <2>2 DEF UpIsLegible
<1>4. \A q \in Range(up) : ~IsEndOf(q)
  BY <1>0, NoAnswerEndYet
<1>5. UpEnds'
  <2>1. \A q \in Range(up') : ~IsEndOf(q)
    BY <1>2, <1>4 DEF IsEndOf
  <2> QED
    BY <2>1 DEF UpEnds, IsEndOf, Type
<1>6. UpStarts'
  BY <1>0, UpStartsKeep
<1>7. UpRuns'
  <2>1. EndIsLast(up')
    BY <1>0, <1>4, EndsNext
  <2>2. ASSUME server # "over"
        PROVE  got["server"] <= sent["client"] + 1 /\ Runs(up', got["server"], sent["client"] + 1)
    <3>1. PICK a, b : a = got["server"] /\ b = sent["client"]
      OBVIOUS
    <3>2. a \in Nat /\ b \in Nat
      BY <3>1, LimitsAssumption DEF Shapes, Sides
    <3>3. a <= b /\ Runs(up, a, b)
      BY <1>0, <2>2, <3>1 DEF UpRuns
    <3>4. IsData(m)
      BY <1>2 DEF IsData, DataTypes
    <3>5. Runs(up \o <<m>>, a, b + 1)
      BY <1>0, <3>1, <3>2, <3>3, <3>4, RunsNext
    <3> QED
      BY <1>0, <3>1, <3>2, <3>3, <3>5
  <2>3. server' # "over" => got'["server"] <= sent'["client"] /\ Runs(up', got'["server"], sent'["client"])
    BY <1>0, <2>2
  <2> QED
    BY <2>1, <2>3 DEF UpRuns, EndIsLast, Runs, IsData, IsEndOf, Type, H
<1> QED
  BY <1>3, <1>5, <1>6, <1>7 DEF UpLegible

\* The end joins.
LEMMA UpEndKeeps ==
    ASSUME Shapes, UpLegible, NEW k, ClientEnded(k)
    PROVE  UpLegible'
<1>1. PICK types : types = {"response_end"}
  OBVIOUS
<1>0. /\ UpIsLegible /\ UpEnds /\ UpStarts /\ UpRuns /\ request' = request
      /\ UpTells(k, types) /\ IsSequence(up) /\ up' = up \o k
      /\ client = "serving" /\ client' = "over" /\ server' = server
      /\ got' = got /\ sent' = sent /\ EndsWith(k, "client", parting'["client"])
  BY <1>1 DEF UpLegible, Shapes, ClientEnded, ClientTurn, UpTells
<1>2. /\ Range(up') = Range(up) \cup Range(k) /\ IsSequence(k)
      /\ \A m \in Range(k) : Type(m) = "response_end" /\ Legible(m, "client-to-server")
  BY <1>0, <1>1, UpMembers
<1>3. UpIsLegible'
  <2>1. \A q \in Range(up') : Legible(q, "client-to-server")
    BY <1>0, <1>2 DEF UpIsLegible
  <2>2. \A q, d : Legible(q, d)' <=> Legible(q, d)
    BY <1>0, LegibleSame
  <2> QED
    BY <2>1, <2>2 DEF UpIsLegible
<1>4. \A q \in Range(up) : ~IsEndOf(q)
  BY <1>0, NoAnswerEndYet
<1>5. UpEnds'
  <2>2. ASSUME NEW q \in Range(k) PROVE EndOf(q, "client")'
    <3>1. /\ q.payload.json["kind"].word = BodyKind("client")
          /\ q.payload.json["lastSeq"].n = sent["client"] - 1
          /\ SameCode(q.payload.json, parting'["client"])
      BY <1>0 DEF EndsWith
    <3>2. BodyKind("client")' = BodyKind("client")
      BY <1>0, LegibleSame
    <3> QED
      BY <1>0, <3>1, <3>2 DEF EndOf, SameCode
  <2>3. \A q \in Range(up') : IsEndOf(q) => q \in Range(k)
    BY <1>2, <1>4
  <2> QED
    BY <1>0, <2>2, <2>3 DEF UpEnds, IsEndOf, Type
<1>6. UpStarts'
  BY <1>0, UpStartsKeep
<1>7. UpRuns'
  <2>0. \A m \in Range(k) : ~IsData(m)
    BY <1>2 DEF IsData, DataTypes
  <2>1. EndIsLast(up')
    BY <1>0, <1>2, <2>0, EndsJoined DEF UpRuns
  <2>2. ASSUME server # "over"
        PROVE  got["server"] <= sent["client"] /\ Runs(up', got["server"], sent["client"])
    <3>1. PICK a, b : a = got["server"] /\ b = sent["client"]
      OBVIOUS
    <3>2. a <= b /\ Runs(up, a, b)
      BY <1>0, <2>2, <3>1 DEF UpRuns
    <3>3. Runs(up \o k, a, b)
      BY <1>0, <1>2, <2>0, <3>2, RunsJoined
    <3> QED
      BY <1>0, <3>1, <3>2, <3>3
  <2>3. server' # "over" => got'["server"] <= sent'["client"] /\ Runs(up', got'["server"], sent'["client"])
    BY <1>0, <2>2
  <2> QED
    BY <2>1, <2>3 DEF UpRuns, EndIsLast, Runs, IsData, IsEndOf, Type, H
<1> QED
  BY <1>3, <1>5, <1>6, <1>7 DEF UpLegible

\* The server takes what is first.
LEMMA UpLeftKeeps ==
    ASSUME Shapes, UpLegible, NEW m, ServerRead(m), server' # "over" => server # "over",
           server' # "over" => got'["server"] = IF IsData(m) THEN got["server"] + 1 ELSE got["server"]
    PROVE  UpLegible'
<1>0. /\ UpIsLegible /\ UpEnds /\ UpStarts /\ UpRuns /\ IsSequence(up) /\ up # << >>
      /\ request' = request /\ sent' = sent /\ client' = client /\ m = Head(up)
      /\ parting'["client"] = parting["client"] /\ up' = Tail(up)
  BY DEF UpLegible, Shapes, ServerRead
<1>1. Left(up', up) /\ m \in Range(up) /\ Range(up) = Range(up') \cup {m}
  BY ReadMembers
<1>2. UpIsLegible'
  <2>1. \A q \in Range(up') : Legible(q, "client-to-server")
    BY <1>0, <1>1 DEF UpIsLegible
  <2>2. \A q, d : Legible(q, d)' <=> Legible(q, d)
    BY <1>0, LegibleSame
  <2> QED
    BY <2>1, <2>2 DEF UpIsLegible
<1>3. UpEnds'
  <2>1. ASSUME NEW q \in Range(up'), IsEndOf(q)
        PROVE  client' = "over" /\ EndOf(q, "client")'
    <3>1. client = "over" /\ EndOf(q, "client")
      BY <1>0, <1>1, <2>1 DEF UpEnds
    <3>2. sent'["client"] = sent["client"]
      BY <1>0
    <3> QED
      BY <1>0, <3>1, <3>2, EndSame
  <2> QED
    BY <2>1 DEF UpEnds, IsEndOf, Type
<1>4. UpStarts'
  BY <1>0 DEF UpStarts
<1>5. UpRuns'
  <2>1. EndIsLast(up')
    BY <1>0, EndsLeft DEF UpRuns
  <2>2. ASSUME server' # "over"
        PROVE  got'["server"] <= sent'["client"] /\ Runs(up', got'["server"], sent'["client"])
    <3>1. PICK a, b : a = got["server"] /\ b = sent["client"]
      OBVIOUS
    <3>2. a \in Nat /\ b \in Nat
      BY <3>1, LimitsAssumption DEF Shapes, Sides
    <3>3. a <= b /\ Runs(up, a, b)
      BY <1>0, <2>2, <3>1 DEF UpRuns
    <3>4. CASE IsData(m)
      <4>1. a + 1 <= b /\ Runs(up', a + 1, b)
        BY <1>0, <3>2, <3>3, <3>4, RunsLeft
      <4> QED
        BY <1>0, <2>2, <3>1, <3>4, <4>1
    <3>5. CASE ~IsData(m)
      <4>1. Runs(up', a, b)
        BY <1>0, <3>2, <3>3, <3>5, RunsLeft
      <4> QED
        BY <1>0, <2>2, <3>1, <3>3, <3>5, <4>1
    <3> QED
      BY <3>4, <3>5
  <2> QED
    BY <2>1, <2>2 DEF UpRuns, EndIsLast, Runs, IsData, IsEndOf, Type, H
<1> QED
  BY <1>2, <1>3, <1>4, <1>5 DEF UpLegible

\* What the server reads is no fault while everything is legible.
LEMMA ServerReadsWell ==
    ASSUME Shapes, Started, UpLegible, NEW m, ServerRead(m)
    PROVE  ~ServerFaults(m) /\ (OfStream(m) \/ Type(m) = "channel_credit") /\ server # "none"
<1>0. UpIsLegible /\ UpEnds /\ UpStarts /\ UpRuns /\ IsSequence(up) /\ up # << >>
  BY DEF UpLegible, Shapes, ServerRead
<1>1. m = Head(up) /\ m \in Range(up)
  BY ReadMembers
<1>2. /\ Accepted(m, "client-to-server") /\ (Type(m) \notin DataTypes => Understood(m))
      /\ (Type(m) \in DataTypes => H(m).flags \in OwnFlags)
      /\ H(m).stream = IF Type(m) = "channel_credit" THEN 0 ELSE 1
  BY <1>0, <1>1 DEF UpIsLegible, Legible
<1>3. server # "none"
  BY <1>0 DEF UpStarts, Started
<1>4. Type(m) \in {"response_start", "response_data", "response_end", "response_abort"} \cup Credits
  BY <1>2, AcceptedTypes
<1>5. Type(m) \in Credits => Understood(m)
  BY <1>2 DEF Credits, DataTypes
<1>6. Type(m) \notin Credits => OfStream(m)
  BY <1>2 DEF Credits, OfStream, H
<1>7. ASSUME server # "over", Type(m) = "response_data" PROVE InTurn("server", m)
  <2>1. PICK a, b : a = got["server"] /\ b = sent["client"]
    OBVIOUS
  <2>2. a \in Nat /\ b \in Nat
    BY <2>1, LimitsAssumption DEF Shapes, Sides
  <2>3. Runs(up, a, b)
    BY <1>0, <1>7, <2>1 DEF UpRuns
  <2>4. IsData(m)
    BY <1>7 DEF IsData, DataTypes
  <2>5. H(m).seq = a
    BY <1>0, <1>1, <2>2, <2>3, <2>4, RunsLeft
  <2> QED
    BY <1>2, <1>7, <2>1, <2>5 DEF InTurn, H, DataTypes
<1>8. ASSUME server # "over", Type(m) = "response_end" PROVE EndsInTurn("server", "client", m)
  <2>1. PICK a, b : a = got["server"] /\ b = sent["client"]
    OBVIOUS
  <2>2. a \in Nat /\ b \in Nat
    BY <2>1, LimitsAssumption DEF Shapes, Sides
  <2>3. a <= b /\ Runs(up, a, b) /\ EndIsLast(up)
    BY <1>0, <1>8, <2>1 DEF UpRuns
  <2>4. IsEndOf(Head(up))
    BY <1>1, <1>8 DEF IsEndOf
  <2>5. \A q \in Range(up) : ~IsData(q)
    BY <1>0, <2>3, <2>4, EndsLeft
  <2>6. a = b
    BY <1>0, <2>2, <2>3, <2>5, RunsOut
  <2>7. EndOf(m, "client")
    BY <1>0, <1>1, <2>4 DEF UpEnds
  <2>8. Understood(m)
    BY <1>2, <1>8 DEF DataTypes
  <2> QED
    BY <2>1, <2>6, <2>7, <2>8 DEF EndOf, EndsInTurn
<1>9. ~ServerFaults(m)
  <2>1. CASE Type(m) \in Credits
    BY <1>2, <1>5, <2>1 DEF ServerFaults
  <2>2. CASE OfStream(m) /\ server = "over"
    BY <1>2, <1>5, <2>2 DEF ServerFaults
  <2>3. CASE Type(m) \in {"response_start", "response_abort"} /\ server # "over"
    <3>1. Understood(m)
      BY <1>2, <2>3 DEF DataTypes
    <3> QED
      BY <1>2, <1>3, <1>5, <1>6, <2>3, <3>1 DEF ServerFaults
  <2>4. CASE Type(m) = "response_data" /\ server # "over"
    BY <1>2, <1>3, <1>5, <1>6, <1>7, <2>4 DEF ServerFaults
  <2>5. CASE Type(m) = "response_end" /\ server # "over"
    BY <1>2, <1>3, <1>5, <1>6, <1>8, <2>5 DEF ServerFaults
  <2> QED
    BY <1>4, <1>6, <2>1, <2>2, <2>3, <2>4, <2>5 DEF Credits
<1>10. OfStream(m) \/ Type(m) = "channel_credit"
  BY <1>2 DEF OfStream, H
<1> QED
  BY <1>3, <1>9, <1>10

\* A link on which nothing happens.
LEMMA DownStays ==
    ASSUME Shapes, DownLegible, down' = down,
           request' = request, sent'["server"] = sent["server"], got'["client"] = got["client"],
           parting'["server"] = parting["server"] \/ parting'["server"].how \in {"aborted", "silent", "told"},
           client' = "none" <=> client = "none", client' # "over" => client # "over",
           server' = server \/ (server' # "none" /\ server \in {"waiting", "answered"})
    PROVE  DownLegible'
<1>1. PICK k, types : k = << >> /\ types = {}
  OBVIOUS
<1>2. Tells(k, types, "server-to-client")
  BY <1>1, NoMessage DEF Tells
<1>3. down' = down \o k
  BY <1>1, ConcatEmptySeq DEF Shapes, IsSequence
<1>4. DownQuiet(k, types)
  BY <1>1, <1>2, <1>3 DEF DownQuiet, DownTells
<1> QED
  BY <1>4, DownQuietKeeps

\* Steps that leave the link to the server alone keep it legible.
LEMMA UpStays ==
    ASSUME Shapes, UpLegible, up' = up,
           request' = request, sent'["client"] = sent["client"], got'["server"] = got["server"],
           parting'["client"] = parting["client"] \/ client # "over",
           client = "over" => client' = "over", client # "none" => client' # "none",
           server' # "over" => server # "over"
    PROVE  UpLegible'
<1>1. PICK k, types : k = << >> /\ types = {}
  OBVIOUS
<1>2. Tells(k, types, "client-to-server")
  BY <1>1, NoMessage DEF Tells
<1>3. up' = up \o k
  BY <1>1, ConcatEmptySeq DEF Shapes, IsSequence
<1>4. UpQuiet(k, types)
  BY <1>1, <1>2, <1>3 DEF UpQuiet, UpTells
<1> QED
  BY <1>4, UpQuietKeeps

\* The start, on links that are empty.
LEMMA OpenedKeeps ==
    ASSUME Shapes, Started, DownLegible, UpLegible, NEW r, Opened(r)
    PROVE  DownLegible' /\ UpLegible'
<1>0. /\ server = "none" /\ client = "none" /\ client' = client /\ server' # "none"
      /\ sent' = sent /\ got' = got /\ up' = up
  BY DEF Opened, Started
<1>1. down = << >> /\ up = << >>
  BY <1>0 DEF DownLegible, UpLegible, DownStarts, UpStarts
<1>2. got["client"] <= sent["server"] /\ Runs(down, got["client"], sent["server"]) /\ EndIsLast(down)
  BY <1>0 DEF DownLegible, DownRuns
<1>3. UpLegible'
  <2>1. Range(up') = {} /\ up' = << >>
    BY <1>0, <1>1, NoMessage
  <2>2. UpRuns'
    BY <1>0 DEF UpLegible, UpRuns, EndIsLast, Runs, IsData, IsEndOf, Type, H
  <2> QED
    BY <2>1, <2>2 DEF UpLegible, UpIsLegible, UpEnds, UpStarts
<1>4. ASSUME down' = down, server' = "over" PROVE DownLegible'
  <2>1. Range(down') = {} /\ down' = << >> /\ DOMAIN down' = {}
    BY <1>1, <1>4, NoMessage
  <2>2. DownRuns'
    BY <1>0, <1>2, <1>4 DEF DownRuns, EndIsLast, Runs, IsData, IsEndOf, Type, H
  <2>3. DownStarts'
    BY <1>4, <2>1 DEF DownStarts
  <2>4. DownIsLegible' /\ DownEnds'
    BY <2>1 DEF DownIsLegible, DownEnds
  <2> QED
    BY <2>2, <2>3, <2>4 DEF DownLegible
<1>5. ASSUME NEW m, DownTells(<<m>>, {"request_start"}), server' = "waiting" PROVE DownLegible'
  <2>1. PICK k, types : k = <<m>> /\ types = {"request_start"}
    OBVIOUS
  <2>2. DownTells(k, types)
    BY <1>5, <2>1
  <2>3. /\ Joined(down', down, k) /\ Range(down') = Range(down) \cup Range(k)
        /\ \A q \in Range(k) : Type(q) \in types /\ Legible(q, "server-to-client")
        /\ IsSequence(k)
    BY <2>2, DownMembers
  <2>4. Range(k) = {m} /\ Range(down) = {}
    BY <1>1, <2>1, OneMessage, NoMessage
  <2>5. Range(down') = {m} /\ Type(m) = "request_start" /\ Legible(m, "server-to-client")
    BY <2>1, <2>3, <2>4
  <2>6. down' = <<m>>
    <3>1. down' = down \o k /\ IsSequence(k)
      BY <2>2, <2>3 DEF DownTells
    <3>2. << >> \o k = k
      BY <3>1, ConcatEmptySeq DEF IsSequence
    <3> QED
      BY <1>1, <2>1, <3>1, <3>2
  <2>7. DownIsLegible'
    <3>1. Legible(m, "server-to-client")'
      BY <2>5 DEF Legible, DataTypes, H, Type, Accepted, Understood
    <3> QED
      BY <2>5, <3>1 DEF DownIsLegible
  <2>8. ~IsEndOf(m) /\ ~IsData(m)
    BY <2>5 DEF IsEndOf, IsData, DataTypes
  <2>9. DownEnds'
    BY <2>5, <2>8 DEF DownEnds, IsEndOf, Type
  <2>10. DownStarts'
    <3>1. DOMAIN down' = {1} /\ down'[1] = m /\ down' # << >>
      BY <2>6
    <3> QED
      BY <1>0, <1>5, <2>5, <3>1 DEF DownStarts, Type
  <2>11. DownRuns'
    <3>1. PICK a, b : a = got["client"] /\ b = sent["server"]
      OBVIOUS
    <3>2. IsSequence(down) /\ \A q \in Range(k) : ~IsData(q)
      BY <2>4, <2>8 DEF Shapes
    <3>3. Runs(down \o k, a, b)
      BY <1>2, <2>3, <3>1, <3>2, RunsJoined
    <3>4. EndIsLast(down \o k)
      BY <1>2, <2>3, <3>2, EndsJoined
    <3>5. down' = down \o k
      BY <2>2 DEF DownTells
    <3> QED
      BY <1>0, <1>2, <3>1, <3>3, <3>4, <3>5 DEF DownRuns, EndIsLast, Runs, IsData, IsEndOf, Type, H
  <2> QED
    BY <2>7, <2>9, <2>10, <2>11 DEF DownLegible
<1>6. DownLegible'
  BY <1>4, <1>5 DEF Opened
<1> QED
  BY <1>3, <1>6

\* Every step of the two programs.
LEMMA ServerStepKeeps ==
    ASSUME Shapes, Started, DownLegible, UpLegible, ServerStep, CountersMove
    PROVE  DownLegible' /\ UpLegible'
<1>1. ASSUME NEW r, Opened(r) PROVE DownLegible' /\ UpLegible'
  BY <1>1, OpenedKeeps
<1>2. ASSUME ServerTurn PROVE UpLegible'
  <2>1. /\ up' = up /\ request' = request /\ client' = client /\ sent'["client"] = sent["client"]
        /\ got'["server"] = got["server"] /\ parting'["client"] = parting["client"]
        /\ server' # "over" => server # "over"
    BY <1>2 DEF ServerTurn
  <2> QED
    BY <2>1, UpStays
<1>3. ASSUME NEW m, ServerSent(m) PROVE DownLegible' /\ UpLegible'
  <2>1. ServerTurn
    BY <1>3 DEF ServerSent
  <2>2. DownLegible'
    BY <1>3, DownNextKeeps
  <2> QED
    BY <1>2, <2>1, <2>2
<1>4. ASSUME NEW k, ServerEnded(k) PROVE DownLegible' /\ UpLegible'
  <2>1. ServerTurn
    BY <1>4 DEF ServerEnded
  <2>2. DownLegible'
    BY <1>4, DownEndKeeps
  <2> QED
    BY <1>2, <2>1, <2>2
<1>5. ASSUME NEW k, ServerBroke(k) PROVE DownLegible' /\ UpLegible'
  <2>1. ServerTurn
    BY <1>5 DEF ServerBroke
  <2>2. PICK types : types = {"request_abort"}
    OBVIOUS
  <2>3. DownQuiet(k, types)
    BY <1>5, <2>1, <2>2 DEF DownQuiet, Quiet, ServerBroke, ServerTurn
  <2>4. DownLegible'
    BY <2>3, DownQuietKeeps
  <2> QED
    BY <1>2, <2>1, <2>4
<1> QED
  BY <1>1, <1>3, <1>4, <1>5 DEF ServerStep

\* The steps of the local side keep both links legible.
LEMMA ClientStepKeeps ==
    ASSUME Shapes, DownLegible, UpLegible, ClientStep
    PROVE  DownLegible' /\ UpLegible'
<1>1. DownLegible'
  <2>1. ClientTurn
    BY DEF ClientStep, ClientAnswered, ClientSent, ClientEnded, ClientFailed
  <2>2. /\ down' = down /\ request' = request /\ server' = server /\ sent'["server"] = sent["server"]
        /\ got'["client"] = got["client"] /\ parting'["server"] = parting["server"]
        /\ client # "none" /\ client' # "none" /\ client # "over"
    BY <2>1 DEF ClientTurn
  <2> QED
    BY <2>2, DownStays
<1>2. ASSUME NEW k, ClientAnswered(k) PROVE UpLegible'
  <2>1. PICK types : types = {"response_start"}
    OBVIOUS
  <2>2. UpQuiet(k, types)
    BY <1>2, <2>1 DEF UpQuiet, Quiet, ClientAnswered, ClientTurn
  <2> QED
    BY <2>2, UpQuietKeeps
<1>3. ASSUME NEW m, ClientSent(m) PROVE UpLegible'
  BY <1>3, UpNextKeeps
<1>4. ASSUME NEW k, ClientEnded(k) PROVE UpLegible'
  BY <1>4, UpEndKeeps
<1>5. ASSUME NEW k, ClientFailed(k) PROVE UpLegible'
  <2>1. PICK types : types = {"response_abort"}
    OBVIOUS
  <2>2. UpQuiet(k, types)
    BY <1>5, <2>1 DEF UpQuiet, Quiet, ClientFailed, ClientTurn
  <2> QED
    BY <2>2, UpQuietKeeps
<1> QED
  BY <1>1, <1>2, <1>3, <1>4, <1>5 DEF ClientStep

\* What the client reads does not fail it, and leaves both links legible.
LEMMA ClientReadingKeeps ==
    ASSUME Shapes, DownLegible, UpLegible, ClientReading
    PROVE  DownLegible' /\ UpLegible' /\ fault' = "none"
<1>1. PICK m : \/ ClientFaulted(m) \/ ClientLeft(m) \/ ClientAsked(m) \/ (\E k : ClientCounted(m, k))
               \/ ClientHeard(m) \/ ClientTold(m)
  BY DEF ClientReading
<1>2. ClientRead(m)
  BY <1>1 DEF ClientFaulted, ClientTook, ClientLeft, ClientAsked, ClientCounted, ClientHeard, ClientTold
<1>3. ~ClientFaults(m) /\ (OfStream(m) \/ Type(m) = "channel_credit")
      /\ (client = "none" <=> Type(m) = "request_start")
  BY <1>2, ClientReadsWell
<1>4. /\ request' = request /\ server' = server /\ sent' = sent /\ fault = "none"
      /\ parting'["server"] = parting["server"]
  BY <1>2 DEF ClientRead
<1>5. CASE ClientLeft(m)
  <2>1. /\ client' = client /\ got' = got /\ parting' = parting /\ up' = up /\ fault' = fault
        /\ (~OfStream(m) \/ Type(m) \in Credits \/ client = "over")
    BY <1>5 DEF ClientLeft, ClientTook
  <2>2. client # "none"
    BY <1>3, <2>1 DEF Credits
  <2>3. client # "over" => ~IsData(m)
    BY <1>3, <2>1 DEF Credits, IsData, DataTypes
  <2>4. DownLegible'
    BY <1>2, <2>1, <2>2, <2>3, DownLeftKeeps
  <2>5. UpLegible'
    BY <1>4, <2>1, UpStays
  <2> QED
    BY <1>4, <2>1, <2>4, <2>5
<1>6. CASE ClientAsked(m)
  <2>1. /\ client = "none" /\ client' = "asking" /\ got' = got /\ parting' = parting /\ up' = up
        /\ fault' = fault /\ Type(m) = "request_start"
    BY <1>6 DEF ClientAsked, ClientTook
  <2>2. ~IsData(m)
    BY <2>1 DEF IsData, DataTypes
  <2>3. DownLegible'
    BY <1>2, <2>1, <2>2, DownLeftKeeps
  <2>4. UpLegible'
    BY <1>4, <2>1, UpStays
  <2> QED
    BY <1>4, <2>1, <2>3, <2>4
<1>7. ASSUME NEW k, ClientCounted(m, k) PROVE DownLegible' /\ UpLegible' /\ fault' = "none"
  <2>1. /\ client \in {"asking", "serving"} /\ client' \in {client, "over"} /\ fault' = fault
        /\ got'["client"] = got["client"] + 1 /\ Type(m) = "request_data"
    BY <1>7 DEF ClientCounted, ClientTook
  <2>2. IsData(m)
    BY <2>1 DEF IsData, DataTypes
  <2>3. DownLegible'
    BY <1>2, <2>1, <2>2, DownLeftKeeps
  <2>4. PICK types : types = Credits \cup {"response_abort"}
    OBVIOUS
  <2>5. UpQuiet(k, types)
    BY <1>4, <1>7, <2>1, <2>4 DEF UpQuiet, Quiet, ClientCounted
  <2>6. UpLegible'
    BY <2>5, UpQuietKeeps
  <2> QED
    BY <1>4, <2>1, <2>3, <2>6
<1>8. CASE ClientHeard(m)
  <2>1. /\ client # "none" /\ client' = client /\ got' = got /\ parting' = parting /\ up' = up
        /\ fault' = fault /\ Type(m) = "request_end"
    BY <1>8 DEF ClientHeard, ClientTook
  <2>2. ~IsData(m)
    BY <2>1 DEF IsData, DataTypes
  <2>3. DownLegible'
    BY <1>2, <2>1, <2>2, DownLeftKeeps
  <2>4. UpLegible'
    BY <1>4, <2>1, UpStays
  <2> QED
    BY <1>4, <2>1, <2>3, <2>4
<1>9. CASE ClientTold(m)
  <2>1. /\ client \in {"asking", "serving"} /\ client' = "over" /\ got' = got /\ up' = up
        /\ fault' = fault
    BY <1>9 DEF ClientTold, ClientTook
  <2>2. DownLegible'
    BY <1>2, <2>1, DownLeftKeeps
  <2>3. UpLegible'
    BY <1>4, <2>1, UpStays
  <2> QED
    BY <1>4, <2>1, <2>2, <2>3
<1>10. ~ClientFaulted(m)
  BY <1>3 DEF ClientFaulted
<1> QED
  BY <1>1, <1>5, <1>6, <1>7, <1>8, <1>9, <1>10

\* What the server reads does not fail it, and leaves both links legible.
LEMMA ServerReadingKeeps ==
    ASSUME Shapes, Started, DownLegible, UpLegible, ServerReading
    PROVE  DownLegible' /\ UpLegible' /\ fault' = "none"
<1>1. PICK m : \/ ServerFaulted(m) \/ ServerLeft(m) \/ (\E k : ServerCounted(m, k)) \/ ServerAnswered(m)
               \/ ServerHeard(m) \/ ServerTold(m)
  BY DEF ServerReading
<1>2. ServerRead(m)
  BY <1>1 DEF ServerFaulted, ServerTook, ServerLeft, ServerCounted, ServerAnswered, ServerHeard, ServerTold
<1>3. ~ServerFaults(m) /\ (OfStream(m) \/ Type(m) = "channel_credit") /\ server # "none"
  BY <1>2, ServerReadsWell
<1>4. /\ request' = request /\ client' = client /\ sent' = sent /\ fault = "none"
      /\ parting'["client"] = parting["client"]
  BY <1>2 DEF ServerRead
<1>5. CASE ServerLeft(m)
  <2>1. /\ server' = server /\ got' = got /\ parting' = parting /\ down' = down /\ fault' = fault
        /\ (~OfStream(m) \/ Type(m) \in Credits \/ server = "over" \/ Type(m) = "response_start")
    BY <1>5 DEF ServerLeft, ServerTook
  <2>2. server # "over" => ~IsData(m)
    BY <1>3, <2>1 DEF Credits, IsData, DataTypes
  <2>3. UpLegible'
    BY <1>2, <2>1, <2>2, UpLeftKeeps
  <2>4. DownLegible'
    BY <1>4, <2>1, DownStays
  <2> QED
    BY <1>4, <2>1, <2>3, <2>4
<1>6. ASSUME NEW k, ServerCounted(m, k) PROVE DownLegible' /\ UpLegible' /\ fault' = "none"
  <2>1. /\ server \in {"waiting", "answered"} /\ server' = server /\ parting' = parting
        /\ got'["server"] = got["server"] + 1 /\ got'["client"] = got["client"]
        /\ fault' = fault /\ Type(m) = "response_data" /\ DownTells(k, Credits)
    BY <1>6 DEF ServerCounted, ServerTook
  <2>2. IsData(m)
    BY <2>1 DEF IsData, DataTypes
  <2>3. UpLegible'
    BY <1>2, <2>1, <2>2, UpLeftKeeps
  <2>4. PICK types : types = Credits
    OBVIOUS
  <2>5. DownQuiet(k, types)
    BY <1>4, <2>1, <2>4 DEF DownQuiet, Quiet
  <2>6. DownLegible'
    BY <2>5, DownQuietKeeps
  <2> QED
    BY <1>4, <2>1, <2>3, <2>6
<1>7. CASE ServerAnswered(m) \/ ServerHeard(m)
  <2>1. /\ server \in {"waiting", "answered"} /\ server' \in {"answered", "over"} /\ got' = got
        /\ parting' = parting /\ down' = down
        /\ fault' = fault /\ Type(m) \in {"response_start", "response_end"}
    BY <1>7 DEF ServerAnswered, ServerHeard, ServerTook
  <2>2. ~IsData(m)
    BY <2>1 DEF IsData, DataTypes
  <2>3. UpLegible'
    BY <1>2, <2>1, <2>2, UpLeftKeeps
  <2>4. DownLegible'
    BY <1>4, <2>1, DownStays
  <2> QED
    BY <1>4, <2>1, <2>3, <2>4
<1>8. CASE ServerTold(m)
  <2>1. /\ server \in {"waiting", "answered"} /\ server' = "over" /\ got' = got
        /\ parting'["server"].how \in {"silent", "told"} /\ down' = down /\ fault' = fault
    BY <1>8 DEF ServerTold, ServerTook
  <2>2. UpLegible'
    BY <1>2, <2>1, UpLeftKeeps
  <2>3. DownLegible'
    BY <1>4, <2>1, DownStays
  <2> QED
    BY <1>4, <2>1, <2>2, <2>3
<1>9. ~ServerFaulted(m)
  BY <1>3 DEF ServerFaulted
<1> QED
  BY <1>1, <1>5, <1>6, <1>7, <1>8, <1>9

\* As long as nobody else writes, no side faults and everything stays legible.
LEMMA LegiblesKeep ==
    ASSUME Shapes, Started, Legibles, Stepped, CountersMove
    PROVE  Legibles'
<1>1. CASE stray'
  BY <1>1 DEF Legibles
<1>2. ASSUME NEW m, Strayed(m) PROVE stray'
  BY <1>2 DEF Strayed
<1>3. CASE ~stray' /\ (ServerStep \/ ClientStep \/ ClientReading \/ ServerReading)
  <2>1. stray' = stray /\ (ServerStep \/ ClientStep => fault' = fault)
    BY <1>3 DEF ServerStep, ClientStep, ClientReading, ServerReading, Opened, ServerSent, ServerEnded,
           ServerBroke, ServerTurn, ClientTurn, ClientAnswered, ClientSent, ClientEnded, ClientFailed,
           ClientRead, ClientFaulted, ClientTook, ClientLeft, ClientAsked, ClientCounted, ClientHeard, ClientTold,
           ServerRead, ServerFaulted, ServerTook, ServerLeft, ServerCounted, ServerAnswered, ServerHeard, ServerTold
  <2>2. fault = "none" /\ DownLegible /\ UpLegible
    BY <1>3, <2>1 DEF Legibles, DownLegible, UpLegible
  <2>3. DownLegible' /\ UpLegible' /\ fault' = "none"
    <3>1. CASE ServerStep
      BY <2>1, <2>2, <3>1, ServerStepKeeps
    <3>2. CASE ClientStep
      BY <2>1, <2>2, <3>2, ClientStepKeeps
    <3>3. CASE ClientReading
      BY <2>2, <3>3, ClientReadingKeeps
    <3>4. CASE ServerReading
      BY <2>2, <3>4, ServerReadingKeeps
    <3> QED
      BY <1>3, <3>1, <3>2, <3>3, <3>4
  <2> QED
    BY <2>3 DEF Legibles, DownLegible, UpLegible
<1> QED
  BY <1>1, <1>2, <1>3 DEF Stepped

-----------------------------------------------------------------------------
(* An end arrives.                                                             *)

\* A message that is on its way stays so until it is read.
LEMMA HasJoined ==
    ASSUME Shapes, NEW k, NEW types, NEW type
    PROVE  /\ DownTells(k, types) /\ Has(down, type) => Has(down', type)
           /\ UpTells(k, types) /\ Has(up, type) => Has(up', type)
<1>1. DownTells(k, types) => Range(down) \subseteq Range(down')
  BY DownMembers
<1>2. UpTells(k, types) => Range(up) \subseteq Range(up')
  BY UpMembers
<1> QED
  BY <1>1, <1>2 DEF Has

\* A frame is in the link until it is the one that is read.
LEMMA HasLeft ==
    ASSUME Shapes, NEW m, NEW type
    PROVE  /\ ClientRead(m) /\ Has(down, type) => Has(down', type) \/ (OfStream(m) /\ Type(m) = type)
           /\ ServerRead(m) /\ Has(up, type) => Has(up', type) \/ (OfStream(m) /\ Type(m) = type)
<1>1. ClientRead(m) => Range(down) = Range(down') \cup {m}
  BY ReadMembers
<1>2. ServerRead(m) => Range(up) = Range(up') \cup {m}
  BY ReadMembers
<1> QED
  BY <1>1, <1>2 DEF Has, OfStream, H

\* A side that parts puts its end into the link.
LEMMA HasSaid ==
    ASSUME Shapes, NEW k, NEW types, NEW parted
    PROVE  /\ DownTells(k, types) /\ EndsWith(k, "server", parted) => Has(down', "request_end")
           /\ UpTells(k, types) /\ EndsWith(k, "client", parted) => Has(up', "response_end")
<1>1. DownTells(k, types) => Range(k) \subseteq Range(down')
  BY DownMembers
<1>2. UpTells(k, types) => Range(k) \subseteq Range(up')
  BY UpMembers
<1>3. EndType("server") = "request_end" /\ EndType("client") = "response_end"
  BY DEF EndType
<1>4. ASSUME DownTells(k, types), EndsWith(k, "server", parted) PROVE Has(down', "request_end")
  <2>1. PICK m \in Range(k) : Readable(m.bytes, m.payload, MaxFrame)
    BY <1>4 DEF EndsWith
  <2>2. H(m).stream = 1 /\ Type(m) = "request_end"
    BY <1>3, <1>4, <2>1 DEF EndsWith
  <2> QED
    BY <1>1, <1>4, <2>1, <2>2 DEF Has
<1>5. ASSUME UpTells(k, types), EndsWith(k, "client", parted) PROVE Has(up', "response_end")
  <2>1. PICK m \in Range(k) : Readable(m.bytes, m.payload, MaxFrame)
    BY <1>5 DEF EndsWith
  <2>2. H(m).stream = 1 /\ Type(m) = "response_end"
    BY <1>3, <1>5, <2>1 DEF EndsWith
  <2> QED
    BY <1>2, <1>5, <2>1, <2>2 DEF Has
<1> QED
  BY <1>4, <1>5

\* What is understood is an object.
LEMMA UnderstoodIsObject ==
    ASSUME NEW m, Type(m) \in MetadataTypes, Understood(m)
    PROVE  m.payload.json # Undefined
<1>1. Type(m) \in FrameTypes
  BY Types
<1>2. IsMetadataFor(m.payload.json, Type(m))
  BY DEF Understood, Decodable
<1> QED
  BY <1>1, <1>2, ObjectsOnly

\* The two halves of what is coming.
AnswerComing ==
    parting["client"].how \in {"ended", "closed"} =>
        server = "over" \/ fault # "none" \/ Has(up, "response_end")
UploadComing ==
    parting["server"].how \in {"ended", "closed"} =>
        \/ client = "over" \/ fault # "none" \/ Has(down, "request_end")
        \/ client # "none" /\ local.ended # Undefined

\* A side that is asked for an end, or ends itself.
LEMMA AnswerComes ==
    ASSUME Shapes, AnswerComing, Stepped
    PROVE  AnswerComing'
<1>1. ASSUME parting'["client"] = parting["client"], server = "over" => server' = "over",
             fault = "none", Has(up, "response_end") => server' = "over" \/ fault' # "none" \/ Has(up', "response_end")
      PROVE  AnswerComing'
  BY <1>1 DEF AnswerComing, Has, H, Type
<1>2. ASSUME parting'["client"].how \notin {"ended", "closed"} PROVE AnswerComing'
  BY <1>2 DEF AnswerComing
<1>3. CASE ServerStep
  <2>1. /\ parting'["client"] = parting["client"] /\ (server = "over" => server' = "over")
        /\ fault = "none" /\ up' = up
    BY <1>3 DEF ServerStep, Opened, ServerSent, ServerEnded, ServerBroke, ServerTurn
  <2> QED
    BY <1>1, <2>1
<1>4. CASE ClientStep
  <2>1. server' = server /\ fault = "none" /\ ClientTurn
    BY <1>4 DEF ClientStep, ClientAnswered, ClientSent, ClientEnded, ClientFailed, ClientTurn
  <2>2. ASSUME NEW k, NEW types, UpTells(k, types), parting' = parting PROVE AnswerComing'
    BY <1>1, <2>1, <2>2, HasJoined
  <2>3. ASSUME NEW k, ClientEnded(k) PROVE AnswerComing'
    <3>2. PICK types : UpTells(k, types) /\ EndsWith(k, "client", parting'["client"])
      BY <2>3 DEF ClientEnded
    <3>3. Has(up', "response_end")
      BY <3>2, HasSaid
    <3> QED
      BY <3>3 DEF AnswerComing, Has, H, Type
  <2>4. ASSUME NEW k, ClientFailed(k) PROVE AnswerComing'
    BY <1>2, <2>4 DEF ClientFailed
  <2>5. ASSUME NEW k, ClientAnswered(k) PROVE AnswerComing'
    BY <2>2, <2>5 DEF ClientAnswered
  <2>6. ASSUME NEW m, ClientSent(m) PROVE AnswerComing'
    BY <2>2, <2>6 DEF ClientSent
  <2> QED
    BY <1>4, <2>3, <2>4, <2>5, <2>6 DEF ClientStep
<1>5. CASE ClientReading
  <2>1. PICK m : \/ ClientFaulted(m) \/ ClientLeft(m) \/ ClientAsked(m) \/ (\E k : ClientCounted(m, k))
                 \/ ClientHeard(m) \/ ClientTold(m)
    BY <1>5 DEF ClientReading
  <2>2. server' = server /\ fault = "none"
    BY <2>1 DEF ClientRead, ClientFaulted, ClientTook, ClientLeft, ClientAsked, ClientCounted, ClientHeard, ClientTold
  <2>3. CASE ClientFaulted(m) \/ ClientLeft(m) \/ ClientAsked(m) \/ ClientHeard(m)
    <3>1. up' = up /\ parting' = parting
      BY <2>3 DEF ClientFaulted, ClientLeft, ClientAsked, ClientHeard
    <3> QED
      BY <1>1, <2>2, <3>1
  <2>4. ASSUME NEW k, ClientCounted(m, k) PROVE AnswerComing'
    <3>1. PICK types : types = Credits \cup {"response_abort"}
      OBVIOUS
    <3>2. UpTells(k, types) /\ (parting' = parting \/ parting'["client"].how = "aborted")
      BY <2>4, <3>1 DEF ClientCounted
    <3>3. Has(up, "response_end") => Has(up', "response_end")
      BY <3>2, HasJoined
    <3> QED
      BY <1>1, <1>2, <2>2, <3>2, <3>3
  <2>5. CASE ClientTold(m)
    BY <1>2, <2>5 DEF ClientTold
  <2> QED
    BY <2>1, <2>3, <2>4, <2>5
<1>6. CASE ServerReading
  <2>1. PICK m : \/ ServerFaulted(m) \/ ServerLeft(m) \/ (\E k : ServerCounted(m, k)) \/ ServerAnswered(m)
                 \/ ServerHeard(m) \/ ServerTold(m)
    BY <1>6 DEF ServerReading
  <2>2. ServerRead(m)
    BY <2>1 DEF ServerFaulted, ServerTook, ServerLeft, ServerCounted, ServerAnswered, ServerHeard, ServerTold
  <2>3. parting'["client"] = parting["client"] /\ fault = "none"
    BY <2>2 DEF ServerRead
  <2>4. server = "over" => server' = "over"
    BY <2>1 DEF ServerFaulted, ServerTook, ServerLeft, ServerCounted, ServerAnswered, ServerHeard, ServerTold
  <2>5. server' = "over" \/ fault' # "none" \/ ~OfStream(m) \/ Type(m) # "response_end"
    BY <2>1 DEF ServerFaulted, ServerTook, ServerLeft, ServerCounted, ServerAnswered, ServerHeard, ServerTold, Credits
  <2>6. Has(up, "response_end") => Has(up', "response_end") \/ (OfStream(m) /\ Type(m) = "response_end")
    BY <2>2, HasLeft
  <2> QED
    BY <1>1, <2>3, <2>4, <2>5, <2>6
<1>7. ASSUME NEW m, Strayed(m) PROVE AnswerComing'
  <2>1. parting' = parting /\ server' = server /\ fault = "none" /\ (up = << >> \/ up' = up)
    BY <1>7 DEF Strayed
  <2>2. Has(up, "response_end") => Has(up', "response_end")
    BY <2>1, NoMessage DEF Has
  <2> QED
    BY <1>1, <2>1, <2>2
<1> QED
  BY <1>3, <1>4, <1>5, <1>6, <1>7 DEF Stepped

\* The end of an upload is under way until the client had it.
LEMMA UploadComes ==
    ASSUME Shapes, Started, Parted, UploadComing, Stepped
    PROVE  UploadComing'
<1>1. ASSUME parting'["server"] = parting["server"], client = "over" => client' = "over", fault = "none",
             Has(down, "request_end") =>
                 \/ client' = "over" \/ fault' # "none" \/ Has(down', "request_end")
                 \/ client' # "none" /\ local'.ended # Undefined,
             client # "none" /\ local.ended # Undefined =>
                 client' = "over" \/ (client' # "none" /\ local'.ended # Undefined)
      PROVE  UploadComing'
  BY <1>1 DEF UploadComing, Has, H, Type
<1>2. ASSUME parting'["server"].how \notin {"ended", "closed"} PROVE UploadComing'
  BY <1>2 DEF UploadComing
<1>3. CASE ServerStep
  <2>1. ASSUME NEW r, Opened(r) PROVE UploadComing'
    <3>1. parting["server"] = Nothing
      BY <2>1 DEF Opened, Parted
    <3>2. parting'["server"].how \in {"none", "refused"}
      BY <2>1, <3>1 DEF Opened, Nothing
    <3> QED
      BY <1>2, <3>2
  <2>2. ASSUME NEW m, ServerSent(m) PROVE UploadComing'
    <3>1. parting'["server"].how = "none"
      BY <2>2 DEF ServerSent, Nothing
    <3> QED
      BY <1>2, <3>1
  <2>3. ASSUME NEW k, ServerEnded(k) PROVE UploadComing'
    <3>1. PICK types : types = {"request_end"}
      OBVIOUS
    <3>2. DownTells(k, types) /\ EndsWith(k, "server", parting'["server"])
      BY <2>3, <3>1 DEF ServerEnded
    <3>3. Has(down', "request_end")
      BY <3>2, HasSaid
    <3> QED
      BY <3>3 DEF UploadComing, Has, H, Type
  <2>4. ASSUME NEW k, ServerBroke(k) PROVE UploadComing'
    BY <1>2, <2>4 DEF ServerBroke
  <2> QED
    BY <1>3, <2>1, <2>2, <2>3, <2>4 DEF ServerStep
<1>4. CASE ClientStep
  <2>1. ClientTurn
    BY <1>4 DEF ClientStep, ClientAnswered, ClientSent, ClientEnded, ClientFailed
  <2>2. /\ parting'["server"] = parting["server"] /\ down' = down /\ fault = "none"
        /\ client # "over" /\ client' # "none" /\ local' = local
    BY <2>1 DEF ClientTurn
  <2> QED
    BY <1>1, <2>2
<1>5. CASE ClientReading
  <2>1. PICK m : \/ ClientFaulted(m) \/ ClientLeft(m) \/ ClientAsked(m) \/ (\E k : ClientCounted(m, k))
                 \/ ClientHeard(m) \/ ClientTold(m)
    BY <1>5 DEF ClientReading
  <2>2. ClientRead(m)
    BY <2>1 DEF ClientFaulted, ClientTook, ClientLeft, ClientAsked, ClientCounted, ClientHeard, ClientTold
  <2>3. parting'["server"] = parting["server"] /\ fault = "none"
    BY <2>2 DEF ClientRead
  <2>4. Has(down, "request_end") => Has(down', "request_end") \/ (OfStream(m) /\ Type(m) = "request_end")
    BY <2>2, HasLeft
  <2>5. CASE ClientFaulted(m)
    <3>1. fault' # "none"
      BY <2>5 DEF ClientFaulted
    <3> QED
      BY <3>1 DEF UploadComing
  <2>6. CASE ClientLeft(m)
    <3>1. /\ client' = client /\ local' = local
          /\ client = "over" \/ ~OfStream(m) \/ Type(m) # "request_end"
      BY <2>6 DEF ClientLeft, Credits
    <3> QED
      BY <1>1, <2>3, <2>4, <3>1
  <2>7. CASE ClientAsked(m)
    <3>1. client = "none" /\ Type(m) # "request_end"
      BY <2>7 DEF ClientAsked
    <3> QED
      BY <1>1, <2>3, <2>4, <3>1
  <2>8. ASSUME NEW k, ClientCounted(m, k) PROVE UploadComing'
    <3>1. /\ client' \in {client, "over"} /\ local' = local /\ Type(m) # "request_end"
      BY <2>8 DEF ClientCounted
    <3> QED
      BY <1>1, <2>3, <2>4, <3>1
  <2>9. CASE ClientHeard(m)
    <3>1. m.payload.json # Undefined
      <4>1. Type(m) \in MetadataTypes /\ Understood(m)
        BY <2>9, Types DEF ClientHeard, EndsInTurn
      <4> QED
        BY <4>1, UnderstoodIsObject
    <3>2. client' # "none" /\ local'.ended = m.payload.json
      BY <2>9 DEF ClientHeard, Started
    <3> QED
      BY <3>1, <3>2 DEF UploadComing
  <2>10. CASE ClientTold(m)
    BY <2>10 DEF ClientTold, UploadComing
  <2> QED
    BY <2>1, <2>5, <2>6, <2>7, <2>8, <2>9, <2>10
<1>6. CASE ServerReading
  <2>1. PICK m : \/ ServerFaulted(m) \/ ServerLeft(m) \/ (\E k : ServerCounted(m, k)) \/ ServerAnswered(m)
                 \/ ServerHeard(m) \/ ServerTold(m)
    BY <1>6 DEF ServerReading
  <2>2. client' = client /\ local' = local /\ fault = "none"
    BY <2>1 DEF ServerRead, ServerFaulted, ServerTook, ServerLeft, ServerCounted, ServerAnswered, ServerHeard, ServerTold
  <2>3. parting' = parting \/ parting'["server"].how \in {"silent", "told"}
    BY <2>1 DEF ServerFaulted, ServerLeft, ServerCounted, ServerAnswered, ServerHeard, ServerTold
  <2>4. down' = down \/ \E k : DownTells(k, Credits)
    BY <2>1 DEF ServerFaulted, ServerLeft, ServerCounted, ServerAnswered, ServerHeard, ServerTold
  <2>5. Has(down, "request_end") => Has(down', "request_end")
    BY <2>4, HasJoined
  <2> QED
    BY <1>1, <1>2, <2>2, <2>3, <2>5
<1>7. ASSUME NEW m, Strayed(m) PROVE UploadComing'
  <2>1. /\ parting' = parting /\ client' = client /\ local' = local /\ fault = "none"
        /\ (down = << >> \/ down' = down)
    BY <1>7 DEF Strayed
  <2>2. Has(down, "request_end") => Has(down', "request_end")
    BY <2>1, NoMessage DEF Has
  <2> QED
    BY <1>1, <2>1, <2>2
<1> QED
  BY <1>3, <1>4, <1>5, <1>6, <1>7 DEF Stepped

\* What came of an end is what was said.
LEMMA EndsCameKeeps ==
    ASSUME Shapes, Started, Legibles, EndsCame, Stepped
    PROVE  EndsCame'
<1>1. CASE stray'
  BY <1>1 DEF EndsCame
<1>2. CASE ~stray' /\ ServerStep
  <2>0. (\E r : Opened(r)) \/ ServerTurn
    BY <1>2 DEF ServerStep, ServerSent, ServerEnded, ServerBroke
  <2>1. /\ ~stray /\ client' = client /\ local' = local /\ parting'["client"] = parting["client"]
    BY <1>2, <2>0 DEF Opened, ServerTurn
  <2>2. (public' # None /\ public'.ended # Undefined) => public' = public
    <3>1. public' \in {public, BadGateway}
      BY <1>2 DEF ServerStep, Opened, ServerSent, ServerEnded, ServerBroke
    <3>2. BadGateway.ended = Undefined
      BY DEF BadGateway
    <3> QED
      BY <3>1, <3>2
  <2>3. \/ client = "none" \/ parting' = parting \/ parting["server"] = Nothing
        \/ parting'["server"].how = "aborted"
    BY <1>2 DEF ServerStep, Opened, ServerSent, ServerEnded, ServerBroke, Started
  <2>4. SameCode(local.ended, parting["server"]) => \/ parting' # parting
                                                    \/ SameCode(local.ended, parting'["server"])
    OBVIOUS
  <2>5. parting'["server"].how = "aborted" => SameCode(local.ended, parting'["server"]) /\ parting'["server"] # Nothing
    BY DEF SameCode, Nothing
  <2> QED
    BY <2>1, <2>2, <2>3, <2>4, <2>5 DEF EndsCame, SameCode
<1>3. CASE ~stray' /\ ClientStep
  <2>1. ClientTurn
    BY <1>3 DEF ClientStep, ClientAnswered, ClientSent, ClientEnded, ClientFailed
  <2>2. /\ ~stray /\ client \notin {"none", "over"} /\ local' = local /\ public' = public
        /\ parting'["server"] = parting["server"]
    BY <1>3, <2>1 DEF ClientTurn
  <2> QED
    BY <2>2 DEF EndsCame, SameCode
<1>4. CASE ~stray' /\ ClientReading
  <2>1. PICK m : \/ ClientFaulted(m) \/ ClientLeft(m) \/ ClientAsked(m) \/ (\E k : ClientCounted(m, k))
                 \/ ClientHeard(m) \/ ClientTold(m)
    BY <1>4 DEF ClientReading
  <2>2. ClientRead(m)
    BY <2>1 DEF ClientFaulted, ClientTook, ClientLeft, ClientAsked, ClientCounted, ClientHeard, ClientTold
  <2>3. ~stray /\ public' = public /\ parting'["server"] = parting["server"]
    BY <1>4, <2>2 DEF ClientRead
  <2>4. client = "over" => client' = "over" /\ parting'["client"] = parting["client"]
    BY <2>1 DEF ClientFaulted, ClientLeft, ClientAsked, ClientCounted, ClientHeard, ClientTold
  <2>5. \/ local' = local /\ (client' # "none" => client # "none")
        \/ client' # "none" /\ local'.ended = Undefined
        \/ ClientHeard(m)
    BY <2>1 DEF ClientFaulted, ClientLeft, ClientAsked, ClientCounted, ClientTold
  <2>6. ASSUME ClientHeard(m) PROVE parting["server"] # Nothing /\ SameCode(local'.ended, parting["server"])
    <3>1. DownEnds /\ m \in Range(down)
      BY <2>2, <2>3, ReadMembers DEF Legibles
    <3>2. IsEndOf(m) /\ local'.ended = m.payload.json
      BY <2>6 DEF ClientHeard, IsEndOf, Started
    <3> QED
      BY <3>1, <3>2 DEF DownEnds, EndOf
  <2> QED
    BY <2>3, <2>4, <2>5, <2>6 DEF EndsCame, SameCode
<1>5. CASE ~stray' /\ ServerReading
  <2>1. PICK m : \/ ServerFaulted(m) \/ ServerLeft(m) \/ (\E k : ServerCounted(m, k)) \/ ServerAnswered(m)
                 \/ ServerHeard(m) \/ ServerTold(m)
    BY <1>5 DEF ServerReading
  <2>2. ServerRead(m)
    BY <2>1 DEF ServerFaulted, ServerTook, ServerLeft, ServerCounted, ServerAnswered, ServerHeard, ServerTold
  <2>3. ~stray /\ client' = client /\ local' = local /\ parting'["client"] = parting["client"]
    BY <1>5, <2>2 DEF ServerRead
  <2>4. parting' = parting \/ parting'["server"].how \in {"silent", "told"}
    BY <2>1 DEF ServerFaulted, ServerLeft, ServerCounted, ServerAnswered, ServerHeard, ServerTold
  <2>5. public' = public \/ public'.ended = Undefined \/ (ServerHeard(m) /\ server = "answered")
    BY <2>1 DEF ServerFaulted, ServerLeft, ServerCounted, ServerAnswered, ServerHeard, ServerTold, BadGateway
  <2>6. ASSUME ServerHeard(m), server = "answered"
        PROVE  client = "over" /\ SameCode(public'.ended, parting["client"])
    <3>1. UpEnds /\ m \in Range(up)
      BY <2>2, <2>3, ReadMembers DEF Legibles
    <3>2. IsEndOf(m) /\ public'.ended = m.payload.json
      BY <2>6 DEF ServerHeard, IsEndOf, Started
    <3> QED
      BY <3>1, <3>2 DEF UpEnds, EndOf
  <2>7. parting'["server"].how \in {"silent", "told"} => SameCode(local.ended, parting'["server"]) /\ parting'["server"] # Nothing
    BY DEF SameCode, Nothing
  <2> QED
    BY <2>3, <2>4, <2>5, <2>6, <2>7 DEF EndsCame, SameCode
<1>6. ASSUME NEW m, Strayed(m) PROVE EndsCame'
  BY <1>6 DEF Strayed, EndsCame
<1> QED
  BY <1>1, <1>2, <1>3, <1>4, <1>5, <1>6 DEF Stepped

-----------------------------------------------------------------------------
(* Headers come as they were said.                                             *)

\* What a start says of the headers is what JSON leaves of it.
LEMMA StartSays ==
    ASSUME NEW r, NEW meta, meta = Json(RequestStart(r))
    PROVE  /\ meta["kind"].word = r.kind
           /\ meta["headers"].items = IF r.kind = "http" THEN ForwardedHttp(r.headers)
                                                         ELSE ForwardedWebSocket(r.headers)
<1>1. PICK start : start = RequestStart(r)
  OBVIOUS
<1>2. /\ DOMAIN start = {"kind", "method", "target", "headers", "hasBody", "protocols"}
      /\ start["kind"] = Text(r.kind, 1, {})
      /\ start["headers"] = List(IF r.kind = "http" THEN ForwardedHttp(r.headers)
                                                    ELSE ForwardedWebSocket(r.headers))
  BY <1>1 DEF RequestStart
<1>3. Given(start, "kind") /\ Given(start, "headers")
  BY <1>2 DEF Given, Field, Text, List, Undefined
<1>4. meta["kind"] = start["kind"] /\ meta["headers"] = start["headers"]
  BY <1>1, <1>3, JsonKeeps
<1> QED
  BY <1>2, <1>4 DEF Text, List

\* The response start carries the filtered headers of the answer.
LEMMA ResponseSays ==
    ASSUME NEW a, NEW meta, meta = Json(ResponseStart(a)), ~IsSocket
    PROVE  meta["headers"].items = FilterResponse(Entries(a.headers))
<1>1. PICK start : start = ResponseStart(a)
  OBVIOUS
<1>2. start["headers"] = List(FilterResponse(Entries(a.headers))) /\ "headers" \in DOMAIN start
  BY <1>1 DEF ResponseStart
<1>3. Given(start, "headers")
  BY <1>2 DEF Given, Field, List, Undefined
<1>4. meta["headers"] = start["headers"]
  BY <1>1, <1>3, JsonKeeps
<1> QED
  BY <1>2, <1>4 DEF List

\* The local server was handed what the start said, and the public client too.
LocalCame == client # "none" => local.headers = LocalHeaders
PublicCame ==
    ((public # None \/ server = "answered") /\ public.by = "local" /\ ~IsSocket) =>
        /\ client \notin {"none", "asking"} /\ answer \in Answers /\ answer.kind = "http"
        /\ public.headers = FilterResponse(FilterResponse(Entries(answer.headers)))

\* Every step keeps `LocalCame`: the local server gets the filtered request.
LEMMA LocalKeeps ==
    ASSUME Shapes, Started, StartsAreOwn, LocalCame, Stepped
    PROVE  LocalCame'
<1>1. ASSUME request' = request, client' # "none" => client # "none" /\ local' = local
      PROVE  LocalCame'
  BY <1>1 DEF LocalCame, LocalHeaders
<1>2. CASE ServerStep
  <2>1. ASSUME NEW r, Opened(r) PROVE LocalCame'
    BY <2>1 DEF Opened, Started, LocalCame
  <2>2. ASSUME ServerTurn PROVE LocalCame'
    BY <1>1, <2>2 DEF ServerTurn
  <2> QED
    BY <1>2, <2>1, <2>2 DEF ServerStep, ServerSent, ServerEnded, ServerBroke
<1>3. CASE ClientStep
  <2>1. ClientTurn
    BY <1>3 DEF ClientStep, ClientAnswered, ClientSent, ClientEnded, ClientFailed
  <2> QED
    BY <1>1, <2>1 DEF ClientTurn
<1>4. CASE ClientReading
  <2>1. PICK m : \/ ClientFaulted(m) \/ ClientLeft(m) \/ ClientAsked(m) \/ (\E k : ClientCounted(m, k))
                 \/ ClientHeard(m) \/ ClientTold(m)
    BY <1>4 DEF ClientReading
  <2>2. ClientRead(m)
    BY <2>1 DEF ClientFaulted, ClientTook, ClientLeft, ClientAsked, ClientCounted, ClientHeard, ClientTold
  <2>3. request' = request
    BY <2>2 DEF ClientRead
  <2>4. CASE ClientFaulted(m) \/ ClientLeft(m) \/ (\E k : ClientCounted(m, k)) \/ ClientTold(m)
    <3>1. (client' # "none" => client # "none") /\ local' = local
      BY <2>4 DEF ClientFaulted, ClientLeft, ClientCounted, ClientTold
    <3> QED
      BY <1>1, <2>3, <3>1
  <2>5. CASE ClientAsked(m)
    <3>1. PICK meta : meta = m.payload.json
      OBVIOUS
    <3>2. Accepted(m, "server-to-client") /\ Type(m) = "request_start"
      BY <2>5 DEF ClientAsked, ClientTook, ClientFaults
    <3>3. m \in Range(down)
      BY <2>2, ReadMembers
    <3>4. meta = Json(RequestStart(request))
      BY <3>1, <3>2, <3>3 DEF StartsAreOwn, Accepted
    <3>5. /\ meta["kind"].word = request.kind
          /\ meta["headers"].items = IF request.kind = "http" THEN ForwardedHttp(request.headers)
                                                              ELSE ForwardedWebSocket(request.headers)
      BY <3>4, StartSays
    <3>6. local'.headers = IF meta["kind"].word = "http" THEN LocalHttp(meta["headers"].items)
                                                         ELSE LocalWebSocket(meta["headers"].items)
      BY <2>5, <3>1 DEF ClientAsked
    <3>7. local'.headers = LocalHeaders
      BY <3>5, <3>6 DEF LocalHeaders
    <3> QED
      BY <2>3, <3>7 DEF LocalCame, LocalHeaders
  <2>6. CASE ClientHeard(m)
    <3>1. client' = client /\ local'.headers = local.headers /\ client # "none"
      BY <2>6 DEF ClientHeard, Started
    <3> QED
      BY <2>3, <3>1 DEF LocalCame, LocalHeaders
  <2> QED
    BY <2>1, <2>4, <2>5, <2>6
<1>5. CASE ServerReading
  <2>1. request' = request /\ client' = client /\ local' = local
    BY <1>5 DEF ServerReading, ServerRead, ServerFaulted, ServerTook, ServerLeft, ServerCounted, ServerAnswered, ServerHeard, ServerTold
  <2> QED
    BY <1>1, <2>1
<1>6. ASSUME NEW m, Strayed(m) PROVE LocalCame'
  BY <1>1, <1>6 DEF Strayed
<1> QED
  BY <1>2, <1>3, <1>4, <1>5, <1>6 DEF Stepped

\* Every step keeps `PublicCame`: the public client gets the filtered answer.
LEMMA PublicKeeps ==
    ASSUME Shapes, Started, StartsAreOwn, PublicCame, Stepped
    PROVE  PublicCame'
<1>1. ASSUME request' = request, public' = public, client \notin {"none", "asking"} => client' \notin {"none", "asking"},
             answer' = answer \/ client \in {"none", "asking"}, server' = "answered" => server = "answered"
      PROVE  PublicCame'
  BY <1>1 DEF PublicCame, IsSocket
<1>2. ASSUME public'.by = "server" PROVE PublicCame'
  BY <1>2 DEF PublicCame
<1>3. BadGateway.by = "server"
  BY DEF BadGateway
<1>4. CASE ServerStep
  <2>1. ASSUME NEW r, Opened(r) PROVE PublicCame'
    <3>1. public' = BadGateway \/ (public' = None /\ server' # "answered")
      BY <2>1 DEF Opened, Started
    <3> QED
      BY <1>2, <1>3, <3>1 DEF PublicCame
  <2>2. ASSUME ServerTurn, public' = public PROVE PublicCame'
    BY <1>1, <2>2 DEF ServerTurn
  <2>3. ASSUME NEW k, ServerBroke(k) PROVE PublicCame'
    <3>1. ServerTurn /\ (public' = public \/ public' = BadGateway)
      BY <2>3 DEF ServerBroke
    <3> QED
      BY <1>2, <1>3, <2>2, <3>1
  <2> QED
    BY <1>4, <2>1, <2>2, <2>3 DEF ServerStep, ServerSent, ServerEnded
<1>5. CASE ClientStep
  <2>1. ClientTurn /\ (answer' = answer \/ client = "asking")
    BY <1>5 DEF ClientStep, ClientAnswered, ClientSent, ClientEnded, ClientFailed
  <2> QED
    BY <1>1, <2>1 DEF ClientTurn
<1>6. CASE ClientReading
  <2>1. PICK m : \/ ClientFaulted(m) \/ ClientLeft(m) \/ ClientAsked(m) \/ (\E k : ClientCounted(m, k))
                 \/ ClientHeard(m) \/ ClientTold(m)
    BY <1>6 DEF ClientReading
  <2>2. ClientRead(m)
    BY <2>1 DEF ClientFaulted, ClientTook, ClientLeft, ClientAsked, ClientCounted, ClientHeard, ClientTold
  <2>3. request' = request /\ public' = public /\ answer' = answer /\ server' = server
    BY <2>2 DEF ClientRead
  <2>4. client \notin {"none", "asking"} => client' \notin {"none", "asking"}
    BY <2>1 DEF ClientFaulted, ClientLeft, ClientAsked, ClientCounted, ClientHeard, ClientTold
  <2> QED
    BY <1>1, <2>3, <2>4
<1>7. CASE ServerReading
  <2>1. PICK m : \/ ServerFaulted(m) \/ ServerLeft(m) \/ (\E k : ServerCounted(m, k)) \/ ServerAnswered(m)
                 \/ ServerHeard(m) \/ ServerTold(m)
    BY <1>7 DEF ServerReading
  <2>2. ServerRead(m)
    BY <2>1 DEF ServerFaulted, ServerTook, ServerLeft, ServerCounted, ServerAnswered, ServerHeard, ServerTold
  <2>3. request' = request /\ client' = client /\ answer' = answer
    BY <2>2 DEF ServerRead
  <2>4. ASSUME public' = public, server' = server \/ server' = "over" PROVE PublicCame'
    BY <1>1, <2>3, <2>4
  <2>5. CASE ServerFaulted(m) \/ ServerLeft(m) \/ \E k : ServerCounted(m, k)
    BY <2>4, <2>5 DEF ServerFaulted, ServerLeft, ServerCounted
  <2>6. CASE ServerTold(m)
    <3>1. (public' = public \/ public' = BadGateway) /\ server' = "over"
      BY <2>6 DEF ServerTold
    <3> QED
      BY <1>2, <1>3, <2>4, <3>1
  <2>7. CASE ServerHeard(m)
    <3>0. server' = "over"
      BY <2>7 DEF ServerHeard
    <3>1. public' = public \/ (server = "answered" /\ public' = [public EXCEPT !.ended = m.payload.json])
      BY <2>7 DEF ServerHeard
    <3>2. ASSUME server = "answered", public' = [public EXCEPT !.ended = m.payload.json] PROVE PublicCame'
      <4>1. public'.by = public.by /\ public'.headers = public.headers
        BY <3>2 DEF Started
      <4> QED
        BY <2>3, <3>2, <4>1 DEF PublicCame, IsSocket
    <3> QED
      BY <2>4, <3>0, <3>1, <3>2
  <2>8. CASE ServerAnswered(m)
    <3>1. ASSUME ~IsSocket
          PROVE  /\ client \notin {"none", "asking"} /\ answer \in Answers /\ answer.kind = "http"
                 /\ public'.headers = FilterResponse(FilterResponse(Entries(answer.headers)))
      <4>1. PICK meta : meta = m.payload.json
        OBVIOUS
      <4>2. Accepted(m, "client-to-server") /\ Type(m) = "response_start" /\ server # "none"
        BY <2>8 DEF ServerAnswered, ServerTook, ServerFaults
      <4>3. m \in Range(up)
        BY <2>2, ReadMembers
      <4>4. /\ client \notin {"none", "asking"} /\ answer \in Answers /\ answer.kind = request.kind
            /\ meta = Json(ResponseStart(answer))
        BY <4>1, <4>2, <4>3 DEF StartsAreOwn, Accepted
      <4>5. meta["headers"].items = FilterResponse(Entries(answer.headers))
        BY <3>1, <4>4, ResponseSays
      <4>6. public'.headers = FilterResponse(meta["headers"].items)
        BY <2>8, <4>1 DEF ServerAnswered
      <4>7. request.kind = "http"
        BY <3>1, <4>2, AskedAssumption DEF Started, IsSocket
      <4> QED
        BY <4>4, <4>5, <4>6, <4>7
    <3> QED
      BY <2>3, <3>1 DEF PublicCame, IsSocket
  <2> QED
    BY <2>1, <2>5, <2>6, <2>7, <2>8
<1>8. ASSUME NEW m, Strayed(m) PROVE PublicCame'
  BY <1>1, <1>8 DEF Strayed
<1> QED
  BY <1>4, <1>5, <1>6, <1>7, <1>8 DEF Stepped

-----------------------------------------------------------------------------
(* The theorems.                                                               *)

\* `HeadersCame` is what is proved of the two directions.
LEMMA HeadersCameIs == HeadersCame <=> LocalCame /\ PublicCame
  BY DEF HeadersCame, LocalCame, PublicCame

\* `EndsComing` is what is proved of the two directions.
LEMMA EndsComingIs == EndsComing <=> AnswerComing /\ UploadComing
  BY DEF EndsComing, AnswerComing, UploadComing

\* At the beginning.
LEMMA InvariantAtFirst ==
    ASSUME Init
    PROVE  IInv
<1>1. Shapes
  <2>1. IsSequence(down) /\ IsSequence(up)
    BY NoMessage DEF Init
  <2>2. sent \in [Sides -> 0 .. MaxSent] /\ got \in [Sides -> Nat] /\ DOMAIN parting = Sides
    BY LimitsAssumption DEF Init
  <2> QED
    BY <2>1, <2>2 DEF Init, Shapes
<1>2. Started /\ Parted
  BY DEF Init, Started, Parted, Sides
<1>3. Range(down) = {} /\ Range(up) = {} /\ DOMAIN down = {} /\ DOMAIN up = {}
  BY NoMessage DEF Init
<1>4. Bytes /\ StartsAreOwn /\ DownIsLegible /\ DownEnds /\ UpIsLegible /\ UpEnds
  BY <1>3 DEF Bytes, StartsAreOwn, DownIsLegible, DownEnds, UpIsLegible, UpEnds
<1>5. DownStarts /\ UpStarts
  BY <1>3 DEF Init, DownStarts, UpStarts
<1>6. EndIsLast(down) /\ EndIsLast(up) /\ Runs(down, 0, 0) /\ Runs(up, 0, 0)
  <2>1. 0 .. 0 - 1 = {}
    OBVIOUS
  <2> QED
    BY <1>3, <2>1 DEF EndIsLast, Runs
<1>7. DownRuns /\ UpRuns
  BY <1>6 DEF Init, DownRuns, UpRuns, Sides
<1>8. Legibles
  BY <1>4, <1>5, <1>7 DEF Init, Legibles
<1>9. EndsComing /\ EndsCame /\ HeadersCame /\ ReadIsCanonical
  BY DEF Init, EndsComing, EndsCame, HeadersCame, ReadIsCanonical, Sides, Nothing
<1> QED
  BY <1>1, <1>2, <1>4, <1>8, <1>9 DEF IInv

\* And after every step.
LEMMA InvariantKeeps ==
    ASSUME IInv, Next
    PROVE  IInv'
<1>1. /\ Shapes /\ Started /\ Bytes /\ Parted /\ Legibles /\ EndsComing /\ EndsCame
      /\ StartsAreOwn /\ HeadersCame /\ ReadIsCanonical
  BY DEF IInv
<1>2. Stepped
  BY <1>1, Steps DEF Stepped
<1>3. CountersMove
  BY Moves
<1>4. Shapes' /\ Bytes'
  BY <1>1, <1>2, <1>3, ShapesKeep
<1>5. Started' /\ Parted'
  BY <1>1, <1>2, StartedKeeps
<1>6. Legibles'
  BY <1>1, <1>2, <1>3, LegiblesKeep
<1>7. AnswerComing' /\ UploadComing'
  <2>1. AnswerComing /\ UploadComing
    BY <1>1, EndsComingIs
  <2>2. AnswerComing'
    BY <1>1, <1>2, <2>1, AnswerComes
  <2>3. UploadComing'
    BY <1>1, <1>2, <2>1, UploadComes
  <2> QED
    BY <2>2, <2>3
<1>8. EndsCame'
  BY <1>1, <1>2, EndsCameKeeps
<1>9. StartsAreOwn'
  BY <1>1, <1>2, StartsKeep
<1>10. LocalCame' /\ PublicCame'
  <2>1. LocalCame /\ PublicCame
    BY <1>1, HeadersCameIs
  <2>2. LocalCame'
    BY <1>1, <1>2, <2>1, LocalKeeps
  <2>3. PublicCame'
    BY <1>1, <1>2, <2>1, PublicKeeps
  <2> QED
    BY <2>2, <2>3
<1>11. ReadIsCanonical'
  BY <1>1, <1>2, CanonicalKeeps
<1>12. EndsComing'
  BY <1>7, EndsComingIs, PTL
<1>13. HeadersCame'
  BY <1>10, HeadersCameIs, PTL
<1> QED
  BY <1>4, <1>5, <1>6, <1>8, <1>9, <1>11, <1>12, <1>13 DEF IInv

\* A step that changes nothing keeps the invariant.
LEMMA InvariantStutters ==
    ASSUME IInv, UNCHANGED vars
    PROVE  IInv'
<1>1. /\ server' = server /\ client' = client /\ request' = request /\ local' = local /\ public' = public
      /\ answer' = answer /\ sent' = sent /\ got' = got /\ parting' = parting /\ down' = down /\ up' = up
      /\ taken' = taken /\ stray' = stray /\ fault' = fault
  BY DEF vars, ends, counts
<1>2. Shapes' /\ Started' /\ Bytes' /\ Parted'
  BY <1>1 DEF IInv, Shapes, Started, Bytes, Parted, IsSocket
<1>3. Legibles'
  BY <1>1 DEF IInv, Legibles, DownIsLegible, DownEnds, DownStarts, DownRuns, UpIsLegible, UpEnds, UpStarts,
         UpRuns, Legible, OwnFlags, IsSocket, EndOf, BodyKind, SameCode, EndIsLast, Runs, IsData, IsEndOf,
         Accepted, Understood, Type, H
<1>4. EndsComing' /\ EndsCame'
  BY <1>1 DEF IInv, EndsComing, EndsCame, Has, Type, H, SameCode
<1>5. StartsAreOwn'
  BY <1>1 DEF IInv, StartsAreOwn, Type, RequestStart, ResponseStart, IsSocket
<1>6. HeadersCame' /\ ReadIsCanonical'
  BY <1>1 DEF IInv, HeadersCame, LocalHeaders, IsSocket, ReadIsCanonical
<1> QED
  BY <1>2, <1>3, <1>4, <1>5, <1>6 DEF IInv

\* The invariant holds in every state, whatever is asked, answered, closed or written by
\* somebody else.
THEOREM Invariant == Spec => []IInv
<1>1. Init => IInv
  BY InvariantAtFirst
<1>2. IInv /\ [Next]_vars => IInv'
  BY InvariantKeeps, InvariantStutters
<1> QED
  BY <1>1, <1>2, PTL DEF Spec

\* A header that decodeFrameHeader takes is, byte for byte, the one encodeFrameHeader
\* writes, also if somebody else wrote it.
THEOREM ReadsAreCanonical == Spec => []ReadIsCanonical
<1>1. IInv => ReadIsCanonical
  BY DEF IInv
<1> QED
  BY <1>1, Invariant, PTL

\* Whatever is asked and answered, neither side fails the connection over what the other
\* one wrote: what encodeMetadata lets through, decodeMetadata takes, sequence numbers
\* follow each other, and an end comes after all that it counts.
THEOREM PeersAlwaysUnderstand == Spec => []PeersUnderstand
<1>1. IInv => PeersUnderstand
  BY DEF IInv, Legibles, PeersUnderstand
<1> QED
  BY <1>1, Invariant, PTL

\* An end that one side said has arrived when nothing is on its way any more, with the
\* code the WebSocket was closed with.
THEOREM EndsAlwaysArrive == Spec => []EndsArrive
<1>1. ASSUME IInv PROVE EndsArrive
  <2>1. Started /\ EndsComing /\ EndsCame
    BY <1>1 DEF IInv
  <2>2. /\ down = << >> => ~Has(down, "request_end")
        /\ up = << >> => ~Has(up, "response_end")
    BY NoMessage DEF Has
  <2>3. local # None => client # "none"
    BY <2>1 DEF Started
  <2> QED
    BY <2>1, <2>2, <2>3 DEF EndsComing, EndsCame, EndsArrive
<1> QED
  BY <1>1, Invariant, PTL

-----------------------------------------------------------------------------
(* Headers end to end.                                                         *)

\* No header is named in no set of names.
LEMMA WithNobody ==
    ASSUME NEW S, NEW s \in Seq(S), NEW a, a = {}
    PROVE  With(s, a) = << >>
<1>1. \A x \in S : ~Named(x, a)
  BY DEF Named
<1> QED
  BY <1>1, WithNone

\* The cookies change places, other headers do not.
LEMMA EntriesWith ==
    ASSUME NEW S, NEW s \in Seq(S), NEW a, "set-cookie" \notin a
    PROVE  With(Entries(s), a) = With(s, a)
<1>1. PICK c, v, w, e : c = {"set-cookie"} /\ v = Without(s, c) /\ w = With(s, c) /\ e = {}
  OBVIOUS
<1>2. Selects(S, s, c) /\ Selects(S, s, a)
  BY WithIs
<1>3. v \in Seq(S) /\ w \in Seq(S) /\ With(s, a) \in Seq(S)
  BY <1>1, <1>2 DEF Selects
<1>4. Twice(s, c, a)
  BY WithTwice
<1>5. With(v, a) = With(s, a \ c) /\ With(w, a) = With(s, c \cap a)
  BY <1>1, <1>4 DEF Twice
<1>6. a \ c = a /\ c \cap a = e
  BY <1>1
<1>7. With(s, e) = << >>
  BY <1>1, WithNobody
<1>8. With(v \o w, a) = With(v, a) \o With(w, a)
  <2>1. BothWith(v, w, a)
    BY <1>3, WithJoined
  <2> QED
    BY <2>1 DEF BothWith
<1>9. PICK p : p = With(s, a)
  OBVIOUS
<1>10. p \o << >> = p
  BY <1>3, <1>9, ConcatEmptySeq
<1> QED
  BY <1>1, <1>5, <1>6, <1>7, <1>8, <1>9, <1>10 DEF Entries

\* What Connection lists depends on the Connection headers alone.
LEMMA ListedBy ==
    ASSUME NEW s, NEW t
    PROVE  /\ With(s, {"connection"}) = With(t, {"connection"}) => HopOnly(s) = HopOnly(t)
           /\ With(s, {"connection"}) = << >> => HopOnly(s) = HopByHop
<1>1. With(s, {"connection"}) = With(t, {"connection"}) => Listed(s) = Listed(t)
  BY DEF Listed
<1>2. With(s, {"connection"}) = << >> => Listed(s) = {}
  BY NoMessage DEF Listed
<1> QED
  BY <1>1, <1>2 DEF HopOnly

\* What went through a filter has no Connection header, and goes through it again as it is.
LEMMA FilteredAgain ==
    ASSUME NEW S, NEW s \in Seq(S), NEW n, NEW g, g = Without(s, n), HopByHop \subseteq n
    PROVE  /\ g \in Seq(S) /\ With(g, {"connection"}) = << >>
           /\ \A b : b \subseteq n => Without(g, b) = g
<1>1. Selects(S, s, n)
  BY WithIs
<1>2. g \in Seq(S)
  BY <1>1 DEF Selects
<1>3. PICK c, e : c = {"connection"} /\ e = {}
  OBVIOUS
<1>4. Twice(s, n, c)
  BY WithTwice
<1>5. c \ n = e
  BY <1>3 DEF HopByHop
<1>6. With(s, e) = << >>
  BY <1>3, WithNobody
<1>7. With(g, c) = << >>
  BY <1>4, <1>5, <1>6 DEF Twice
<1>8. ASSUME NEW b, b \subseteq n PROVE Without(g, b) = g
  <2>1. Twice(s, n, b)
    BY WithTwice
  <2>2. n \cup b = n
    BY <1>8
  <2> QED
    BY <2>1, <2>2 DEF Twice
<1> QED
  BY <1>2, <1>3, <1>7, <1>8

\* The answer's headers: the second filter changes nothing.
LEMMA ResponsePasses ==
    ASSUME NEW S, NEW h \in Seq(S)
    PROVE  FilterResponse(FilterResponse(Entries(h))) =
               Entries(Without(h, HopOnly(h) \cup {"content-encoding", "content-length"}))
<1>1. PICK c, d, e, n : /\ c = {"set-cookie"} /\ d = {"content-encoding", "content-length"}
                        /\ e = Entries(h) /\ n = HopOnly(h) \cup d
  OBVIOUS
<1>2. Filtered(S, h)
  BY Filters
<1>3. e \in Seq(S)
  BY <1>1, <1>2 DEF Filtered
<1>4. HopOnly(e) = HopOnly(h)
  <2>1. With(e, {"connection"}) = With(h, {"connection"})
    BY <1>1, EntriesWith
  <2> QED
    BY <2>1, ListedBy
<1>5. PICK g : g = Without(e, n)
  OBVIOUS
<1>6. FilterResponse(e) = g
  <2>1. Filtered(S, e)
    BY <1>3, Filters
  <2> QED
    BY <1>1, <1>4, <1>5, <2>1 DEF Filtered
<1>7. HopByHop \subseteq n
  BY <1>1 DEF HopOnly
<1>8. /\ g \in Seq(S) /\ With(g, {"connection"}) = << >>
      /\ \A b : b \subseteq n => Without(g, b) = g
  BY <1>3, <1>5, <1>7, FilteredAgain
<1>9. FilterResponse(g) = g
  <2>1. Filtered(S, g)
    BY <1>8, Filters
  <2>2. HopOnly(g) = HopByHop
    BY <1>8, ListedBy
  <2>3. FilterResponse(g) = Without(g, HopByHop \cup d)
    BY <1>1, <2>1, <2>2 DEF Filtered
  <2>4. HopByHop \cup d \subseteq n
    BY <1>1, <1>7
  <2> QED
    BY <1>8, <2>3, <2>4
<1>10. g = Without(h, c \cup n) \o With(h, c \ n)
  <2>1. PICK v, w : v = Without(h, c) /\ w = With(h, c)
    OBVIOUS
  <2>2. Selects(S, h, c)
    BY WithIs
  <2>3. v \in Seq(S) /\ w \in Seq(S) /\ e = v \o w
    BY <1>1, <2>1, <2>2 DEF Selects, Entries
  <2>4. Without(v \o w, n) = Without(v, n) \o Without(w, n)
    <3>1. BothWith(v, w, n)
      BY <2>3, WithJoined
    <3> QED
      BY <3>1 DEF BothWith
  <2>5. Twice(h, c, n)
    BY WithTwice
  <2>6. Without(v, n) = Without(h, c \cup n) /\ Without(w, n) = With(h, c \ n)
    BY <2>1, <2>5 DEF Twice
  <2> QED
    BY <1>5, <2>3, <2>4, <2>6
<1>11. Entries(Without(h, n)) = Without(h, n \cup c) \o With(h, c \ n)
  <2>1. Twice(h, n, c)
    BY WithTwice
  <2> QED
    BY <1>1, <2>1 DEF Twice, Entries
<1>12. c \cup n = n \cup c
  OBVIOUS
<1> QED
  BY <1>1, <1>6, <1>9, <1>10, <1>11, <1>12

\* What the adapter makes of one header.
LEMMA RewritesHeader ==
    ASSUME NEW x, x = Header(x.name.word, x.value)
    PROVE  /\ RewriteHeader(x).name = x.name
           /\ Named(x, {"accept-encoding"}) => RewriteHeader(x) = Header("accept-encoding", Identity)
           /\ ~Named(x, {"accept-encoding"}) => RewriteHeader(x) = Localise1(x)
<1>1. DOMAIN x = {"name", "value"}
  BY DEF Header
<1>2. CASE Named(x, {"accept-encoding"})
  <2>1. RewriteHeader(x) = [x EXCEPT !.value = Identity]
    BY <1>2 DEF RewriteHeader, Named
  <2>2. x.name = Text("accept-encoding", 1, {"token"})
    BY <1>2 DEF Named, Header
  <2>3. RewriteHeader(x) = [name |-> x.name, value |-> Identity]
    BY <1>1, <2>1
  <2> QED
    BY <1>2, <2>2, <2>3 DEF Header
<1>3. CASE ~Named(x, {"accept-encoding"}) /\ Named(x, {"origin", "referer"})
  <2>1. RewriteHeader(x) = [x EXCEPT !.value = Localise(x.value)]
    BY <1>3 DEF RewriteHeader
  <2>2. Localise1(x) = [x EXCEPT !.value = Localise(x.value)]
    BY <1>3 DEF Localise1
  <2> QED
    BY <1>1, <1>3, <2>1, <2>2
<1>4. CASE ~Named(x, {"accept-encoding"}) /\ ~Named(x, {"origin", "referer"})
  BY <1>4 DEF RewriteHeader, Localise1
<1> QED
  BY <1>2, <1>3, <1>4

\* The headers of a set, and what the adapter makes of them.
AreNamed(S) == \A x \in S : x = Header(x.name.word, x.value)
Rewriter(S) == [x \in S |-> RewriteHeader(x)]
Renamed(S) == S \cup {RewriteHeader(x) : x \in S} \cup {Header("accept-encoding", Identity)}

\* A header of its own at the end, if there was none.
Extended(r, s, g) ==
    \/ With(g, {"accept-encoding"}) # << >> /\ s = r
    \/ With(g, {"accept-encoding"}) = << >> /\ s = r \o <<Header("accept-encoding", Identity)>>

\* Rewriting for the local server maps every header by its name and may add one.
LEMMA RewritesAll ==
    ASSUME NEW S, AreNamed(S), NEW g \in Seq(S)
    PROVE  /\ Rewriter(S) \in [S -> Renamed(S)] /\ KeepsNames(Rewriter(S), S)
           /\ Mapped(Rewriter(S), g) \in Seq(Renamed(S))
           /\ Extended(Mapped(Rewriter(S), g), RewriteLocal(g), g)
<1>1. PICK f, T : f = Rewriter(S) /\ T = Renamed(S)
  OBVIOUS
<1>2. f \in [S -> T]
  BY <1>1 DEF Rewriter, Renamed
<1>3. \A x \in S : f[x] = RewriteHeader(x)
  BY <1>1 DEF Rewriter
<1>4. KeepsNames(f, S)
  BY <1>3, RewritesHeader DEF AreNamed, KeepsNames
<1>5. MappedAs(T, f, g, Mapped(f, g))
  BY <1>2, MappedType
<1>6. Mapped(f, g) \in Seq(T)
  BY <1>5 DEF MappedAs
<1>7. PICK r : r = [i \in DOMAIN g |-> RewriteHeader(g[i])]
  OBVIOUS
<1>8. r = Mapped(f, g)
  <2>1. \A i \in DOMAIN g : g[i] \in S
    OBVIOUS
  <2> QED
    BY <1>3, <1>7, <2>1 DEF Mapped
<1>9. RewriteLocal(g) = IF With(g, {"accept-encoding"}) # << >> THEN r
                        ELSE Append(r, Header("accept-encoding", Identity))
  BY <1>7 DEF RewriteLocal
<1>10. PICK x : x = Header("accept-encoding", Identity)
  OBVIOUS
<1>11. Append(r, x) = r \o <<x>>
  <2>1. x \in T
    BY <1>1, <1>10 DEF Renamed
  <2> QED
    BY <1>6, <1>8, <2>1
<1>12. Extended(r, RewriteLocal(g), g)
  BY <1>9, <1>10, <1>11 DEF Extended
<1> QED
  BY <1>1, <1>2, <1>4, <1>6, <1>8, <1>12

\* The header the adapter adds.
Added(s, a) ==
    /\ "accept-encoding" \notin a => With(s, a) = << >> /\ Without(s, a) = s
    /\ "accept-encoding" \in a => With(s, a) = s /\ Without(s, a) = << >>

\* The added `accept-encoding` is selected by its own name only.
LEMMA IdentityIsAdded ==
    ASSUME NEW x, x = Header("accept-encoding", Identity), NEW s, s = <<x>>, NEW a
    PROVE  Added(s, a)
<1>1. s \in Seq({x})
  OBVIOUS
<1>2. x.name.word = "accept-encoding"
  BY DEF Header, Text
<1>3. ASSUME "accept-encoding" \notin a PROVE With(s, a) = << >> /\ Without(s, a) = s
  <2>1. \A y \in {x} : ~Named(y, a)
    BY <1>2, <1>3 DEF Named
  <2> QED
    BY <1>1, <2>1, WithNone
<1>4. ASSUME "accept-encoding" \in a PROVE With(s, a) = s /\ Without(s, a) = << >>
  <2>1. \A y \in {x} : Named(y, a)
    BY <1>2, <1>4 DEF Named
  <2> QED
    BY <1>1, <2>1, WithAll
<1> QED
  BY <1>3, <1>4 DEF Added

\* What the names are of rewritten headers: those of the headers, and the one added.
WithRewritten(f, g, s, a) ==
    IF "accept-encoding" \in a
    THEN /\ Without(s, a) = Mapped(f, Without(g, a))
         /\ \/ With(g, {"accept-encoding"}) # << >> /\ With(s, a) = Mapped(f, With(g, a))
            \/ /\ With(g, {"accept-encoding"}) = << >>
               /\ With(s, a) = Mapped(f, With(g, a)) \o <<Header("accept-encoding", Identity)>>
    ELSE /\ With(s, a) = Mapped(f, With(g, a))
         /\ \/ With(g, {"accept-encoding"}) # << >> /\ Without(s, a) = Mapped(f, Without(g, a))
            \/ /\ With(g, {"accept-encoding"}) = << >>
               /\ Without(s, a) = Mapped(f, Without(g, a)) \o <<Header("accept-encoding", Identity)>>

\* What a selection by name keeps of the rewritten headers.
LEMMA RewritesWith ==
    ASSUME NEW S, AreNamed(S), NEW g \in Seq(S), NEW a
    PROVE  WithRewritten(Rewriter(S), g, RewriteLocal(g), a)
<1>1. PICK f, T, s, r, x, t : /\ f = Rewriter(S) /\ T = Renamed(S) /\ s = RewriteLocal(g) /\ r = Mapped(f, g)
                              /\ x = Header("accept-encoding", Identity) /\ t = <<x>>
  OBVIOUS
<1>2. /\ f \in [S -> T] /\ KeepsNames(f, S)
      /\ r \in Seq(T) /\ Extended(r, s, g)
  BY <1>1, RewritesAll
<1>3. With(r, a) = Mapped(f, With(g, a)) /\ Without(r, a) = Mapped(f, Without(g, a))
  <2>1. MappedWith(f, g, a)
    BY <1>2, WithMapped
  <2> QED
    BY <1>1, <2>1 DEF MappedWith
<1>4. /\ "accept-encoding" \notin a => With(t, a) = << >> /\ Without(t, a) = t
      /\ "accept-encoding" \in a => With(t, a) = t /\ Without(t, a) = << >>
  <2>1. x = Header("accept-encoding", Identity) /\ t = <<x>>
    BY <1>1
  <2>2. Added(t, a)
    BY <2>1, IdentityIsAdded
  <2> QED
    BY <2>2 DEF Added
<1>5. CASE With(g, {"accept-encoding"}) # << >>
  <2>1. s = r
    BY <1>2, <1>5 DEF Extended
  <2> QED
    BY <1>1, <1>3, <1>5, <2>1 DEF WithRewritten
<1>6. CASE With(g, {"accept-encoding"}) = << >>
  <2>1. s = r \o t
    BY <1>1, <1>2, <1>6 DEF Extended
  <2>2. x \in T
    BY <1>1 DEF Renamed
  <2>3. t \in Seq(T)
    BY <1>1, <2>2
  <2>4. BothWith(r, t, a)
    BY <1>2, <2>3, WithJoined
  <2>5. With(s, a) = With(r, a) \o With(t, a) /\ Without(s, a) = Without(r, a) \o Without(t, a)
    BY <2>1, <2>4 DEF BothWith
  <2>6. PICK p, q : p = With(r, a) /\ q = Without(r, a)
    OBVIOUS
  <2>7. Selects(T, r, a)
    BY <1>2, WithIs
  <2>8. p \in Seq(T) /\ q \in Seq(T)
    BY <2>6, <2>7 DEF Selects
  <2>9. p \o << >> = p /\ q \o << >> = q
    BY <2>8, ConcatEmptySeq
  <2>10. CASE "accept-encoding" \in a
    BY <1>1, <1>3, <1>4, <1>6, <2>5, <2>6, <2>9, <2>10 DEF WithRewritten
  <2>11. CASE "accept-encoding" \notin a
    BY <1>1, <1>3, <1>4, <1>6, <2>5, <2>6, <2>9, <2>11 DEF WithRewritten
  <2> QED
    BY <2>10, <2>11
<1> QED
  BY <1>5, <1>6

\* A sequence of length zero is empty.
LEMMA EmptyByLength ==
    ASSUME NEW S, NEW s \in Seq(S), Len(s) = 0
    PROVE  s = << >>
  OBVIOUS

\* Of one header, and of none.
LEMMA MappedFew ==
    ASSUME NEW f, NEW s, NEW x
    PROVE  /\ s = << >> => Mapped(f, s) = << >>
           /\ s = <<x>> => Mapped(f, s) = <<f[x]>>
<1>1. s = << >> => DOMAIN s = {}
  OBVIOUS
<1>2. s = <<x>> => DOMAIN s = {1} /\ s[1] = x
  OBVIOUS
<1>3. s = << >> => Mapped(f, s) = << >>
  BY <1>1 DEF Mapped
<1>4. s = <<x>> => Mapped(f, s) = <<f[x]>>
  BY <1>2 DEF Mapped
<1> QED
  BY <1>3, <1>4

\* What Object.fromEntries does, entry by entry.
EntriesSet(S, s, p) ==
    /\ p \in [0 .. Len(s) -> Seq(S)] /\ p[0] = << >> /\ FromEntries(s) = p[Len(s)]
    /\ \A k \in 1 .. Len(s) : p[k] = SetEntry(p[k - 1], s[k])

\* An entry is set among others: the result has their headers and the new one.
LEMMA EntryType ==
    ASSUME NEW S, NEW q \in Seq(S), NEW x \in S
    PROVE  SetEntry(q, x) \in Seq(S)
<1>1. PICK r : r = [i \in DOMAIN q |-> IF Named(q[i], {x.name.word}) THEN x ELSE q[i]]
  OBVIOUS
<1>2. Append(q, x) \in Seq(S)
  OBVIOUS
<1>3. DOMAIN q = 1 .. Len(q) /\ Len(q) \in Nat /\ \A i \in 1 .. Len(q) : q[i] \in S
  OBVIOUS
<1>4. \A i \in 1 .. Len(q) : r[i] \in S
  BY <1>1, <1>3
<1>5. r \in [1 .. Len(q) -> S]
  BY <1>1, <1>3, <1>4
<1>6. r \in Seq(S)
  BY <1>3, <1>5
<1> QED
  BY <1>1, <1>2, <1>6 DEF SetEntry

\* The states of the loop over the entries: it exists for every list of them.
LEMMA EntrySteps ==
    ASSUME NEW S, NEW s \in Seq(S)
    PROVE  \E p : EntriesSet(S, s, p)
<1>w. PICK w : w = Len(s)
  OBVIOUS
<1>0. w \in Nat /\ \A k \in 1 .. w : s[k] \in S
  BY <1>w
<1>e. PICK none : none = << >>
  OBVIOUS
<1> DEFINE Is(p) == p = [k \in 0 .. w |-> IF k = 0 THEN << >> ELSE SetEntry(p[k - 1], s[k])]
           step == [k \in 1 .. w |-> [q \in Seq(S) |-> SetEntry(q, s[k])]]
<1>1. step \in [1 .. w -> [Seq(S) -> Seq(S)]] /\ none \in Seq(S)
  BY <1>0, <1>e, EntryType
<1>2. \E g \in [0 .. w -> Seq(S)] : g[0] = none /\ \A k \in 1 .. w : g[k] = step[k][g[k - 1]]
  <2> HIDE DEF step
  <2>1. Iterated(Seq(S), w, none, step)
    BY <1>0, <1>1, Iterates
  <2> QED
    BY <2>1 DEF Iterated
<1>3. PICK g \in [0 .. w -> Seq(S)] : g[0] = none /\ \A k \in 1 .. w : g[k] = step[k][g[k - 1]]
  BY <1>2
<1>4. Is(g)
  <2>1. \A k \in 0 .. w : g[k] = IF k = 0 THEN << >> ELSE SetEntry(g[k - 1], s[k])
    <3>1. \A k \in 1 .. w : g[k - 1] \in Seq(S)
      BY <1>0, Places
    <3> QED
      BY <1>0, <1>3, <1>e, <3>1, Places
  <2> QED
    BY <2>1
<1> DEFINE p == CHOOSE q : Is(q)
<1>6. Is(p)
  <2> HIDE DEF Is
  <2> QED
    BY <1>4
<1>7. FromEntries(s) = p[w]
  BY <1>w DEF FromEntries
<1> HIDE DEF p
<1>8. DOMAIN p = 0 .. w /\ \A k \in 0 .. w : p[k] = IF k = 0 THEN << >> ELSE SetEntry(p[k - 1], s[k])
  BY <1>6
<1>9. p[0] = << >> /\ \A k \in 1 .. w : p[k] = SetEntry(p[k - 1], s[k])
  BY <1>0, <1>8, Places
<1>s. p[0] \in Seq(S)
  BY <1>9
<1>10. p = [k \in 0 .. w |-> p[k]]
  BY <1>6
<1>11. \A k \in 1 .. w : p[k - 1] \in Seq(S) => p[k] \in Seq(S)
  BY <1>0, <1>9, EntryType
<1>12. p \in [0 .. w -> Seq(S)]
  BY <1>0, <1>8, <1>10, <1>11, <1>s, AllOf, Zenon
<1>13. EntriesSet(S, s, p)
  BY <1>w, <1>7, <1>9, <1>12 DEF EntriesSet
<1> QED
  BY <1>13

\* The last entry is set among the others.
LEMMA EntryAppended ==
    ASSUME NEW S, NEW s \in Seq(S), NEW x \in S
    PROVE  FromEntries(s) \in Seq(S) /\ FromEntries(Append(s, x)) = SetEntry(FromEntries(s), x)
<1>1. PICK t, n : t = Append(s, x) /\ n = Len(s)
  OBVIOUS
<1>2. /\ n \in Nat /\ t \in Seq(S) /\ Len(t) = n + 1 /\ t[n + 1] = x
      /\ \A k \in 1 .. n : t[k] = s[k]
  BY <1>1
<1>3. PICK p : EntriesSet(S, s, p)
  BY EntrySteps
<1>4. PICK q : EntriesSet(S, t, q)
  BY <1>2, EntrySteps
<1> DEFINE b == [k \in 0 .. n |-> q[k]]
<1>5. /\ p \in [0 .. n -> Seq(S)] /\ p[0] = << >> /\ FromEntries(s) = p[n]
      /\ \A k \in 1 .. n : p[k] = SetEntry(p[k - 1], s[k])
  BY <1>1, <1>3 DEF EntriesSet
<1>6. /\ q \in [0 .. n + 1 -> Seq(S)] /\ q[0] = << >> /\ FromEntries(t) = q[n + 1]
      /\ \A k \in 1 .. n + 1 : q[k] = SetEntry(q[k - 1], t[k])
  BY <1>2, <1>4 DEF EntriesSet
<1>7. \A k \in 0 .. n : k \in 0 .. n + 1
  BY <1>2
<1>8. b \in [0 .. n -> Seq(S)] /\ \A k \in 0 .. n : b[k] = q[k]
  BY <1>6, <1>7
<1> HIDE DEF b
<1>9. p[0] = b[0]
  BY <1>2, <1>5, <1>6, <1>8, Places
<1>10. \A k \in 1 .. n : p[k - 1] = b[k - 1] => p[k] = b[k]
  <2> TAKE k \in 1 .. n
  <2>1. k \in 0 .. n /\ k - 1 \in 0 .. n /\ k \in 1 .. n + 1
    BY <1>2
  <2>2. b[k] = q[k] /\ b[k - 1] = q[k - 1] /\ t[k] = s[k]
    BY <1>2, <1>8, <2>1
  <2> QED
    BY <1>5, <1>6, <2>1, <2>2
<1>11. \A k \in 0 .. n : p[k] = b[k]
  <2>1. Follows(n, p, b)
    BY <1>10 DEF Follows
  <2>2. Agree(n, p, b)
    BY <1>2, <1>9, <2>1, StepByStep
  <2> QED
    BY <2>2 DEF Agree
<1>12. q[n] = p[n]
  BY <1>2, <1>8, <1>11, Places
<1>13. n + 1 \in 1 .. n + 1 /\ (n + 1) - 1 = n /\ n \in 0 .. n
  BY <1>2
<1>14. FromEntries(t) = SetEntry(q[n], x)
  BY <1>2, <1>6, <1>13
<1>15. FromEntries(s) \in Seq(S)
  BY <1>5, <1>13
<1> QED
  BY <1>1, <1>5, <1>12, <1>14, <1>15

\* Of no entries there is an empty object.
LEMMA NoEntries == FromEntries(<< >>) = << >>
<1>1. PICK s, S : s = << >> /\ S = Nat
  OBVIOUS
<1>2. s \in Seq(S) /\ Len(s) = 0
  BY <1>1
<1>3. PICK p : EntriesSet(S, s, p)
  BY <1>2, EntrySteps
<1> QED
  BY <1>1, <1>2, <1>3 DEF EntriesSet

\* The last header of a list, if there is one.
LEMMA LatestOf ==
    ASSUME NEW S, NEW s \in Seq(S), NEW x \in S
    PROVE  /\ Latest(Append(s, x)) = <<x>>
           /\ Latest(s) = << >> \/ \E y \in S : s # << >> /\ y = s[Len(s)] /\ Latest(s) = <<y>>
<1>1. PICK t : t = Append(s, x)
  OBVIOUS
<1>2. t # << >> /\ t[Len(t)] = x
  BY <1>1
<1>3. s # << >> => Len(s) \in 1 .. Len(s)
  OBVIOUS
<1>4. s # << >> => s[Len(s)] \in S
  BY <1>3
<1> QED
  BY <1>1, <1>2, <1>4 DEF Latest

\* One header more, named or not.
LEMMA WithOneMore ==
    ASSUME NEW S, NEW s \in Seq(S), NEW x \in S, NEW a
    PROVE  With(Append(s, x), a) = IF Named(x, a) THEN Append(With(s, a), x) ELSE With(s, a)
<1>1. PICK t, w : t = Append(s, x) /\ w = {y \in S : Named(y, a)}
  OBVIOUS
<1>2. t \in Seq(S)
  BY <1>1
<1>3. Selects(S, s, a) /\ Selects(S, t, a)
  BY <1>2, WithIs
<1>4. With(s, a) = Part(s, w) /\ With(t, a) = Part(t, w)
  BY <1>1, <1>3 DEF Selects
<1>5. Grown(S, s, x, w)
  BY PartAppended
<1>6. Part(t, w) = IF x \in w THEN Append(Part(s, w), x) ELSE Part(s, w)
  BY <1>1, <1>5 DEF Grown
<1>7. x \in w <=> Named(x, a)
  BY <1>1
<1> QED
  BY <1>1, <1>4, <1>6, <1>7

\* A set entry, seen by one name: it is the only one of its name if there was at most
\* one, and the others are as they were.
SetWith(p, x, a) ==
    /\ Named(x, a) => With(SetEntry(p, x), a) = <<x>>
    /\ ~Named(x, a) => With(SetEntry(p, x), a) = With(p, a)

\* What setting an entry does to the headers of a name.
LEMMA EntryIsSet ==
    ASSUME NEW S, AreNamed(S), NEW p \in Seq(S), NEW x \in S, NEW n,
           With(p, {n}) = << >> \/ \E y \in S : With(p, {n}) = <<y>>
    PROVE  SetWith(p, x, {n})
<1>1. PICK a, m, w : a = {n} /\ m = {x.name.word} /\ w = With(p, a)
  OBVIOUS
<1>2. Named(x, a) <=> x.name.word = n
  BY <1>1 DEF Named
<1>3. Named(x, a) => m = a
  BY <1>1, <1>2
<1>s. Selects(S, p, a)
  BY WithIs
<1>4. w \in Seq(S \cap {y \in S : Named(y, a)})
  <2>1. PICK k : k = {y \in S : Named(y, a)}
    OBVIOUS
  <2>2. w = Part(p, k)
    BY <1>1, <1>s, <2>1 DEF Selects
  <2> QED
    BY <2>1, <2>2, PartType
<1>5. CASE With(p, m) = << >>
  <2>1. SetEntry(p, x) = Append(p, x)
    BY <1>1, <1>5 DEF SetEntry
  <2>2. With(Append(p, x), a) = IF Named(x, a) THEN Append(w, x) ELSE w
    BY <1>1, WithOneMore
  <2>3. Named(x, a) => w = << >>
    BY <1>1, <1>3, <1>5
  <2>4. Named(x, a) => Append(w, x) = <<x>>
    BY <2>3
  <2> QED
    BY <1>1, <2>1, <2>2, <2>4 DEF SetWith
<1>6. CASE With(p, m) # << >>
  <2>1. PICK f : f = [y \in S |-> IF Named(y, m) THEN x ELSE y]
    OBVIOUS
  <2>2. f \in [S -> S] /\ \A y \in S : f[y] = IF Named(y, m) THEN x ELSE y
    BY <2>1
  <2>3. KeepsNames(f, S)
    <3>1. ASSUME NEW y \in S, Named(y, m) PROVE x.name = y.name
      <4>1. y.name.word = x.name.word
        BY <1>1, <3>1 DEF Named
      <4>2. x = Header(x.name.word, x.value) /\ y = Header(y.name.word, y.value)
        BY DEF AreNamed
      <4>3. x.name = Text(x.name.word, 1, {"token"}) /\ y.name = Text(y.name.word, 1, {"token"})
        BY <4>2 DEF Header
      <4> QED
        BY <4>1, <4>3
    <3> QED
      BY <2>2, <3>1 DEF KeepsNames
  <2>4. SetEntry(p, x) = Mapped(f, p)
    <3>1. SetEntry(p, x) = [i \in DOMAIN p |-> IF Named(p[i], m) THEN x ELSE p[i]]
      BY <1>1, <1>6 DEF SetEntry
    <3>2. \A i \in DOMAIN p : p[i] \in S
      OBVIOUS
    <3> QED
      BY <2>2, <3>1, <3>2 DEF Mapped
  <2>5. With(Mapped(f, p), a) = Mapped(f, w)
    <3>1. MappedWith(f, p, a)
      BY <2>2, <2>3, WithMapped
    <3> QED
      BY <1>1, <3>1 DEF MappedWith
  <2>6. CASE w = << >>
    <3>1. ~Named(x, a)
      BY <1>1, <1>3, <1>6, <2>6
    <3> QED
      BY <1>1, <2>4, <2>5, <2>6, <3>1, MappedFew DEF SetWith
  <2>7. ASSUME NEW y \in S, w = <<y>> PROVE SetWith(p, x, a)
    <3>1. Named(y, a)
      <4>1. PICK k : k = S \cap {z \in S : Named(z, a)}
        OBVIOUS
      <4>2. w \in Seq(k) /\ Len(w) = 1 /\ w[1] = y
        BY <1>4, <2>7, <4>1
      <4>3. y \in k
        BY <4>2
      <4> QED
        BY <4>1, <4>3
    <3>2. f[y] = IF Named(x, a) THEN x ELSE y
      <4>1. Named(y, m) <=> Named(x, a)
        BY <1>1, <1>2, <3>1 DEF Named
      <4> QED
        BY <2>2, <4>1
    <3>3. Mapped(f, w) = <<f[y]>>
      BY <2>7, MappedFew
    <3> QED
      BY <1>1, <2>4, <2>5, <2>7, <3>2, <3>3 DEF SetWith
  <2> QED
    BY <1>1, <2>6, <2>7
<1> QED
  BY <1>1, <1>5, <1>6

\* An object of entries has of each name the header that came last.
LEMMA EntriesAreLatest ==
    ASSUME NEW S, AreNamed(S), NEW n, NEW s \in Seq(S)
    PROVE  With(FromEntries(s), {n}) = Latest(With(s, {n}))
<1> DEFINE a == {n}
           P == {q \in Seq(S) : With(FromEntries(q), a) = Latest(With(q, a))}
<1> HIDE DEF a
<1>1. << >> \in P
  <2>1. PICK none : none = << >>
    OBVIOUS
  <2>2. none \in Seq(S) /\ FromEntries(none) = none
    BY <2>1, NoEntries
  <2>3. PICK w : w = {y \in S : Named(y, a)}
    OBVIOUS
  <2>4. Selects(S, none, a)
    BY <2>2, WithIs
  <2>5. With(none, a) = none
    BY <2>1, <2>3, <2>4, PartOfNone DEF Selects
  <2>6. Latest(none) = none
    BY <2>1 DEF Latest
  <2> QED
    BY <2>1, <2>2, <2>5, <2>6
<1>2. ASSUME NEW q \in Seq(S), NEW x \in S, q \in P PROVE Append(q, x) \in P
  <2>1. PICK p, t, w : p = FromEntries(q) /\ t = Append(q, x) /\ w = With(q, a)
    OBVIOUS
  <2>2. p \in Seq(S) /\ t \in Seq(S) /\ FromEntries(t) = SetEntry(p, x)
    BY <2>1, EntryAppended
  <2>3. With(p, a) = Latest(w)
    BY <1>2, <2>1
  <2>4. w \in Seq(S)
    <3>1. Selects(S, q, a)
      BY WithIs
    <3> QED
      BY <2>1, <3>1 DEF Selects
  <2>5. Latest(Append(w, x)) = <<x>> /\ (Latest(w) = << >> \/ \E y \in S : Latest(w) = <<y>>)
    BY <2>4, LatestOf
  <2>6. SetWith(p, x, a)
    BY <2>2, <2>3, <2>5, EntryIsSet DEF a
  <2>7. With(t, a) = IF Named(x, a) THEN Append(w, x) ELSE w
    BY <2>1, WithOneMore
  <2>8. With(SetEntry(p, x), a) = Latest(With(t, a))
    BY <2>3, <2>5, <2>6, <2>7 DEF SetWith
  <2> QED
    BY <2>1, <2>2, <2>8
<1> HIDE DEF P
<1>3. s \in P
  BY <1>1, <1>2, SequencesFrom
<1> QED
  BY <1>3 DEF P, a

\* The headers of an object of entries: the one of a name that came once, and the others.
ObjectOf(s, o, x) ==
    /\ With(FromEntries(s), {o}) = <<x>>
    /\ \A n : With(Without(FromEntries(s), {o}), {n}) = Latest(With(Without(s, {o}), {n}))

\* Made an object, entries keep a header whose name came once and the latest of the rest.
LEMMA ObjectPasses ==
    ASSUME NEW S, AreNamed(S), NEW s \in Seq(S), NEW o, NEW x, With(s, {o}) = <<x>>
    PROVE  ObjectOf(s, o, x)
<1>1. PICK e, a, none : e = FromEntries(s) /\ a = {o} /\ none = {}
  OBVIOUS
<1>2. e \in Seq(S)
  <2>1. s = << >> => e = << >>
    BY <1>1, NoEntries
  <2>2. PICK p : EntriesSet(S, s, p)
    BY EntrySteps
  <2>3. p \in [0 .. Len(s) -> Seq(S)] /\ e = p[Len(s)] /\ Len(s) \in 0 .. Len(s)
    BY <1>1, <2>2 DEF EntriesSet
  <2> QED
    BY <2>3
<1>3. With(e, a) = <<x>>
  <2>1. With(e, {o}) = Latest(With(s, {o}))
    BY <1>1, EntriesAreLatest
  <2>2. PICK t : t = <<x>>
    OBVIOUS
  <2>3. t # << >> /\ t[Len(t)] = x
    BY <2>2
  <2>4. Latest(t) = t
    BY <2>2, <2>3 DEF Latest
  <2> QED
    BY <1>1, <2>1, <2>2, <2>4
<1>4. ASSUME NEW n PROVE With(Without(e, a), {n}) = Latest(With(Without(s, a), {n}))
  <2>1. PICK b, c : b = {n} /\ c = b \ a
    OBVIOUS
  <2>2. Twice(e, a, b) /\ Twice(s, a, b)
    BY <1>2, WithTwice
  <2>3. With(Without(e, a), b) = With(e, c) /\ With(Without(s, a), b) = With(s, c)
    BY <2>1, <2>2 DEF Twice
  <2>4. CASE n = o
    <3>1. c = {}
      BY <1>1, <2>1, <2>4
    <3>2. With(e, c) = << >> /\ With(s, c) = << >>
      BY <1>2, <3>1, WithNobody
    <3>3. PICK t : t = << >>
      OBVIOUS
    <3>4. Latest(t) = t
      BY <3>3 DEF Latest
    <3> QED
      BY <2>1, <2>3, <3>2, <3>3, <3>4
  <2>5. CASE n # o
    <3>1. c = b
      BY <1>1, <2>1, <2>5
    <3>2. With(e, {n}) = Latest(With(s, {n}))
      BY <1>1, EntriesAreLatest
    <3> QED
      BY <2>1, <2>3, <3>1, <3>2
  <2> QED
    BY <2>4, <2>5
<1> QED
  BY <1>1, <1>3, <1>4 DEF ObjectOf

\* Rewritten headers are headers.
LEMMA RewrittenAreNamed ==
    ASSUME NEW S, AreNamed(S)
    PROVE  AreNamed(Renamed(S))
<1>1. ASSUME NEW x \in S PROVE RewriteHeader(x) = Header(RewriteHeader(x).name.word, RewriteHeader(x).value)
  <2>1. x = Header(x.name.word, x.value)
    BY DEF AreNamed
  <2>2. PICK y, v : y = RewriteHeader(x) /\ v = y.value
    OBVIOUS
  <2>3. DOMAIN x = {"name", "value"} /\ x = [name |-> x.name, value |-> x.value]
        /\ x.name = Text(x.name.word, 1, {"token"})
    BY <2>1 DEF Header
  <2>4. \/ y = x \/ \E u : y = [x EXCEPT !.value = u]
    <3>1. CASE Named(x, {"accept-encoding"})
      <4>1. y = [x EXCEPT !.value = Identity]
        BY <2>2, <3>1 DEF RewriteHeader, Named
      <4> QED
        BY <4>1
    <3>2. CASE ~Named(x, {"accept-encoding"}) /\ Named(x, {"origin", "referer"})
      <4>1. y = [x EXCEPT !.value = Localise(x.value)]
        BY <2>2, <3>2 DEF RewriteHeader
      <4> QED
        BY <4>1
    <3>3. CASE ~Named(x, {"accept-encoding"}) /\ ~Named(x, {"origin", "referer"})
      <4>1. y = x
        BY <2>2, <3>3 DEF RewriteHeader
      <4> QED
        BY <4>1
    <3> QED
      BY <3>1, <3>2, <3>3
  <2>5. y.name = x.name /\ y = [name |-> x.name, value |-> v]
    BY <2>2, <2>3, <2>4
  <2> QED
    BY <2>2, <2>3, <2>5 DEF Header
<1>2. PICK h : h = Header("accept-encoding", Identity)
  OBVIOUS
<1>3. h = Header(h.name.word, h.value)
  BY <1>2 DEF Header, Text
<1>4. \A y \in Renamed(S) : y \in S \/ (\E x \in S : y = RewriteHeader(x)) \/ y = h
  BY <1>2 DEF Renamed
<1> QED
  BY <1>1, <1>3, <1>4 DEF AreNamed

\* From the public request to the local one: the adapter's filter takes out nothing that
\* the first one left, and what the adapter rewrites or adds is not taken out.
Passed(s, more, kept) ==
    /\ Without(s, HopOnly(s) \cup more) = s
    /\ Without(s, {"accept-encoding"}) = [i \in DOMAIN kept |-> Localise1(kept[i])]
    /\ With(s, {"accept-encoding"}) = <<Header("accept-encoding", Identity)>>

\* Filtered and rewritten request headers pass the filter again as they are.
LEMMA RequestPasses ==
    ASSUME NEW h, AreHeaders(h), Len(With(h, {"accept-encoding"})) <= 1, NEW more, "accept-encoding" \notin more,
           NEW n, n = HopOnly(Entries(h)) \cup more,
           NEW g, g = Without(Entries(h), n),
           NEW s, s = RewriteLocal(g),
           NEW kept, kept = Without(Entries(h), n \cup {"accept-encoding"})
    PROVE  Passed(s, more, kept)
<1>1. PICK S, e, f, a : /\ S = Range(h) /\ e = Entries(h) /\ f = Rewriter(S) /\ a = {"accept-encoding"}
  OBVIOUS
<1>2. h \in Seq(S) /\ AreNamed(S)
  BY <1>1 DEF AreHeaders, AreNamed
<1>3. e \in Seq(S)
  <2>1. Filtered(S, h)
    BY <1>2, Filters
  <2> QED
    BY <1>1, <2>1 DEF Filtered
<1>4. HopByHop \subseteq n /\ more \subseteq n
  BY DEF HopOnly
<1>5. /\ g \in Seq(S) /\ With(g, {"connection"}) = << >>
      /\ \A b : b \subseteq n => Without(g, b) = g
  BY <1>1, <1>3, <1>4, FilteredAgain
<1>6. \A b : WithRewritten(f, g, s, b)
  BY <1>1, <1>2, <1>5, RewritesWith
<1>7. /\ f \in [S -> Renamed(S)] /\ Mapped(f, g) \in Seq(Renamed(S))
      /\ Extended(Mapped(f, g), s, g)
  BY <1>1, <1>2, <1>5, RewritesAll
<1>8. With(s, {"connection"}) = << >>
  <2>1. PICK c : c = {"connection"}
    OBVIOUS
  <2>2. "accept-encoding" \notin c
    BY <2>1
  <2>3. With(s, c) = Mapped(f, With(g, c))
    BY <1>6, <2>2 DEF WithRewritten
  <2> QED
    BY <1>5, <2>1, <2>3, MappedFew
<1>9. HopOnly(s) = HopByHop
  BY <1>8, ListedBy
<1>10. Without(s, HopByHop \cup more) = s
  <2>1. PICK b : b = HopByHop \cup more
    OBVIOUS
  <2>2. "accept-encoding" \notin b
    BY <2>1 DEF HopByHop
  <2>3. Without(g, b) = g
    BY <1>4, <1>5, <2>1
  <2>4. \/ With(g, a) # << >> /\ Without(s, b) = Mapped(f, Without(g, b))
        \/ /\ With(g, a) = << >>
           /\ Without(s, b) = Mapped(f, Without(g, b)) \o <<Header("accept-encoding", Identity)>>
    BY <1>1, <1>6, <2>2 DEF WithRewritten
  <2> QED
    BY <1>1, <1>7, <2>1, <2>3, <2>4 DEF Extended
<1>11. Without(s, a) = [i \in DOMAIN kept |-> Localise1(kept[i])]
  <2>1. Without(s, a) = Mapped(f, Without(g, a))
    BY <1>1, <1>6 DEF WithRewritten
  <2>2. Without(g, a) = kept
    <3>1. Twice(e, n, a)
      BY <1>3, WithTwice
    <3> QED
      BY <1>1, <3>1 DEF Twice
  <2>3. kept \in Seq({x \in S : ~Named(x, a)})
    <3>1. PICK b : b = n \cup a
      OBVIOUS
    <3>2. Selects(S, e, b)
      BY <1>3, WithIs
    <3>3. PICK k : k = {x \in S : ~Named(x, b)}
      OBVIOUS
    <3>4. kept = Part(e, k)
      BY <1>1, <3>1, <3>2, <3>3 DEF Selects
    <3>5. Part(e, k) \in Seq(S \cap k)
      BY <1>3, PartType
    <3>6. S \cap k \subseteq {x \in S : ~Named(x, a)}
      BY <3>1, <3>3 DEF Named
    <3> QED
      BY <3>4, <3>5, <3>6, SeqSmaller
  <2>4. ASSUME NEW i \in DOMAIN kept PROVE f[kept[i]] = Localise1(kept[i])
    <3>1. PICK x : x = kept[i]
      OBVIOUS
    <3>2. x \in S /\ ~Named(x, a)
      BY <2>3, <2>4, <3>1
    <3>3. x = Header(x.name.word, x.value)
      BY <1>2, <3>2 DEF AreNamed
    <3>4. f[x] = RewriteHeader(x)
      BY <1>1, <3>2 DEF Rewriter
    <3>5. RewriteHeader(x) = Localise1(x)
      BY <1>1, <3>2, <3>3, RewritesHeader
    <3> QED
      BY <3>1, <3>4, <3>5
  <2>5. Mapped(f, kept) = [i \in DOMAIN kept |-> f[kept[i]]]
    BY DEF Mapped
  <2>6. [i \in DOMAIN kept |-> f[kept[i]]] = [i \in DOMAIN kept |-> Localise1(kept[i])]
    BY <2>4
  <2> QED
    BY <2>1, <2>2, <2>5, <2>6
<1>12. With(s, a) = <<Header("accept-encoding", Identity)>>
  <2>1. \/ With(g, a) # << >> /\ With(s, a) = Mapped(f, With(g, a))
        \/ /\ With(g, a) = << >>
           /\ With(s, a) = Mapped(f, With(g, a)) \o <<Header("accept-encoding", Identity)>>
    BY <1>1, <1>6 DEF WithRewritten
  <2>2. CASE With(g, a) = << >>
    <3>1. Mapped(f, With(g, a)) = << >>
      BY <2>2, MappedFew
    <3>2. PICK x, t : x = Header("accept-encoding", Identity) /\ t = <<x>>
      OBVIOUS
    <3>3. t \in Seq({x})
      BY <3>2
    <3>4. << >> \o t = t
      BY <3>3, ConcatEmptySeq
    <3> QED
      BY <2>1, <2>2, <3>1, <3>2, <3>4
  <2>3. CASE With(g, a) # << >>
    <3>1. With(g, a) = With(h, a)
      <4>1. Twice(e, n, a)
        BY <1>3, WithTwice
      <4>2. With(g, a) = With(e, a \ n)
        BY <1>1, <4>1 DEF Twice
      <4>3. a \ n = a
        <5>1. CASE "accept-encoding" \in n
          <6>1. PICK b : b = a \ n
            OBVIOUS
          <6>2. b = {}
            BY <1>1, <5>1, <6>1
          <6>3. With(e, b) = << >>
            BY <1>3, <6>2, WithNobody
          <6> QED
            BY <2>3, <4>2, <6>1, <6>3
        <5>2. CASE "accept-encoding" \notin n
          BY <1>1, <5>2
        <5> QED
          BY <5>1, <5>2
      <4>4. "set-cookie" \notin a
        BY <1>1
      <4>5. With(e, a) = With(h, a)
        BY <1>1, <1>2, <4>4, EntriesWith
      <4> QED
        BY <4>2, <4>3, <4>5
    <3>2. PICK w : w = With(h, a)
      OBVIOUS
    <3>3. w \in Seq(S \cap {x \in S : Named(x, a)}) /\ w # << >> /\ Len(w) <= 1
      <4>1. PICK k : k = {x \in S : Named(x, a)}
        OBVIOUS
      <4>2. Selects(S, h, a)
        BY <1>2, WithIs
      <4>3. w = Part(h, k)
        BY <3>2, <4>1, <4>2 DEF Selects
      <4>4. Part(h, k) \in Seq(S \cap k)
        BY <1>2, PartType
      <4> QED
        BY <1>1, <2>3, <3>1, <3>2, <4>1, <4>3, <4>4
    <3>4. PICK x : x = w[1]
      OBVIOUS
    <3>5. w = <<x>> /\ x \in S /\ Named(x, a)
      <4>1. PICK k : k = S \cap {y \in S : Named(y, a)}
        OBVIOUS
      <4>2. w \in Seq(k) /\ Len(w) = 1
        <5>1. w \in Seq(k) /\ w # << >> /\ Len(w) <= 1
          BY <3>3, <4>1
        <5>2. Len(w) \in Nat
          BY <5>1
        <5>3. Len(w) # 0
          BY <5>1, EmptyByLength
        <5>4. PICK l : l = Len(w)
          OBVIOUS
        <5>5. l = 1
          BY <5>1, <5>2, <5>3, <5>4
        <5> QED
          BY <5>1, <5>4, <5>5
      <4>3. w = <<x>> /\ x \in k
        BY <3>4, <4>2
      <4> QED
        BY <4>1, <4>3
    <3>6. f[x] = Header("accept-encoding", Identity)
      <4>1. x = Header(x.name.word, x.value)
        BY <1>2, <3>5 DEF AreNamed
      <4>2. f[x] = RewriteHeader(x)
        BY <1>1, <3>5 DEF Rewriter
      <4> QED
        BY <1>1, <3>5, <4>1, <4>2, RewritesHeader
    <3>7. Mapped(f, w) = <<f[x]>>
      BY <3>5, MappedFew
    <3> QED
      BY <2>1, <2>3, <3>1, <3>2, <3>6, <3>7
  <2> QED
    BY <2>2, <2>3
<1> QED
  BY <1>1, <1>9, <1>10, <1>11, <1>12 DEF Passed

\* End to end, headers arrive as the properties say: what belongs to a hop stays there,
\* both filters agree about it although the second one sees less, the local server is
\* asked for an unencoded answer exactly once, and everything else arrives in order; a
\* local WebSocket gets of each name the header that came last.
THEOREM HeadersAlwaysArrive == Spec => []HeadersArrive
<1>1. ASSUME IInv, local # None
      PROVE  LET asked == Entries(request.headers)
                 kept == Without(asked, HopOnly(asked) \cup {"host", "content-length", "accept-encoding"}
                                        \cup IF IsSocket THEN WebSocketNames ELSE {})
                 due == [i \in DOMAIN kept |-> Localise1(kept[i])]
                 came == Without(local.headers, {"accept-encoding"})
             IN /\ IF ~IsSocket THEN came = due
                   ELSE \A h \in Range(due) \cup Range(came) :
                            With(came, {h.name.word}) = Latest(With(due, {h.name.word}))
                /\ With(local.headers, {"accept-encoding"}) = <<Header("accept-encoding", Identity)>>
  <2>1. Started /\ HeadersCame
    BY <1>1 DEF IInv
  <2>2. client # "none" /\ request \in Asked
    BY <1>1, <2>1 DEF Started
  <2>3. local.headers = LocalHeaders
    BY <2>1, <2>2 DEF HeadersCame
  <2>4. PICK h, e : h = request.headers /\ e = Entries(h)
    OBVIOUS
  <2>5. AreHeaders(h) /\ Len(With(h, {"accept-encoding"})) <= 1 /\ request.kind \in {"http", "websocket"}
    BY <2>2, <2>4, AskedAssumption
  <2>6. PICK S : S = Range(h)
    OBVIOUS
  <2>7. h \in Seq(S) /\ AreNamed(S)
    BY <2>5, <2>6 DEF AreHeaders, AreNamed
  <2>8. e \in Seq(S)
    <3>1. Filtered(S, h)
      BY <2>7, Filters
    <3> QED
      BY <2>4, <3>1 DEF Filtered
  <2>9. PICK base, more : /\ base = {"host", "content-length"}
                          /\ more = base \cup IF IsSocket THEN WebSocketNames ELSE {}
    OBVIOUS
  <2>10. "accept-encoding" \notin more
    BY <2>9 DEF WebSocketNames
  <2>11. PICK n, g, s, kept : /\ n = HopOnly(e) \cup more /\ g = Without(e, n) /\ s = RewriteLocal(g)
                              /\ kept = Without(e, n \cup {"accept-encoding"})
    OBVIOUS
  <2>12. /\ Without(s, HopOnly(s) \cup more) = s
         /\ Without(s, {"accept-encoding"}) = [i \in DOMAIN kept |-> Localise1(kept[i])]
         /\ With(s, {"accept-encoding"}) = <<Header("accept-encoding", Identity)>>
    <3>1. /\ n = HopOnly(Entries(h)) \cup more /\ g = Without(Entries(h), n)
          /\ s = RewriteLocal(g) /\ kept = Without(Entries(h), n \cup {"accept-encoding"})
      BY <2>4, <2>11
    <3>2. Passed(s, more, kept)
      BY <2>5, <2>10, <3>1, RequestPasses
    <3> QED
      BY <3>2 DEF Passed
  <2>13. \E T : AreNamed(T) /\ s \in Seq(T)
    <3>1. Selects(S, e, n)
      BY <2>8, WithIs
    <3>2. g \in Seq(S)
      BY <2>11, <3>1 DEF Selects
    <3>3. PICK r, x, T : r = Mapped(Rewriter(S), g) /\ x = Header("accept-encoding", Identity) /\ T = Renamed(S)
      OBVIOUS
    <3>4. r \in Seq(T) /\ Extended(r, s, g)
      BY <2>7, <2>11, <3>2, <3>3, RewritesAll
    <3>5. s = r \/ s = r \o <<x>>
      BY <3>3, <3>4 DEF Extended
    <3>6. x \in T
      BY <3>3 DEF Renamed
    <3>7. r \o <<x>> \in Seq(T)
      BY <3>4, <3>6
    <3>8. AreNamed(T)
      BY <2>7, <3>3, RewrittenAreNamed
    <3> QED
      BY <3>4, <3>5, <3>7, <3>8
  <2>14. local.headers = IF IsSocket THEN FromEntries(s) ELSE s
    <3>1. PICK T : s \in Seq(T)
      BY <2>13
    <3>2. Filtered(S, e) /\ Filtered(T, s)
      BY <2>8, <3>1, Filters
    <3>3. CASE request.kind = "http"
      <4>1. more = base
        BY <2>9, <3>3 DEF IsSocket
      <4>2. ForwardedHttp(h) = g
        BY <2>4, <2>9, <2>11, <3>2, <4>1 DEF Filtered, ForwardedHttp
      <4>3. LocalHttp(g) = Without(s, HopOnly(s) \cup more)
        BY <2>9, <2>11, <3>2, <4>1 DEF Filtered, LocalHttp
      <4>4. LocalHeaders = LocalHttp(ForwardedHttp(h))
        BY <2>4, <3>3 DEF LocalHeaders
      <4> QED
        BY <2>3, <2>12, <3>3, <4>2, <4>3, <4>4 DEF IsSocket
    <3>4. CASE request.kind = "websocket"
      <4>1. more = base \cup WebSocketNames
        BY <2>9, <3>4 DEF IsSocket
      <4>2. HopOnly(e) \cup base \cup WebSocketNames = HopOnly(e) \cup more
        BY <4>1
      <4>3. HopOnly(s) \cup base \cup WebSocketNames = HopOnly(s) \cup more
        BY <4>1
      <4>4. ForwardedWebSocket(h) = g
        BY <2>4, <2>9, <2>11, <3>2, <4>2 DEF Filtered, ForwardedWebSocket
      <4>5. LocalWebSocket(g) = FromEntries(Without(s, HopOnly(s) \cup more))
        BY <2>9, <2>11, <3>2, <4>3 DEF Filtered, LocalWebSocket
      <4>6. LocalHeaders = LocalWebSocket(ForwardedWebSocket(h))
        BY <2>4, <3>4 DEF LocalHeaders
      <4> QED
        BY <2>3, <2>12, <3>4, <4>4, <4>5, <4>6 DEF IsSocket
    <3> QED
      BY <2>5, <3>3, <3>4
  <2>15. n \cup {"accept-encoding"} = HopOnly(e) \cup {"host", "content-length", "accept-encoding"}
                                     \cup IF IsSocket THEN WebSocketNames ELSE {}
    BY <2>9, <2>11
  <2>16. PICK due, came : /\ due = [i \in DOMAIN kept |-> Localise1(kept[i])]
                          /\ came = Without(local.headers, {"accept-encoding"})
    OBVIOUS
  <2>17. CASE ~IsSocket
    BY <2>4, <2>11, <2>12, <2>14, <2>15, <2>17
  <2>18. CASE IsSocket
    <3>1. PICK T : AreNamed(T) /\ s \in Seq(T)
      BY <2>13
    <3>2. PICK o, x : o = "accept-encoding" /\ x = Header("accept-encoding", Identity)
      OBVIOUS
    <3>3. With(s, {o}) = <<x>> /\ due = Without(s, {o})
      BY <2>12, <2>16, <3>2
    <3>4. PICK e2 : e2 = FromEntries(s) /\ e2 = local.headers /\ came = Without(e2, {o})
      BY <2>14, <2>16, <2>18, <3>2
    <3>5. /\ With(FromEntries(s), {o}) = <<x>>
          /\ \A name : With(Without(FromEntries(s), {o}), {name}) = Latest(With(Without(s, {o}), {name}))
      <4>1. ObjectOf(s, o, x)
        BY <3>1, <3>3, ObjectPasses
      <4> QED
        BY <4>1 DEF ObjectOf
    <3>6. \A name : With(came, {name}) = Latest(With(due, {name}))
      BY <3>3, <3>4, <3>5
    <3>7. With(local.headers, {"accept-encoding"}) = <<Header("accept-encoding", Identity)>>
      BY <3>2, <3>4, <3>5
    <3> QED
      BY <2>4, <2>11, <2>15, <2>16, <2>18, <3>6, <3>7
  <2> QED
    BY <2>17, <2>18
<1>2. ASSUME IInv, public # None, public.by = "local", ~IsSocket
      PROVE  public.headers = Entries(Without(answer.headers, HopOnly(answer.headers)
                                                  \cup {"content-encoding", "content-length"}))
  <2>1. /\ answer \in Answers /\ answer.kind = "http"
        /\ public.headers = FilterResponse(FilterResponse(Entries(answer.headers)))
    BY <1>2 DEF IInv, HeadersCame
  <2>2. AreHeaders(answer.headers)
    BY <2>1, AnswersAssumption
  <2>3. answer.headers \in Seq(Range(answer.headers))
    BY <2>2 DEF AreHeaders
  <2>4. PICK h : h = answer.headers
    OBVIOUS
  <2>5. h \in Seq(Range(h))
    BY <2>3, <2>4
  <2> QED
    BY <2>1, <2>4, <2>5, ResponsePasses
<1>3. IInv => HeadersArrive
  BY <1>1, <1>2 DEF HeadersArrive
<1> QED
  BY <1>3, Invariant, PTL
=============================================================================
