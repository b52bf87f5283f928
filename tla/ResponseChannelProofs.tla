----------------------- MODULE ResponseChannelProofs -----------------------
(* Theorems about ResponseChannel, for every finite set of streams, all bodies,  *)
(* windows and limits: types, wake-ups, sequence, the pending limit, the stream  *)
(* windows, and that the channel implements ByteStream.                          *)
(*                                                                               *)
(* Two kinds of facts make the invariant. The link: while the server knows a     *)
(* stream, the data frames on their way are exactly the chunks from              *)
(* receiveNextSeq up to sendNextSeq, in order (DataInv). The accounts: every     *)
(* quantity of bytes is a difference of two prefix sums of the body (FlowInv,    *)
(* CreditInv), so that a chunk that moves on changes two of them by its size.    *)
EXTENDS ResponseChannel, SumTheorems

DownFrame == [type : {"request", "request.abort"}, id : Streams]
        \cup [type : {"stream.credit"}, id : Streams, bytes : Nat]
        \cup [type : {"channel.credit"}, bytes : Nat]
DataFrame == {f \in [type : {"data"}, id : Streams, seq : Nat] : f.seq < Len(Body[f.id])}
UpFrame == [type : {"start", "abort"}, id : Streams]
      \cup DataFrame
      \cup [type : {"end"}, id : Streams, last : Int]

Chunks(s) == {n \in Nat : n < Len(Body[s])}
Queues(q) == DOMAIN q = Streams /\ \A s \in Streams : q[s] \in Seq(Chunks(s))

\* A coroutine that has a chunk in hand has not sent it.
SendInv == \A s \in Streams :
               /\ sent[s] <= Len(Body[s])
               /\ pc[s] \in {"waiting", "woken", "cleared"} => sent[s] < Len(Body[s])

\* Each side with the link it fills.
ClientInv ==
    /\ pc \in [Streams -> Place] /\ live \subseteq Streams
    /\ sent \in [Streams -> Nat]
    /\ outStream \in [Streams -> Nat] /\ outChannel \in Nat
    /\ up \in Seq(UpFrame)
    /\ SendInv /\ NoLostWakeup
ServerInv ==
    /\ phase \in [Streams -> Phase] /\ next \in [Streams -> Nat]
    /\ inStream \in [Streams -> Nat] /\ inChannel \in Nat
    /\ pending \in [Streams -> Seq(Nat)] /\ Queues(pending)
    /\ pendingTotal \in Nat /\ PendingAccounted
    /\ accepted \in [Streams -> Seq(Nat)] /\ unread \in [Streams -> 0..HighWater]
    /\ outcome \in [Streams -> Outcome]
    /\ fault \in {"none", "credit.violation", "protocol.error"}
    /\ down \in Seq(DownFrame)
SafeInv == ClientInv /\ ServerInv

Ask(s) == [type |-> "request", id |-> s]
Chunk(s, n) == [type |-> "data", id |-> s, seq |-> n]

\* A link brings the chunks of a stream in order, before its end, and a request once.
Follows(f, g) == (g.type = "data" /\ f.type \in {"data", "end"} /\ f.id = g.id)
                     => (f.type = "data" /\ f.seq < g.seq)
Sorted(link) == \A i, j \in DOMAIN link : i < j => Follows(link[i], link[j])
Once(link) == \A i, j \in DOMAIN link :
                  (link[i].type = "request" /\ link[i] = link[j]) => i = j

\* Nothing of a stream is there before the client has read its request.
FreshInv(s) ==
    /\ phase[s] = "absent" => pc[s] = "absent" /\ Ask(s) \notin Range(down)
    /\ Ask(s) \in Range(down) => pc[s] = "absent"
    /\ pc[s] = "absent" => /\ s \notin live /\ next[s] = 0 /\ sent[s] = 0
                           /\ \A f \in Range(up) : f.id # s

DataInv(s) ==
    /\ next[s] <= sent[s]
    /\ \A f \in Range(up) : f.type = "data" /\ f.id = s =>
           f.seq < sent[s] /\ (Open(s) => next[s] <= f.seq)
    /\ Open(s) => \A n \in next[s] .. sent[s] - 1 : Chunk(s, n) \in Range(up)

EndInv(s) ==
    \A f \in Range(up) : f.type = "end" /\ f.id = s => pc[s] = "gone" /\ f.last = sent[s] - 1

LinkInv == /\ Sorted(up) /\ Once(down)
           /\ \A s \in Streams : FreshInv(s) /\ DataInv(s) /\ EndInv(s)

\* Chunks first .. first + n - 1.
Run(first, n) == [i \in 1..n |-> first + i - 1]
Taken(s) == Len(accepted[s])

\* What the public body took comes first, then what is pending.
QueueInv(s) ==
    /\ accepted[s] = Run(0, Taken(s)) /\ Taken(s) <= next[s]
    /\ pending[s] = IF Open(s) THEN Run(Taken(s), next[s] - Taken(s)) ELSE <<>>
    /\ phase[s] = "open" /\ pending[s] # <<>> => unread[s] = HighWater

OrderInv == LinkInv /\ (\A s \in Streams : QueueInv(s)) /\ NoProtocolError

\* Bytes of the first n chunks of s.
Prefix(s, n) == SumFunctionOnSet(Body[s], 1..n)

\* How much of its body the client may have sent.
Granted(s) == StreamCredit + Prefix(s, Taken(s))

WindowInv(s) == inStream[s] = IF Open(s) THEN StreamCredit - Bytes(s, pending[s]) ELSE 0
FlowInv(s) == Open(s) => DataInFlight(s) + Prefix(s, next[s]) = Prefix(s, sent[s])
CreditInv(s) ==
    /\ CreditInFlight(s) <= Prefix(s, Taken(s)) /\ Prefix(s, sent[s]) <= Granted(s)
    /\ s \in live => outStream[s] + Prefix(s, sent[s]) + CreditInFlight(s) = Granted(s)
    /\ pc[s] = "cleared" => Prefix(s, sent[s] + 1) <= Granted(s)
Account(s) == WindowInv(s) /\ FlowInv(s) /\ CreditInv(s)
AccountInv == \A s \in Streams : Account(s)

-----------------------------------------------------------------------------
(* Links.                                                                      *)

\* A frame in front of a link.
LEMMA Popped ==
    ASSUME NEW S, NEW link \in Seq(S), link # <<>>
    PROVE  /\ Head(link) \in S /\ Tail(link) \in Seq(S)
           /\ Range(link) = Range(Tail(link)) \cup {Head(link)}
           /\ Sorted(link) => Sorted(Tail(link)) /\ \A f \in Range(Tail(link)) : Follows(Head(link), f)
           /\ Once(link) => /\ Once(Tail(link))
                            /\ Head(link).type = "request" => Head(link) \notin Range(Tail(link))
<1> DEFINE rest == Tail(link)
<1>1. /\ rest \in Seq(S) /\ Head(link) = link[1] /\ link[1] \in S
      /\ Len(link) \in Nat \ {0} /\ DOMAIN link = 1..Len(link)
      /\ DOMAIN rest = 1..Len(link) - 1
      /\ \A i \in DOMAIN rest : rest[i] = link[i + 1]
  OBVIOUS
<1> HIDE DEF rest
<1>2. 1 \in DOMAIN link /\ \A i \in DOMAIN rest : i + 1 \in DOMAIN link /\ 1 < i + 1
  BY <1>1
<1>3. \A i \in DOMAIN link : i = 1 \/ (i - 1 \in DOMAIN rest /\ link[i] = rest[i - 1])
  BY <1>1
<1>4. Range(link) = Range(rest) \cup {link[1]}
  <2>1. ASSUME NEW f \in Range(link) PROVE f = link[1] \/ f \in Range(rest)
    <3>1. PICK i \in DOMAIN link : f = link[i]
      BY DEF Range
    <3>2. CASE i = 1
      BY <3>1, <3>2
    <3>3. CASE i # 1
      <4>1. i - 1 \in DOMAIN rest /\ f = rest[i - 1]
        BY <1>3, <3>1, <3>3, Zenon
      <4> QED
        BY <4>1 DEF Range
    <3> QED
      BY <3>2, <3>3
  <2>2. link[1] \in Range(link)
    BY <1>2, Zenon DEF Range
  <2>3. \A f \in Range(rest) : f \in Range(link)
    BY <1>1, <1>2, Zenon DEF Range
  <2> QED
    BY <2>1, <2>2, <2>3
<1>5. \A i, j \in DOMAIN rest : i < j => i + 1 < j + 1
  BY <1>1
<1>6. Sorted(link) => Sorted(rest) /\ \A f \in Range(rest) : Follows(link[1], f)
  BY <1>1, <1>2, <1>5 DEF Sorted, Range
<1>7. \A i, j \in DOMAIN rest : (i + 1 = j + 1 => i = j) /\ i + 1 # 1
  BY <1>1
<1>8. Once(link) => Once(rest) /\ (link[1].type = "request" => link[1] \notin Range(rest))
  BY <1>1, <1>2, <1>7 DEF Once, Range
<1> QED
  BY <1>1, <1>4, <1>6, <1>8 DEF rest

\* Frames behind a link.
LEMMA Joined ==
    ASSUME NEW S, NEW link \in Seq(S), NEW more \in Seq(S)
    PROVE  /\ link \o more \in Seq(S)
           /\ Range(link \o more) = Range(link) \cup Range(more)
           /\ (\A f \in Range(more) : f.type # "request") /\ Once(link) => Once(link \o more)
           /\ (\A f \in Range(more) : f.type # "data") /\ Sorted(link) => Sorted(link \o more)
<1> DEFINE all == link \o more
           m == Len(link)
<1>1. /\ all \in Seq(S) /\ DOMAIN link = 1..m /\ m \in Nat /\ Len(more) \in Nat
      /\ DOMAIN more = 1..Len(more) /\ DOMAIN all = 1..m + Len(more)
      /\ \A i \in 1..m : all[i] = link[i]
      /\ \A i \in 1..Len(more) : all[m + i] = more[i]
  OBVIOUS
<1> HIDE DEF all, m
<1>2. /\ \A i \in DOMAIN link : i \in DOMAIN all /\ all[i] = link[i]
      /\ \A i \in DOMAIN more : m + i \in DOMAIN all /\ all[m + i] = more[i]
  BY <1>1
<1>3. \A i \in DOMAIN all : \/ i \in DOMAIN link /\ all[i] = link[i]
                            \/ i - m \in DOMAIN more /\ all[i] = more[i - m] /\ i \notin DOMAIN link
  <2> TAKE i \in DOMAIN all
  <2>1. CASE i <= m
    BY <1>1, <2>1
  <2>2. CASE ~(i <= m)
    <3>1. i - m \in 1..Len(more) /\ m + (i - m) = i
      BY <1>1, <2>2
    <3> QED
      BY <1>1, <2>2, <3>1
  <2> QED
    BY <2>1, <2>2
<1>4. Range(all) = Range(link) \cup Range(more)
  BY <1>2, <1>3 DEF Range
<1>5. (\A f \in Range(more) : f.type # "request") /\ Once(link) => Once(all)
  BY <1>3 DEF Once, Range
<1>6. \A i, j \in DOMAIN all : i < j /\ j \in DOMAIN link => i \in DOMAIN link
  BY <1>1
<1>7. (\A f \in Range(more) : f.type # "data") /\ Sorted(link) => Sorted(all)
  BY <1>3, <1>6 DEF Sorted, Range, Follows
<1> QED
  BY <1>1, <1>4, <1>5, <1>7 DEF all

\* One more frame.
LEMMA Pushed ==
    ASSUME NEW S, NEW link \in Seq(S), NEW f \in S
    PROVE  Range(Append(link, f)) = Range(link) \cup {f}
<1> DEFINE all == Append(link, f)
<1>1. /\ all \in Seq(S) /\ DOMAIN link = 1..Len(link) /\ Len(link) \in Nat
      /\ DOMAIN all = 1..Len(link) + 1 /\ all[Len(link) + 1] = f
      /\ \A i \in DOMAIN link : all[i] = link[i]
  OBVIOUS
<1> HIDE DEF all
<1>2. /\ \A i \in DOMAIN all : i \in DOMAIN link \/ i = Len(link) + 1
      /\ Len(link) + 1 \in DOMAIN all /\ \A i \in DOMAIN link : i \in DOMAIN all
  BY <1>1
<1>3. Range(all) = Range(link) \cup {f}
  BY <1>1, <1>2 DEF Range
<1> QED
  BY <1>3 DEF all

\* ... which keeps the order ...
LEMMA PushedSorted ==
    ASSUME NEW S, NEW link \in Seq(S), NEW f \in S, Sorted(link),
           \A g \in Range(link) : Follows(g, f)
    PROVE  Sorted(Append(link, f))
<1> DEFINE all == Append(link, f)
<1>1. /\ all \in Seq(S) /\ DOMAIN link = 1..Len(link) /\ Len(link) \in Nat
      /\ DOMAIN all = 1..Len(link) + 1 /\ all[Len(link) + 1] = f
      /\ \A i \in DOMAIN link : all[i] = link[i]
  OBVIOUS
<1> HIDE DEF all
<1>2. /\ \A i \in DOMAIN all : i \in DOMAIN link \/ i = Len(link) + 1
      /\ Len(link) + 1 \in DOMAIN all /\ \A i \in DOMAIN link : i \in DOMAIN all
      /\ \A i, j \in DOMAIN all : i < j => i \in DOMAIN link
  BY <1>1
<1>3. Sorted(all)
  BY <1>1, <1>2 DEF Sorted, Range
<1> QED
  BY <1>3 DEF all

\* ... or is a new request.
LEMMA PushedOnce ==
    ASSUME NEW S, NEW link \in Seq(S), NEW f \in S, Once(link),
           f.type = "request" => f \notin Range(link)
    PROVE  Once(Append(link, f))
<1> DEFINE all == Append(link, f)
<1>1. /\ all \in Seq(S) /\ DOMAIN link = 1..Len(link) /\ Len(link) \in Nat
      /\ DOMAIN all = 1..Len(link) + 1 /\ all[Len(link) + 1] = f
      /\ \A i \in DOMAIN link : all[i] = link[i]
  OBVIOUS
<1> HIDE DEF all
<1>2. /\ \A i \in DOMAIN all : i \in DOMAIN link \/ i = Len(link) + 1
      /\ Len(link) + 1 \in DOMAIN all /\ \A i \in DOMAIN link : i \in DOMAIN all
      /\ \A i, j \in DOMAIN all : i < j => i \in DOMAIN link
  BY <1>1
<1>3. Once(all)
  BY <1>1, <1>2 DEF Once, Range
<1> QED
  BY <1>3 DEF all

-----------------------------------------------------------------------------
(* Bytes of chunks.                                                            *)

Sizes(s) == [n \in Chunks(s) |-> Size(s, n)]

\* A chunk has a natural number of bytes.
LEMMA SizeType ==
    ASSUME NEW s \in Streams, NEW n \in Chunks(s)
    PROVE  Size(s, n) \in Nat /\ n \in Nat
<1>1. Body[s] \in Seq(Nat) /\ n \in Nat /\ n + 1 \in 1..Len(Body[s])
  BY BodyAssumption DEF Chunks
<1> QED
  BY <1>1 DEF Size

\* The bytes of a list of chunks are its weight.
LEMMA BytesWeigh ==
    ASSUME NEW s \in Streams, NEW chunks \in Seq(Chunks(s))
    PROVE  Bytes(s, chunks) = Weigh(chunks, Sizes(s)) /\ Sizes(s) \in [Chunks(s) -> Nat]
<1>1. Sizes(s) \in [Chunks(s) -> Nat] /\ \A n \in Chunks(s) : Sizes(s)[n] = Size(s, n)
  BY SizeType DEF Sizes
<1>2. \A i \in DOMAIN chunks : chunks[i] \in Chunks(s)
  OBVIOUS
<1>3. [i \in DOMAIN chunks |-> Size(s, chunks[i])]
          = [i \in DOMAIN chunks |-> Sizes(s)[chunks[i]]]
  BY <1>1, <1>2
<1> QED
  BY <1>1, <1>3 DEF Bytes, Weigh

\* What the bytes of chunks are when they grow and when they are cut.
LEMMA BytesFacts ==
    ASSUME NEW s \in Streams, NEW chunks \in Seq(Chunks(s))
    PROVE  /\ Bytes(s, chunks) \in Nat
           /\ Bytes(s, <<>>) = 0
           /\ \A n \in Chunks(s) : Bytes(s, Append(chunks, n)) = Bytes(s, chunks) + Size(s, n)
           /\ \A k \in 0..Len(chunks) :
                  /\ SubSeq(chunks, 1, k) \in Seq(Chunks(s))
                  /\ SubSeq(chunks, k + 1, Len(chunks)) \in Seq(Chunks(s))
                  /\ Bytes(s, chunks) = Bytes(s, SubSeq(chunks, 1, k))
                                            + Bytes(s, SubSeq(chunks, k + 1, Len(chunks)))
<1>0. Sizes(s) \in [Chunks(s) -> Nat]
  BY BytesWeigh
<1>1. Bytes(s, chunks) \in Nat
  BY <1>0, BytesWeigh, WeighType
<1>2. Bytes(s, <<>>) = 0
  <2>1. <<>> \in Seq(Chunks(s)) /\ Range(<<>>) = {}
    BY DEF Range
  <2> QED
    BY <1>0, <2>1, BytesWeigh, Weightless
<1>3. ASSUME NEW n \in Chunks(s)
      PROVE  Bytes(s, Append(chunks, n)) = Bytes(s, chunks) + Size(s, n)
  <2>1. Append(chunks, n) \in Seq(Chunks(s)) /\ Sizes(s)[n] = Size(s, n)
    BY DEF Sizes
  <2> QED
    BY <1>0, <2>1, BytesWeigh, WeighAppended
<1>4. ASSUME NEW k \in 0..Len(chunks)
      PROVE  /\ SubSeq(chunks, 1, k) \in Seq(Chunks(s))
             /\ SubSeq(chunks, k + 1, Len(chunks)) \in Seq(Chunks(s))
             /\ Bytes(s, chunks) = Bytes(s, SubSeq(chunks, 1, k))
                                       + Bytes(s, SubSeq(chunks, k + 1, Len(chunks)))
  BY <1>0, BytesWeigh, WeighParts
<1> QED
  BY <1>1, <1>2, <1>3, <1>4

-----------------------------------------------------------------------------
(* Grants.                                                                     *)

\* g[i] is the first i of the sequences q joined.
Joins(g, q, k) == g[0] = <<>> /\ \A i \in 1..k : g[i] = g[i - 1] \o q[i]

\* Sequences can be joined one after the other.
LEMMA JoinedUp ==
    ASSUME NEW S, NEW n \in Nat, NEW q, \A i \in 1..n : q[i] \in Seq(S)
    PROVE  \E g \in [0..n -> Seq(S)] : Joins(g, q, n)
<1> DEFINE N == {k \in Nat : k <= n => \E g \in [0..k -> Seq(S)] : Joins(g, q, k)}
<1>1. 0 \in N
  <2> DEFINE g == [i \in 0..0 |-> <<>>]
  <2>1. g \in [0..0 -> Seq(S)] /\ Joins(g, q, 0)
    BY DEF Joins
  <2> HIDE DEF g
  <2> QED
    BY <2>1
<1>2. ASSUME NEW k \in Nat, k \in N PROVE k + 1 \in N
  <2> SUFFICES ASSUME k + 1 <= n PROVE \E g \in [0..k + 1 -> Seq(S)] : Joins(g, q, k + 1)
    OBVIOUS
  <2>1. PICK g \in [0..k -> Seq(S)] : Joins(g, q, k)
    BY <1>2
  <2>2. PICK last : last = g[k] \o q[k + 1]
    OBVIOUS
  <2>3. last \in Seq(S)
    <3>1. g[k] \in Seq(S) /\ q[k + 1] \in Seq(S)
      OBVIOUS
    <3> QED
      BY <2>2, <3>1
  <2>4. PICK h : h = [i \in 0..k + 1 |-> IF i = k + 1 THEN last ELSE g[i]]
    OBVIOUS
  <2>5. h \in [0..k + 1 -> Seq(S)]
    BY <2>3, <2>4
  <2>6. (\A i \in 0..k : h[i] = g[i]) /\ h[k + 1] = last
    BY <2>4
  <2>7. Joins(h, q, k + 1)
    <3>1. \A i \in 1..k + 1 : i = k + 1 \/ (i \in 1..k /\ i \in 0..k /\ i - 1 \in 0..k)
      OBVIOUS
    <3>2. (k + 1) - 1 = k /\ k \in 0..k /\ 0 \in 0..k
      OBVIOUS
    <3>3. h[0] = <<>>
      BY <2>1, <2>6, <3>2 DEF Joins
    <3>4. \A i \in 1..k + 1 : h[i] = h[i - 1] \o q[i]
      BY <2>1, <2>2, <2>6, <3>1, <3>2 DEF Joins
    <3> QED
      BY <3>3, <3>4 DEF Joins
  <2> QED
    BY <2>5, <2>7
<1> HIDE DEF N
<1>3. n \in N
  BY <1>1, <1>2, NaturalsFrom
<1> QED
  BY <1>3 DEF N

CreditFrame(s) == [type : {"stream.credit"}, id : {s}, bytes : Nat]
             \cup [type : {"channel.credit"}, bytes : Nat]

\* How much of its window a frame gives back to a stream.
Paid(s) == [f \in DownFrame |-> IF f.type = "stream.credit" /\ f.id = s THEN f.bytes ELSE 0]

\* The grants of one chunk.
LEMMA GrantOne ==
    ASSUME NEW s \in Streams, NEW n \in Chunks(s)
    PROVE  /\ CreditFrames(s, n) \in Seq(CreditFrame(s))
           /\ CreditFrames(s, n) \in Seq(DownFrame)
           /\ Paid(s) \in [DownFrame -> Nat]
           /\ Weigh(CreditFrames(s, n), Paid(s)) = Size(s, n)
<1> DEFINE a == [type |-> "stream.credit", id |-> s, bytes |-> Size(s, n)]
           b == [type |-> "channel.credit", bytes |-> Size(s, n)]
<1>1. Size(s, n) \in Nat
  BY SizeType
<1>2. /\ a \in CreditFrame(s) /\ b \in CreditFrame(s) /\ a \in DownFrame /\ b \in DownFrame
      /\ a.type = "stream.credit" /\ a.id = s /\ a.bytes = Size(s, n) /\ b.type = "channel.credit"
  BY <1>1 DEF CreditFrame, DownFrame
<1> HIDE DEF a, b
<1>3. Paid(s) \in [DownFrame -> Nat]
  <2>1. \A f \in DownFrame : (IF f.type = "stream.credit" /\ f.id = s THEN f.bytes ELSE 0) \in Nat
    BY DEF DownFrame
  <2> QED
    BY <2>1 DEF Paid
<1>4. Paid(s)[a] = Size(s, n) /\ Paid(s)[b] = 0
  BY <1>2 DEF Paid
<1>5. CreditFrames(s, n) = IF Size(s, n) = 0 THEN <<>> ELSE <<a, b>>
  BY DEF CreditFrames, a, b
<1>6. CASE Size(s, n) = 0
  <2>1. PICK none : none = <<>>
    OBVIOUS
  <2>2. none \in Seq(CreditFrame(s)) /\ none \in Seq(DownFrame) /\ Range(none) = {}
    BY <2>1 DEF Range
  <2>3. Weigh(none, Paid(s)) = 0
    BY <1>3, <2>2, Weightless
  <2> QED
    BY <1>3, <1>5, <1>6, <2>1, <2>2, <2>3
<1>7. CASE Size(s, n) # 0
  <2>1. PICK one, both : one = <<a>> /\ both = <<a, b>>
    OBVIOUS
  <2>2. /\ one \in Seq(DownFrame) /\ both = Append(one, b)
        /\ both \in Seq(CreditFrame(s)) /\ both \in Seq(DownFrame)
    BY <1>2, <2>1
  <2>3. Weigh(one, Paid(s)) = Size(s, n)
    BY <1>2, <1>3, <1>4, <2>1, WeighOne
  <2>4. Weigh(both, Paid(s)) = Weigh(one, Paid(s)) + Paid(s)[b]
    BY <1>2, <1>3, <2>2, WeighAppended
  <2> QED
    BY <1>1, <1>3, <1>4, <1>5, <1>7, <2>1, <2>2, <2>3, <2>4
<1> QED
  BY <1>6, <1>7

\* The grants of any chunks: credit of their stream only, as much as their bytes.
LEMMA GrantsFacts ==
    ASSUME NEW s \in Streams, NEW chunks \in Seq(Chunks(s))
    PROVE  /\ Grants(s, chunks) \in Seq(CreditFrame(s))
           /\ Grants(s, chunks) \in Seq(DownFrame)
           /\ Weigh(Grants(s, chunks), Paid(s)) = Bytes(s, chunks)
<1>1. PICK n : n = Len(chunks)
  OBVIOUS
<1>2. n \in Nat /\ \A i \in 1..n : chunks[i] \in Chunks(s)
  BY <1>1
<1>3. PICK q : q = [i \in 1..n |-> CreditFrames(s, chunks[i])]
  OBVIOUS
<1>4. \A i \in 1..n : /\ q[i] = CreditFrames(s, chunks[i])
                      /\ q[i] \in Seq(CreditFrame(s)) /\ q[i] \in Seq(DownFrame)
                      /\ Weigh(q[i], Paid(s)) = Size(s, chunks[i])
  BY <1>2, <1>3, GrantOne
<1>5. Paid(s) \in [DownFrame -> Nat]
  <2>1. \A f \in DownFrame : (IF f.type = "stream.credit" /\ f.id = s THEN f.bytes ELSE 0) \in Nat
    BY DEF DownFrame
  <2> QED
    BY <2>1 DEF Paid
<1> DEFINE Rec(g) == g = [m \in 0..Len(chunks) |->
                             IF m = 0 THEN <<>> ELSE g[m - 1] \o CreditFrames(s, chunks[m])]
           iter == CHOOSE g : Rec(g)
<1>6. Grants(s, chunks) = iter[n]
  BY <1>1 DEF Grants
<1>7. PICK k \in [0..n -> Seq(CreditFrame(s))] : Joins(k, q, n)
  BY <1>2, <1>4, JoinedUp
<1>8. Rec(k)
  <2>1. /\ k[0] = <<>>
        /\ \A m \in 1..n : k[m] = k[m - 1] \o CreditFrames(s, chunks[m])
    BY <1>4, <1>7 DEF Joins
  <2>2. \A m \in 0..n : k[m] = IF m = 0 THEN <<>> ELSE k[m - 1] \o CreditFrames(s, chunks[m])
    <3>1. \A m \in 0..n : m = 0 \/ m \in 1..n
      BY <1>2
    <3>2. \A m \in 1..n : m # 0
      BY <1>2
    <3> QED
      BY <2>1, <3>1, <3>2, Zenon
  <2>3. k = [m \in 0..n |-> IF m = 0 THEN <<>> ELSE k[m - 1] \o CreditFrames(s, chunks[m])]
    BY <1>7, <2>2, Zenon
  <2> QED
    BY <1>1, <2>3, Zenon
<1> HIDE DEF Rec
<1>9. Rec(iter)
  BY <1>8, Zenon
<1>10. PICK frames : frames = iter
  OBVIOUS
<1>11. Grants(s, chunks) = frames[n] /\ Rec(frames)
  BY <1>6, <1>9, <1>10
<1> HIDE DEF iter
<1> USE DEF Rec
<1>12. /\ frames[0] = <<>>
       /\ \A m \in 1..n : frames[m] = frames[m - 1] \o q[m]
  <2>1. frames = [m \in 0..n |-> IF m = 0 THEN <<>> ELSE frames[m - 1] \o CreditFrames(s, chunks[m])]
    BY <1>1, <1>11, Zenon
  <2>2. 0 \in 0..n /\ \A m \in 1..n : m \in 0..n /\ m # 0
    BY <1>2
  <2>3. frames[0] = <<>>
    BY <2>1, <2>2, Zenon
  <2>4. \A m \in 1..n : frames[m] = frames[m - 1] \o CreditFrames(s, chunks[m])
    <3> TAKE m \in 1..n
    <3>1. frames[m] = IF m = 0 THEN <<>> ELSE frames[m - 1] \o CreditFrames(s, chunks[m])
      BY <2>1, <2>2, Zenon
    <3> QED
      BY <2>2, <3>1, Zenon
  <2> QED
    BY <1>4, <2>3, <2>4, Zenon
<1> HIDE DEF Rec
<1> DEFINE Good(m) == /\ frames[m] \in Seq(CreditFrame(s))
                      /\ frames[m] \in Seq(DownFrame)
                      /\ Weigh(frames[m], Paid(s)) = Bytes(s, SubSeq(chunks, 1, m))
           N == {m \in Nat : m <= n => Good(m)}
<1>13. 0 \in N
  <2>1. PICK none : none = <<>>
    OBVIOUS
  <2>2. /\ none \in Seq(CreditFrame(s)) /\ none \in Seq(DownFrame) /\ Range(none) = {}
        /\ SubSeq(chunks, 1, 0) = none
    BY <2>1 DEF Range
  <2>3. Weigh(none, Paid(s)) = 0
    BY <1>5, <2>2, Weightless
  <2> QED
    BY <1>12, <2>1, <2>2, <2>3, BytesFacts
<1>14. ASSUME NEW m \in Nat, m \in N PROVE m + 1 \in N
  <2> SUFFICES ASSUME m + 1 <= n PROVE Good(m + 1)
    OBVIOUS
  <2>1. /\ frames[m] \in Seq(CreditFrame(s)) /\ frames[m] \in Seq(DownFrame)
        /\ Weigh(frames[m], Paid(s)) = Bytes(s, SubSeq(chunks, 1, m))
    BY <1>2, <1>14
  <2>2. m + 1 \in 1..n /\ (m + 1) - 1 = m /\ m \in 0..n
    BY <1>2
  <2>3. frames[m + 1] = frames[m] \o q[m + 1]
    BY <1>12, <2>2
  <2>4. PICK a, b : a = frames[m] /\ b = q[m + 1]
    OBVIOUS
  <2>5. /\ a \o b \in Seq(CreditFrame(s)) /\ a \o b \in Seq(DownFrame)
        /\ Weigh(a \o b, Paid(s)) = Weigh(a, Paid(s)) + Weigh(b, Paid(s))
    <3>1. /\ a \in Seq(CreditFrame(s)) /\ a \in Seq(DownFrame)
          /\ b \in Seq(CreditFrame(s)) /\ b \in Seq(DownFrame)
      BY <1>4, <2>1, <2>2, <2>4
    <3>2. a \o b \in Seq(CreditFrame(s)) /\ a \o b \in Seq(DownFrame)
      BY <3>1
    <3>3. Weigh(a \o b, Paid(s)) = Weigh(a, Paid(s)) + Weigh(b, Paid(s))
      BY <1>5, <3>1, WeighJoined
    <3> QED
      BY <3>2, <3>3
  <2>6. PICK first : first = SubSeq(chunks, 1, m)
    OBVIOUS
  <2>7. first \in Seq(Chunks(s)) /\ SubSeq(chunks, 1, m + 1) = Append(first, chunks[m + 1])
    BY <1>1, <2>2, <2>6
  <2>8. Bytes(s, Append(first, chunks[m + 1])) = Bytes(s, first) + Size(s, chunks[m + 1])
    BY <1>2, <2>2, <2>7, BytesFacts
  <2>9. Weigh(b, Paid(s)) = Size(s, chunks[m + 1])
    BY <1>4, <2>2, <2>4
  <2>10. Weigh(a \o b, Paid(s)) = Bytes(s, SubSeq(chunks, 1, m + 1))
    BY <2>1, <2>4, <2>5, <2>6, <2>7, <2>8, <2>9
  <2> QED
    BY <2>3, <2>4, <2>5, <2>10
<1> HIDE DEF N
<1>15. n \in N
  BY <1>2, <1>13, <1>14, NaturalsFrom
<1> USE DEF N
<1>16. Good(n)
  BY <1>2, <1>15
<1>17. SubSeq(chunks, 1, n) = chunks
  BY <1>1
<1> QED
  BY <1>17, <1>11, <1>16

-----------------------------------------------------------------------------
(* What all streams have pending.                                              *)

BytesOf(q) == [s \in Streams |-> Bytes(s, q[s])]

\* pendingTotal and its parts are natural numbers.
LEMMA TotalType ==
    ASSUME NEW q, Queues(q)
    PROVE  /\ BytesOf(q) \in [Streams -> Nat]
           /\ SumFunction(BytesOf(q)) = SumFunctionOnSet(BytesOf(q), Streams)
           /\ SumFunction(BytesOf(q)) \in Nat
           /\ \A s \in Streams : Bytes(s, q[s]) \in Nat /\ BytesOf(q)[s] = Bytes(s, q[s])
           /\ \A s \in Streams : Bytes(s, q[s]) <= SumFunction(BytesOf(q))
<1>1. \A s \in Streams : Bytes(s, q[s]) \in Nat
  BY BytesFacts DEF Queues
<1>2. /\ BytesOf(q) \in [Streams -> Nat] /\ DOMAIN BytesOf(q) = Streams
      /\ \A s \in Streams : BytesOf(q)[s] = Bytes(s, q[s])
  BY <1>1 DEF BytesOf
<1>3. SumFunction(BytesOf(q)) = SumFunctionOnSet(BytesOf(q), Streams)
  BY <1>2 DEF SumFunction
<1>4. /\ SumFunctionOnSet(BytesOf(q), Streams) \in Nat
      /\ \A s \in Streams : BytesOf(q)[s] <= SumFunctionOnSet(BytesOf(q), Streams)
  BY <1>2, StreamsAssumption, SumNatural
<1> QED
  BY <1>1, <1>2, <1>3, <1>4

\* One stream's queue changes.
LEMMA TotalChanged ==
    ASSUME NEW p, Queues(p), NEW q, Queues(q), NEW s \in Streams,
           \A t \in Streams : t # s => p[t] = q[t]
    PROVE  SumFunction(BytesOf(q)) = SumFunction(BytesOf(p)) - Bytes(s, p[s]) + Bytes(s, q[s])
<1>1. \A t \in Streams : BytesOf(p)[t] \in Int /\ BytesOf(q)[t] \in Int
  BY TotalType
<1>2. \A t \in Streams : t # s => BytesOf(p)[t] = BytesOf(q)[t]
  BY DEF BytesOf
<1>3. SumFunctionOnSet(BytesOf(q), Streams)
          = SumFunctionOnSet(BytesOf(p), Streams) - BytesOf(p)[s] + BytesOf(q)[s]
  BY <1>1, <1>2, StreamsAssumption, SumChanged
<1> QED
  BY <1>3, TotalType

\* The queues of S are dropped.
LEMMA TotalDropped ==
    ASSUME NEW p, Queues(p), NEW S \in SUBSET Streams,
           NEW q, q = [s \in Streams |-> IF s \in S THEN <<>> ELSE p[s]]
    PROVE  /\ Queues(q)
           /\ SumFunction(BytesOf(q)) = SumFunction(BytesOf(p)) - SumFunctionOnSet(BytesOf(p), S)
           /\ SumFunctionOnSet(BytesOf(p), S) \in Nat
<1>1. Queues(q)
  BY DEF Queues
<1>2. \A s \in Streams : BytesOf(p)[s] \in Int /\ BytesOf(p)[s] \in Nat
  BY TotalType
<1>3. \A s \in Streams : BytesOf(q)[s] = IF s \in S THEN 0 ELSE BytesOf(p)[s]
  <2> TAKE s \in Streams
  <2>1. p[s] \in Seq(Chunks(s)) /\ Bytes(s, <<>>) = 0
    BY BytesFacts DEF Queues
  <2> QED
    BY <2>1 DEF BytesOf
<1>4. SumFunctionOnSet(BytesOf(q), Streams)
          = SumFunctionOnSet(BytesOf(p), Streams) - SumFunctionOnSet(BytesOf(p), S)
  BY <1>2, <1>3, StreamsAssumption, SumCleared
<1>5. SumFunctionOnSet(BytesOf(p), S) \in Nat
  <2>1. IsFiniteSet(S) /\ \A s \in S : BytesOf(p)[s] \in Nat
    BY <1>2, StreamsAssumption, FS_Subset
  <2> QED
    BY <2>1, SumNatural
<1> QED
  BY <1>1, <1>4, <1>5, TotalType

-----------------------------------------------------------------------------
(* Types, wake-ups and the pending limit.                                      *)

\* Some streams are cleaned up.
LEMMA Cleaned ==
    ASSUME ServerInv, NEW S \in SUBSET Streams, CleanUpStreams(S)
    PROVE  /\ phase' \in [Streams -> Phase] /\ inStream' \in [Streams -> Nat]
           /\ pending' \in [Streams -> Seq(Nat)] /\ Queues(pending')
           /\ pendingTotal' \in Nat /\ PendingAccounted'
<1>1. /\ phase \in [Streams -> Phase] /\ inStream \in [Streams -> Nat]
      /\ pending \in [Streams -> Seq(Nat)] /\ Queues(pending) /\ pendingTotal \in Nat
      /\ pendingTotal = SumFunction(BytesOf(pending)) /\ pendingTotal <= PendingLimit
      /\ PendingLimit \in Nat
  BY LimitsAssumption DEF ServerInv, PendingAccounted, PendingBytes, BytesOf
<1>2. phase' \in [Streams -> Phase] /\ inStream' \in [Streams -> Nat]
  BY <1>1 DEF CleanUpStreams, Phase
<1>3. pending' = [s \in Streams |-> IF s \in S THEN <<>> ELSE pending[s]]
  BY DEF CleanUpStreams
<1>4. pending' \in [Streams -> Seq(Nat)]
  <2>1. \A s \in Streams : (IF s \in S THEN <<>> ELSE pending[s]) \in Seq(Nat)
    BY <1>1
  <2> QED
    BY <1>3, <2>1
<1>5. /\ Queues(pending')
      /\ SumFunction(BytesOf(pending'))
             = SumFunction(BytesOf(pending)) - SumFunctionOnSet(BytesOf(pending), S)
      /\ SumFunctionOnSet(BytesOf(pending), S) \in Nat
  BY <1>1, <1>3, TotalDropped
<1>6. SumFunction(BytesOf(pending')) \in Nat
  BY <1>5, TotalType
<1>7. pendingTotal' = SumFunction(BytesOf(pending'))
  <2>1. PendingBytes = BytesOf(pending)
    BY DEF PendingBytes, BytesOf
  <2>2. pendingTotal' = LET total == pendingTotal - SumFunctionOnSet(BytesOf(pending), S)
                        IN IF total < 0 THEN 0 ELSE total
    BY <2>1 DEF CleanUpStreams, TotalWithout
  <2> QED
    BY <1>1, <1>5, <1>6, <2>2
<1>8. PendingAccounted'
  <2>1. pendingTotal' <= PendingLimit
    BY <1>1, <1>5, <1>6, <1>7
  <2> QED
    BY <1>7, <2>1 DEF PendingAccounted, PendingBytes, BytesOf
<1> QED
  BY <1>2, <1>4, <1>5, <1>6, <1>7, <1>8

\* The public body pulls.
LEMMA Flushed ==
    ASSUME ServerInv, NEW s \in Streams, NEW left \in 0..HighWater,
           Flush(s, left)
    PROVE  /\ accepted' \in [Streams -> Seq(Nat)] /\ unread' \in [Streams -> 0..HighWater]
           /\ down' \in Seq(DownFrame)
           /\ inStream' \in [Streams -> Nat] /\ inChannel' \in Nat
           /\ pending' \in [Streams -> Seq(Nat)] /\ Queues(pending')
           /\ pendingTotal' \in Nat /\ PendingAccounted'
<1> DEFINE n == Pulled(s, HighWater - left)
           chunks == SubSeq(pending[s], 1, n)
           rest == SubSeq(pending[s], n + 1, Len(pending[s]))
<1>1. /\ inStream \in [Streams -> Nat] /\ inChannel \in Nat
      /\ accepted \in [Streams -> Seq(Nat)] /\ unread \in [Streams -> 0..HighWater]
      /\ pending \in [Streams -> Seq(Nat)] /\ Queues(pending) /\ pendingTotal \in Nat
      /\ pendingTotal = SumFunction(BytesOf(pending)) /\ pendingTotal <= PendingLimit
      /\ PendingLimit \in Nat /\ HighWater \in Nat /\ down \in Seq(DownFrame)
  BY LimitsAssumption DEF ServerInv, PendingAccounted, PendingBytes, BytesOf
<1>2. pending[s] \in Seq(Chunks(s)) /\ Len(pending[s]) \in Nat
  BY <1>1 DEF Queues
<1>3. n \in 0..Len(pending[s]) /\ left + n \in 0..HighWater
  BY <1>1, <1>2 DEF Pulled
<1>4. /\ accepted' = [accepted EXCEPT ![s] = @ \o chunks]
      /\ down' = down \o Grants(s, chunks)
      /\ unread' = [unread EXCEPT ![s] = left + n]
      /\ pending' = [pending EXCEPT ![s] = rest]
      /\ pendingTotal' = pendingTotal - Bytes(s, chunks)
      /\ inStream' = [inStream EXCEPT ![s] = @ + Bytes(s, chunks)]
      /\ inChannel' = inChannel + Bytes(s, chunks)
  BY DEF Flush, Accept
<1> HIDE DEF n
<1>5. /\ chunks \in Seq(Chunks(s)) /\ rest \in Seq(Chunks(s))
      /\ Bytes(s, pending[s]) = Bytes(s, chunks) + Bytes(s, rest)
  BY <1>2, <1>3, BytesFacts
<1> HIDE DEF chunks, rest
<1>6. Bytes(s, chunks) \in Nat /\ Bytes(s, rest) \in Nat
  BY <1>5, BytesFacts
<1>7. Grants(s, chunks) \in Seq(DownFrame)
  BY <1>5, GrantsFacts
<1>8. chunks \in Seq(Nat) /\ rest \in Seq(Nat)
  BY <1>5 DEF Chunks
<1>9. /\ accepted' \in [Streams -> Seq(Nat)] /\ unread' \in [Streams -> 0..HighWater]
      /\ inStream' \in [Streams -> Nat] /\ inChannel' \in Nat
      /\ pending' \in [Streams -> Seq(Nat)]
  <2>1. accepted[s] \o chunks \in Seq(Nat)
    BY <1>1, <1>8
  <2>2. accepted' \in [Streams -> Seq(Nat)]
    BY <1>1, <1>4, <2>1
  <2>3. unread' \in [Streams -> 0..HighWater]
    BY <1>1, <1>3, <1>4
  <2>4. inStream' \in [Streams -> Nat] /\ inChannel' \in Nat
    <3>1. PICK b : b = Bytes(s, chunks)
      OBVIOUS
    <3>2. /\ b \in Nat /\ inStream' = [inStream EXCEPT ![s] = @ + b]
          /\ inChannel' = inChannel + b
      BY <1>4, <1>6, <3>1
    <3>3. inStream[s] + b \in Nat /\ inChannel + b \in Nat
      BY <1>1, <3>2
    <3> QED
      BY <1>1, <3>2, <3>3
  <2>5. pending' \in [Streams -> Seq(Nat)]
    BY <1>1, <1>4, <1>8
  <2> QED
    BY <2>2, <2>3, <2>4, <2>5
<1>10. down' \in Seq(DownFrame)
  BY <1>1, <1>4, <1>7
<1>11. /\ DOMAIN pending' = Streams /\ pending'[s] = rest
       /\ \A t \in Streams : t # s => pending[t] = pending'[t]
  BY <1>1, <1>4
<1>12. Queues(pending')
  BY <1>1, <1>5, <1>11 DEF Queues
<1>13. SumFunction(BytesOf(pending'))
           = SumFunction(BytesOf(pending)) - Bytes(s, pending[s]) + Bytes(s, pending'[s])
  BY <1>1, <1>11, <1>12, TotalChanged
<1>14. SumFunction(BytesOf(pending')) \in Nat /\ SumFunction(BytesOf(pending)) \in Nat
  BY <1>1, <1>12, TotalType
<1>15. /\ pendingTotal' = SumFunction(BytesOf(pending')) /\ pendingTotal' \in Nat
       /\ pendingTotal' <= PendingLimit
  <2>1. PICK a, b, c, d : /\ a = SumFunction(BytesOf(pending)) /\ b = Bytes(s, chunks)
                          /\ c = Bytes(s, rest) /\ d = SumFunction(BytesOf(pending'))
    OBVIOUS
  <2>2. d = a - (b + c) + c
    BY <1>5, <1>11, <1>13, <2>1
  <2>3. /\ a \in Nat /\ b \in Nat /\ c \in Nat /\ d \in Nat /\ PendingLimit \in Nat
        /\ pendingTotal' = a - b /\ a <= PendingLimit
    BY <1>1, <1>4, <1>6, <1>14, <2>1
  <2> QED
    BY <2>1, <2>2, <2>3
<1>16. PendingAccounted'
  BY <1>15 DEF PendingAccounted, PendingBytes, BytesOf
<1> QED
  BY <1>9, <1>10, <1>12, <1>15, <1>16

\* abortStream and cleanupStream keep the types of the server and its pending total.
LEMMA Aborted ==
    ASSUME ServerInv, NEW S \in SUBSET Streams, NEW how \in Outcome, AbortStreams(S, how)
    PROVE  /\ phase' \in [Streams -> Phase] /\ inStream' \in [Streams -> Nat]
           /\ pending' \in [Streams -> Seq(Nat)] /\ Queues(pending')
           /\ pendingTotal' \in Nat /\ PendingAccounted'
           /\ outcome' \in [Streams -> Outcome] /\ unread' \in [Streams -> 0..HighWater]
<1>1. CleanUpStreams(S)
  BY DEF AbortStreams
<1>2. outcome \in [Streams -> Outcome] /\ unread \in [Streams -> 0..HighWater] /\ 0 \in 0..HighWater
  BY LimitsAssumption DEF ServerInv
<1>3. outcome' \in [Streams -> Outcome] /\ unread' \in [Streams -> 0..HighWater]
  BY <1>2 DEF AbortStreams
<1> QED
  BY <1>1, <1>3, Cleaned

\* The steps of the server, except that of a data frame.
ServerStep == \/ IgnoreFrame
              \/ \E s \in Streams :
                   \/ PublicRequest(s) \/ Read(s) \/ PublicAbort(s) \/ Timeout(s)
                   \/ ReceiveStart(s) \/ ReceiveBodyless(s) \/ RefuseStart(s)
                   \/ ReceiveData(s) \/ ReceiveEnd(s) \/ ReceiveAbort(s)

\* What handleClientMessage reads is a frame of the client.
LEMMA FrameUp ==
    ASSUME up \in Seq(UpFrame), up # <<>>
    PROVE  /\ Head(up) \in UpFrame /\ Tail(up) \in Seq(UpFrame) /\ Head(up).id \in Streams
           /\ Head(up).type = "data" => Head(up).seq \in Chunks(Head(up).id)
<1>1. Head(up) \in UpFrame /\ Tail(up) \in Seq(UpFrame)
  OBVIOUS
<1> QED
  BY <1>1 DEF UpFrame, DataFrame, Chunks

\* handleResponseData keeps the types of the server and its pending total.
LEMMA DataSafe ==
    ASSUME ServerInv, up \in Seq(UpFrame), NEW s \in Streams, ReceiveData(s)
    PROVE  ServerInv'
<1> DEFINE n == Head(up).seq
           b == Size(s, n)
<1>1. n \in Chunks(s) /\ n \in Nat /\ b \in Nat
  BY FrameUp, SizeType DEF ReceiveData, ToServer
<1>2. /\ next \in [Streams -> Nat] /\ inStream \in [Streams -> Nat] /\ inChannel \in Nat
      /\ pending \in [Streams -> Seq(Nat)] /\ Queues(pending) /\ pendingTotal \in Nat
      /\ accepted \in [Streams -> Seq(Nat)] /\ unread \in [Streams -> 0..HighWater]
      /\ down \in Seq(DownFrame) /\ HighWater \in Nat
      /\ next[s] \in Nat /\ inStream[s] \in Nat /\ unread[s] \in 0..HighWater
  BY LimitsAssumption DEF ServerInv
<1> HIDE DEF n, b
<1>3. CASE Fail("credit.violation") \/ Fail("protocol.error")
  <2>1. {t \in Streams : Open(t)} \in SUBSET Streams /\ "error" \in Outcome
    BY DEF Outcome
  <2>2. /\ AbortStreams({t \in Streams : Open(t)}, "error")
        /\ fault' \in {"credit.violation", "protocol.error"}
        /\ UNCHANGED <<next, inChannel, accepted, down>>
    BY <1>3 DEF Fail
  <2> QED
    BY <2>1, <2>2, Aborted DEF ServerInv
<1>4. CASE DeliverChunk(s) /\ UNCHANGED fault
  <2>1. PICK one : one = <<n>>
    OBVIOUS
  <2>2. one \in Seq(Chunks(s)) /\ one \in Seq(Nat)
    BY <1>1, <2>1
  <2>3. Grants(s, one) \in Seq(DownFrame)
    BY <2>2, GrantsFacts
  <2>4. /\ accepted' = [accepted EXCEPT ![s] = @ \o one] /\ down' = down \o Grants(s, one)
        /\ unread' = [unread EXCEPT ![s] = @ + 1] /\ next' = [next EXCEPT ![s] = @ + 1]
        /\ Room(s) > 0
        /\ UNCHANGED <<phase, pending, pendingTotal, inStream, inChannel, outcome, fault>>
    BY <1>4, <2>1 DEF DeliverChunk, Accept, n
  <2>5. accepted' \in [Streams -> Seq(Nat)]
    <3>1. accepted[s] \o one \in Seq(Nat)
      BY <1>2, <2>2
    <3> QED
      BY <1>2, <2>4, <3>1
  <2>6. unread' \in [Streams -> 0..HighWater] /\ next' \in [Streams -> Nat]
    <3>0. unread[s] < HighWater
      <4>1. PICK u : u = unread[s]
        OBVIOUS
      <4>2. u \in 0..HighWater /\ (IF phase[s] = "open" THEN HighWater - u ELSE 0) > 0
        BY <1>2, <2>4, <4>1 DEF Room
      <4>3. HighWater - u > 0
        BY <4>2
      <4> QED
        BY <1>2, <4>1, <4>2, <4>3
    <3>1. unread[s] + 1 \in 0..HighWater /\ next[s] + 1 \in Nat
      BY <1>2, <3>0
    <3> QED
      BY <1>2, <2>4, <3>1
  <2>7. down' \in Seq(DownFrame)
    BY <1>2, <2>3, <2>4
  <2>8. PendingAccounted'
    BY <2>4 DEF ServerInv, PendingAccounted, PendingBytes
  <2> QED
    BY <2>4, <2>5, <2>6, <2>7, <2>8 DEF ServerInv
<1>5. CASE BufferChunk(s) /\ HasInbound(s, b) /\ UNCHANGED fault
  <2>1. /\ pendingTotal + b <= PendingLimit /\ pendingTotal' = pendingTotal + b
        /\ pending' = [pending EXCEPT ![s] = Append(@, n)]
        /\ inStream' = [inStream EXCEPT ![s] = @ - b] /\ inChannel' = inChannel - b
        /\ next' = [next EXCEPT ![s] = @ + 1]
        /\ UNCHANGED <<phase, down, accepted, unread, outcome, fault>>
    BY <1>5 DEF BufferChunk, Consume, response, n, b
  <2>2. inStream[s] - b \in Nat /\ inChannel - b \in Nat /\ next[s] + 1 \in Nat
    <3>1. inStream[s] >= b /\ inChannel >= b
      BY <1>5 DEF HasInbound
    <3>2. PICK i, c, m : i = inStream[s] /\ c = inChannel /\ m = next[s]
      OBVIOUS
    <3>3. i \in Nat /\ c \in Nat /\ m \in Nat /\ i >= b /\ c >= b
      BY <1>2, <3>1, <3>2
    <3>4. i - b \in Nat /\ c - b \in Nat /\ m + 1 \in Nat
      BY <1>1, <3>3
    <3> QED
      BY <3>2, <3>4
  <2>3. /\ inStream' \in [Streams -> Nat] /\ inChannel' \in Nat /\ next' \in [Streams -> Nat]
    BY <1>2, <2>1, <2>2
  <2>4. PICK queue : queue = Append(pending[s], n)
    OBVIOUS
  <2>5. pending[s] \in Seq(Chunks(s)) /\ pending[s] \in Seq(Nat)
    BY <1>2 DEF Queues
  <2>6. /\ queue \in Seq(Chunks(s)) /\ queue \in Seq(Nat)
        /\ Bytes(s, queue) = Bytes(s, pending[s]) + b /\ Bytes(s, pending[s]) \in Nat
    BY <1>1, <2>4, <2>5, BytesFacts DEF b
  <2>7. /\ pending' \in [Streams -> Seq(Nat)] /\ pending'[s] = queue
        /\ \A t \in Streams : t # s => pending[t] = pending'[t]
    BY <1>2, <2>1, <2>4, <2>6
  <2>8. Queues(pending')
    BY <1>2, <2>6, <2>7 DEF Queues
  <2>9. SumFunction(BytesOf(pending'))
            = SumFunction(BytesOf(pending)) - Bytes(s, pending[s]) + Bytes(s, queue)
    BY <1>2, <2>7, <2>8, TotalChanged
  <2>10. /\ pendingTotal = SumFunction(BytesOf(pending)) /\ pendingTotal \in Nat
    BY DEF ServerInv, PendingAccounted, PendingBytes, BytesOf
  <2>11. pendingTotal' = SumFunction(BytesOf(pending'))
    <3>1. PICK c, d, e : c = Bytes(s, pending[s]) /\ d = SumFunction(BytesOf(pending'))
                         /\ e = Bytes(s, queue)
      OBVIOUS
    <3>2. d = pendingTotal - c + e /\ e = c + b /\ c \in Nat
      BY <2>6, <2>9, <2>10, <3>1
    <3> QED
      BY <1>1, <2>1, <2>10, <3>1, <3>2
  <2>12. PendingAccounted' /\ pendingTotal' \in Nat
    BY <1>1, <2>1, <2>10, <2>11 DEF PendingAccounted, PendingBytes, BytesOf
  <2> QED
    BY <2>1, <2>3, <2>7, <2>8, <2>12 DEF ServerInv
<1>6. CASE RefuseChunk(s) /\ HasInbound(s, b) /\ UNCHANGED fault
  <2>1. /\ inChannel' = inChannel - b /\ next' = [next EXCEPT ![s] = @ + 1]
        /\ AbortStreams({s}, "error") /\ "error" \in Outcome /\ {s} \in SUBSET Streams
        /\ UNCHANGED <<down, accepted, fault>>
    BY <1>6 DEF RefuseChunk, n, b, Outcome
  <2>2. inChannel' \in Nat /\ next' \in [Streams -> Nat]
    BY <1>1, <1>2, <1>6, <2>1 DEF HasInbound
  <2> QED
    BY <2>1, <2>2, Aborted DEF ServerInv
<1> QED
  BY <1>3, <1>4, <1>5, <1>6 DEF ReceiveData, n, b

\* ... and so does every step of the server, which leaves the client alone.
LEMMA ServerSafe ==
    ASSUME ServerInv, up \in Seq(UpFrame), ServerStep
    PROVE  ServerInv' /\ up' \in Seq(UpFrame) /\ UNCHANGED client
<1>1. /\ phase \in [Streams -> Phase] /\ next \in [Streams -> Nat]
      /\ inStream \in [Streams -> Nat] /\ unread \in [Streams -> 0..HighWater]
      /\ outcome \in [Streams -> Outcome] /\ down \in Seq(DownFrame)
      /\ HighWater \in Nat /\ HighWater # 0 /\ StreamCredit \in Nat
      /\ {"ended", "error", "cancelled"} \subseteq Outcome
      /\ {"waiting", "open"} \subseteq Phase
  BY LimitsAssumption DEF ServerInv, Outcome, Phase
<1>2. CASE IgnoreFrame
  BY <1>2, FrameUp DEF IgnoreFrame, server, response, ServerInv, PendingAccounted, PendingBytes
<1>3. ASSUME NEW s \in Streams, PublicRequest(s)
      PROVE  ServerInv' /\ up' \in Seq(UpFrame) /\ UNCHANGED client
  <2>1. PICK f : f = [type |-> "request", id |-> s]
    OBVIOUS
  <2>2. f \in DownFrame
    BY <2>1 DEF DownFrame
  <2>3. /\ phase' = [phase EXCEPT ![s] = "waiting"]
        /\ inStream' = [inStream EXCEPT ![s] = StreamCredit]
        /\ down' = Append(down, f)
        /\ UNCHANGED <<client, up, next, pending, pendingTotal, inChannel, accepted, unread,
                       outcome, fault>>
    BY <1>3, <2>1 DEF PublicRequest, response
  <2>4. down' \in Seq(DownFrame)
    BY <1>1, <2>2, <2>3
  <2>5. phase' \in [Streams -> Phase] /\ inStream' \in [Streams -> Nat]
    BY <1>1, <2>3
  <2>6. PendingAccounted'
    BY <2>3 DEF ServerInv, PendingAccounted, PendingBytes
  <2> QED
    BY <2>3, <2>4, <2>5, <2>6 DEF ServerInv
<1>4. ASSUME NEW s \in Streams, Read(s)
      PROVE  ServerInv' /\ up' \in Seq(UpFrame) /\ UNCHANGED client
  <2>1. unread[s] > 0 /\ UNCHANGED <<client, up, phase, next, outcome, fault>>
    BY <1>4 DEF Read
  <2>2. unread[s] - 1 \in 0..HighWater
    BY <1>1, <2>1
  <2>3. CASE Flush(s, unread[s] - 1)
    BY <2>1, <2>2, <2>3, Flushed DEF ServerInv
  <2>4. CASE /\ unread' = [unread EXCEPT ![s] = @ - 1]
             /\ UNCHANGED <<accepted, down, pending, pendingTotal, inStream, inChannel>>
    <3>1. unread' \in [Streams -> 0..HighWater]
      BY <1>1, <2>2, <2>4
    <3>2. PendingAccounted'
      BY <2>4 DEF ServerInv, PendingAccounted, PendingBytes
    <3> QED
      BY <2>1, <2>4, <3>1, <3>2 DEF ServerInv
  <2> QED
    BY <1>4, <2>3, <2>4 DEF Read
<1>5. ASSUME NEW s \in Streams, PublicAbort(s)
      PROVE  ServerInv' /\ up' \in Seq(UpFrame) /\ UNCHANGED client
  <2>1. PICK f : f = [type |-> "request.abort", id |-> s]
    OBVIOUS
  <2>2. /\ AbortStreams({s}, "cancelled") /\ {s} \in SUBSET Streams
        /\ down' = Append(down, f)
        /\ UNCHANGED <<client, up, next, inChannel, accepted, fault>>
    BY <1>5, <2>1 DEF PublicAbort
  <2>3. f \in DownFrame
    BY <2>1 DEF DownFrame
  <2>4. down' \in Seq(DownFrame)
    BY <1>1, <2>2, <2>3
  <2> QED
    BY <1>1, <2>2, <2>4, Aborted DEF ServerInv
<1>6. ASSUME NEW s \in Streams, Timeout(s) \/ RefuseStart(s) \/ ReceiveAbort(s)
      PROVE  ServerInv' /\ up' \in Seq(UpFrame) /\ UNCHANGED client
  <2>1. /\ AbortStreams({s}, "error") /\ {s} \in SUBSET Streams
        /\ UNCHANGED <<client, down, next, inChannel, accepted, fault>>
    BY <1>6 DEF Timeout, RefuseStart, ReceiveAbort
  <2>2. up' = up \/ (up # <<>> /\ up' = Tail(up))
    BY <1>6 DEF Timeout, RefuseStart, ReceiveAbort, ToServer
  <2> QED
    BY <1>1, <2>1, <2>2, FrameUp, Aborted DEF ServerInv
<1>7. ASSUME NEW s \in Streams, ReceiveStart(s)
      PROVE  ServerInv' /\ up' \in Seq(UpFrame) /\ UNCHANGED client
  <2>1. /\ phase' = [phase EXCEPT ![s] = "open"] /\ Flush(s, 0) /\ 0 \in 0..HighWater
        /\ up # <<>> /\ up' = Tail(up)
        /\ UNCHANGED <<client, next, outcome, fault>>
    BY <1>1, <1>7 DEF ReceiveStart, ToServer
  <2>2. phase' \in [Streams -> Phase]
    BY <1>1, <2>1
  <2> QED
    BY <2>1, <2>2, FrameUp, Flushed DEF ServerInv
<1>8. ASSUME NEW s \in Streams, CleanUpStreams({s}), outcome' = [outcome EXCEPT ![s] = "ended"],
             up # <<>>, up' = Tail(up),
             UNCHANGED <<client, down, next, inChannel, accepted, unread, fault>>
      PROVE  ServerInv' /\ up' \in Seq(UpFrame) /\ UNCHANGED client
  <2>1. {s} \in SUBSET Streams /\ outcome' \in [Streams -> Outcome]
    BY <1>1, <1>8
  <2> QED
    BY <1>8, <2>1, FrameUp, Cleaned DEF ServerInv
<1>9. ASSUME NEW s \in Streams, ReceiveBodyless(s)
      PROVE  ServerInv' /\ up' \in Seq(UpFrame) /\ UNCHANGED client
  BY <1>8, <1>9 DEF ReceiveBodyless, ToServer
<1>10. ASSUME NEW s \in Streams, ReceiveEnd(s)
       PROVE  ServerInv' /\ up' \in Seq(UpFrame) /\ UNCHANGED client
  <2>1. /\ up # <<>> /\ up' = Tail(up) /\ UNCHANGED client
        /\ Fail("protocol.error") \/ FinishResponse(s)
    BY <1>10 DEF ReceiveEnd, ToServer
  <2>2. CASE FinishResponse(s)
    BY <1>8, <2>1, <2>2 DEF FinishResponse
  <2>3. CASE Fail("protocol.error")
    <3>1. {t \in Streams : Open(t)} \in SUBSET Streams
      OBVIOUS
    <3>2. /\ AbortStreams({t \in Streams : Open(t)}, "error") /\ fault' = "protocol.error"
          /\ UNCHANGED <<next, inChannel, accepted, down>>
      BY <2>3 DEF Fail
    <3> QED
      BY <1>1, <2>1, <3>1, <3>2, FrameUp, Aborted DEF ServerInv
  <2> QED
    BY <2>1, <2>2, <2>3
<1>11. ASSUME NEW s \in Streams, ReceiveData(s)
       PROVE  ServerInv' /\ up' \in Seq(UpFrame) /\ UNCHANGED client
  <2>1. up # <<>> /\ up' = Tail(up) /\ UNCHANGED client
    BY <1>11 DEF ReceiveData, ToServer
  <2> QED
    BY <1>11, <2>1, FrameUp, DataSafe
<1> QED
  BY <1>2, <1>3, <1>4, <1>5, <1>6, <1>7, <1>9, <1>10, <1>11 DEF ServerStep, IgnoreFrame

\* The steps of the client.
ClientStep == \/ ClientReceives
              \/ \E s \in Streams : Coroutine(s) \/ OriginFails(s)

\* A coroutine leaves the stream, whatever it has sent.
LEMMA Left ==
    ASSUME ClientInv, NEW s \in Streams, NEW place \in Place \ {"waiting", "woken", "cleared"},
           CleanUp(s, place), outChannel' = outChannel,
           sent' \in [Streams -> Nat], sent'[s] <= Len(Body[s]),
           \A t \in Streams : t # s => sent'[t] = sent[t]
    PROVE  /\ pc' \in [Streams -> Place] /\ live' \subseteq Streams
           /\ outStream' \in [Streams -> Nat] /\ SendInv' /\ NoLostWakeup'
<1>1. /\ pc \in [Streams -> Place] /\ live \subseteq Streams /\ outStream \in [Streams -> Nat]
      /\ SendInv /\ NoLostWakeup /\ "woken" \in Place
  BY DEF ClientInv, Place
<1>2. CASE s \in live
  <2>1. /\ live' = live \ {s} /\ outStream' = [outStream EXCEPT ![s] = 0]
        /\ pc' = [Woken EXCEPT ![s] = place]
    BY <1>2 DEF CleanUp, GoAndWake
  <2>2. /\ pc' \in [Streams -> Place] /\ pc'[s] = place
        /\ \A t \in Streams : t # s => pc'[t] = IF pc[t] = "waiting" THEN "woken" ELSE pc[t]
    BY <1>1, <2>1 DEF Woken
  <2>3. live' \subseteq Streams /\ outStream' \in [Streams -> Nat]
    BY <1>1, <2>1
  <2>4. SendInv' /\ NoLostWakeup'
    BY <1>1, <2>2 DEF SendInv, NoLostWakeup
  <2> QED
    BY <2>2, <2>3, <2>4
<1>3. CASE s \notin live
  <2>1. pc' = [pc EXCEPT ![s] = place] /\ live' = live /\ outStream' = outStream
    BY <1>3 DEF CleanUp, Go
  <2>2. /\ pc' \in [Streams -> Place] /\ pc'[s] = place
        /\ \A t \in Streams : t # s => pc'[t] = pc[t]
    BY <1>1, <2>1
  <2>3. SendInv'
    BY <1>1, <2>2 DEF SendInv
  <2>4. NoLostWakeup'
    BY <1>1, <2>1, <2>2 DEF NoLostWakeup, HasOutbound
  <2> QED
    BY <1>1, <2>1, <2>2, <2>3, <2>4
<1> QED
  BY <1>2, <1>3

\* A coroutine goes on without touching its stream.
LEMMA Moved ==
    ASSUME ClientInv, NEW s \in Streams, NEW place \in Place, Go(s, place),
           place \in {"woken", "cleared", "waiting"} => sent[s] < Len(Body[s]),
           place = "waiting" => s \in live /\ ~HasOutbound(s),
           UNCHANGED <<live, sent, outStream, outChannel>>
    PROVE  pc' \in [Streams -> Place] /\ SendInv' /\ NoLostWakeup'
<1>1. pc \in [Streams -> Place] /\ SendInv /\ NoLostWakeup
  BY DEF ClientInv
<1>2. /\ pc' \in [Streams -> Place] /\ pc'[s] = place
      /\ \A t \in Streams : t # s => pc'[t] = pc[t]
  BY <1>1 DEF Go
<1>3. SendInv'
  BY <1>1, <1>2 DEF SendInv
<1>4. NoLostWakeup'
  BY <1>1, <1>2 DEF NoLostWakeup, HasOutbound
<1> QED
  BY <1>2, <1>3, <1>4

\* Everybody asleep looks again.
LEMMA AllWoken ==
    ASSUME ClientInv, pc' = Woken, UNCHANGED sent
    PROVE  pc' \in [Streams -> Place] /\ SendInv' /\ NoLostWakeup'
<1>1. pc \in [Streams -> Place] /\ SendInv /\ "woken" \in Place
  BY DEF ClientInv, Place
<1>2. /\ pc' \in [Streams -> Place]
      /\ \A t \in Streams : pc'[t] = IF pc[t] = "waiting" THEN "woken" ELSE pc[t]
  BY <1>1 DEF Woken
<1> QED
  BY <1>1, <1>2 DEF SendInv, NoLostWakeup

\* sendDataChunk keeps the types of the client, and no coroutine forgotten.
LEMMA DataSent ==
    ASSUME ClientInv, NEW s \in Streams, SendData(s)
    PROVE  ClientInv' /\ UNCHANGED <<down, server, response, fault>>
<1>1. /\ pc \in [Streams -> Place] /\ live \subseteq Streams /\ sent \in [Streams -> Nat]
      /\ outStream \in [Streams -> Nat] /\ outChannel \in Nat /\ up \in Seq(UpFrame)
      /\ SendInv /\ NoLostWakeup /\ sent[s] \in Nat /\ "reading" \in Place
      /\ Body[s] \in Seq(Nat) /\ Len(Body[s]) \in Nat
  BY BodyAssumption DEF ClientInv, Place
<1>2. sent[s] < Len(Body[s])
  BY <1>1 DEF SendData, SendInv
<1>3. sent[s] \in Chunks(s)
  BY <1>1, <1>2 DEF Chunks
<1>4. PICK f : f = [type |-> "data", id |-> s, seq |-> sent[s]]
  OBVIOUS
<1>5. f \in UpFrame
  BY <1>1, <1>2, <1>4 DEF UpFrame, DataFrame
<1>6. up' \in Seq(UpFrame)
  BY <1>1, <1>4, <1>5 DEF SendData
<1>7. /\ sent' \in [Streams -> Nat] /\ sent'[s] = sent[s] + 1 /\ sent'[s] <= Len(Body[s])
      /\ \A t \in Streams : t # s => sent'[t] = sent[t]
  <2>1. sent[s] + 1 \in Nat /\ sent[s] + 1 <= Len(Body[s])
    BY <1>1, <1>2
  <2> QED
    BY <1>1, <2>1 DEF SendData
<1>8. CASE HasOutbound(s)
  <2>1. PICK b : b = Size(s, sent[s])
    OBVIOUS
  <2>2. b \in Nat /\ outStream[s] >= b /\ outChannel >= b
    BY <1>3, <1>8, <2>1, SizeType DEF HasOutbound
  <2>3. /\ outStream' = [outStream EXCEPT ![s] = @ - b] /\ outChannel' = outChannel - b
        /\ pc' = [pc EXCEPT ![s] = "reading"] /\ live' = live
    BY <1>8, <2>1 DEF SendData, Spend, Go
  <2>4. outStream[s] - b \in Nat /\ outChannel - b \in Nat /\ outChannel' <= outChannel
    <3>1. PICK i, c : i = outStream[s] /\ c = outChannel
      OBVIOUS
    <3>2. i \in Nat /\ c \in Nat /\ i >= b /\ c >= b
      BY <1>1, <2>2, <3>1
    <3>3. i - b \in Nat /\ c - b \in Nat /\ c - b <= c
      BY <2>2, <3>2
    <3> QED
      BY <2>3, <3>1, <3>3
  <2>5. outStream' \in [Streams -> Nat] /\ outChannel' \in Nat
    BY <1>1, <2>3, <2>4
  <2>6. /\ pc' \in [Streams -> Place] /\ pc'[s] = "reading"
        /\ \A t \in Streams : t # s => pc'[t] = pc[t] /\ outStream'[t] = outStream[t]
    BY <1>1, <2>3
  <2>7. SendInv'
    BY <1>1, <1>7, <2>6 DEF SendInv
  <2>8. NoLostWakeup'
    <3> SUFFICES ASSUME NEW t \in Streams, pc'[t] = "waiting"
                 PROVE  t \in live' /\ ~HasOutbound(t)'
      BY DEF NoLostWakeup
    <3>1. t # s /\ pc[t] = "waiting" /\ outStream'[t] = outStream[t] /\ sent'[t] = sent[t]
      BY <1>7, <2>6
    <3>2. t \in live /\ ~HasOutbound(t) /\ sent[t] < Len(Body[t])
      BY <1>1, <3>1 DEF NoLostWakeup, SendInv
    <3>3. Size(t, sent[t]) \in Nat
      BY <1>1, <3>2, SizeType DEF Chunks
    <3>4. ~HasOutbound(t)'
      <4>1. PICK i, c, d, e : i = outStream[t] /\ c = outChannel /\ d = outChannel'
                              /\ e = Size(t, sent[t])
        OBVIOUS
      <4>2. i \in Nat /\ c \in Nat /\ d \in Nat /\ e \in Nat /\ d <= c /\ ~(i >= e /\ c >= e)
        BY <1>1, <2>4, <2>5, <3>2, <3>3, <4>1 DEF HasOutbound
      <4>3. ~(i >= e /\ d >= e)
        BY <4>2
      <4>4. Size(t, sent[t])' = e
        BY <3>1, <4>1 DEF Size
      <4> QED
        BY <3>1, <4>1, <4>3, <4>4 DEF HasOutbound
    <3> QED
      BY <2>3, <3>2, <3>4
  <2> QED
    BY <1>1, <1>6, <1>7, <2>3, <2>5, <2>6, <2>7, <2>8 DEF ClientInv, SendData
<1>9. CASE ~HasOutbound(s)
  <2>1. PICK place : place = IF s \in live THEN "aborting" ELSE "gone"
    OBVIOUS
  <2>2. place \in Place \ {"waiting", "woken", "cleared"}
    BY <2>1 DEF Place
  <2>3. CleanUp(s, place) /\ outChannel' = outChannel
    BY <1>9, <2>1 DEF SendData, AbortResponse
  <2> QED
    BY <1>1, <1>6, <1>7, <2>2, <2>3, Left DEF ClientInv, SendData
<1> QED
  BY <1>8, <1>9

\* What the client reads is a frame of the server.
LEMMA FrameDown ==
    ASSUME down \in Seq(DownFrame), down # <<>>
    PROVE  /\ Head(down) \in DownFrame /\ Tail(down) \in Seq(DownFrame)
           /\ Head(down).type # "channel.credit" => Head(down).id \in Streams
           /\ Head(down).type \in {"stream.credit", "channel.credit"} => Head(down).bytes \in Nat
<1>1. Head(down) \in DownFrame /\ Tail(down) \in Seq(DownFrame)
  OBVIOUS
<1> QED
  BY <1>1 DEF DownFrame

\* ... and so does every step of the client, which leaves the server alone.
LEMMA ClientSafe ==
    ASSUME ClientInv, down \in Seq(DownFrame), ClientStep
    PROVE  ClientInv' /\ down' \in Seq(DownFrame) /\ UNCHANGED <<server, response, fault>>
<1>1. /\ pc \in [Streams -> Place] /\ live \subseteq Streams /\ sent \in [Streams -> Nat]
      /\ outStream \in [Streams -> Nat] /\ outChannel \in Nat /\ up \in Seq(UpFrame)
      /\ SendInv /\ NoLostWakeup /\ StreamCredit \in Nat
  BY LimitsAssumption DEF ClientInv
<1> DEFINE Goal == ClientInv' /\ down' \in Seq(DownFrame) /\ UNCHANGED <<server, response, fault>>
<1>2. ASSUME NEW s \in Streams, SendData(s) PROVE Goal
  BY <1>2, DataSent
<1>3. ASSUME NEW s \in Streams, Answered(s) \/ BodyRead(s) PROVE Goal
  <2>1. PICK place : place = IF s \in live THEN IF pc[s] = "fetching" THEN "starting" ELSE "ending"
                             ELSE "gone"
    OBVIOUS
  <2>2. place \in Place /\ place \notin {"woken", "cleared", "waiting"}
    BY <2>1 DEF Place
  <2>3. /\ Go(s, place)
        /\ UNCHANGED <<live, sent, outStream, outChannel, up, down, server, response, fault>>
    BY <1>3, <2>1 DEF Answered, BodyRead
  <2>4. pc' \in [Streams -> Place] /\ SendInv' /\ NoLostWakeup'
    BY <2>2, <2>3, Moved
  <2> QED
    BY <1>1, <2>3, <2>4 DEF ClientInv
<1>4. ASSUME NEW s \in Streams, AskCredit(s) PROVE Goal
  <2>1. PICK place : place = IF s \notin live THEN "gone"
                             ELSE IF HasOutbound(s) THEN "cleared" ELSE "waiting"
    OBVIOUS
  <2>2. /\ place \in Place /\ (place = "waiting" => s \in live /\ ~HasOutbound(s))
    BY <2>1 DEF Place
  <2>3. /\ Go(s, place)
        /\ UNCHANGED <<live, sent, outStream, outChannel, up, down, server, response, fault>>
    BY <1>4, <2>1 DEF AskCredit
  <2>4. sent[s] < Len(Body[s])
    BY <1>1, <1>4 DEF AskCredit, SendInv
  <2>5. pc' \in [Streams -> Place] /\ SendInv' /\ NoLostWakeup'
    BY <2>2, <2>3, <2>4, Moved
  <2> QED
    BY <1>1, <2>3, <2>5 DEF ClientInv
<1>5. ASSUME NEW s \in Streams, SendStart(s) \/ SendAbort(s) PROVE Goal
  <2>1. PICK place, type : IF pc[s] = "starting" THEN place = "reading" /\ type = "start"
                           ELSE place = "gone" /\ type = "abort"
    OBVIOUS
  <2>2. PICK f : f = [type |-> type, id |-> s]
    OBVIOUS
  <2>3. /\ place \in Place \ {"woken", "cleared", "waiting"} /\ type \in {"start", "abort"}
    BY <2>1 DEF Place
  <2>4. f \in UpFrame
    BY <2>2, <2>3 DEF UpFrame
  <2>5. /\ Go(s, place) /\ up' = Append(up, f)
        /\ UNCHANGED <<live, sent, outStream, outChannel, down, server, response, fault>>
    BY <1>5, <2>1, <2>2 DEF SendStart, SendAbort
  <2>6. pc' \in [Streams -> Place] /\ SendInv' /\ NoLostWakeup'
    BY <2>3, <2>5, Moved
  <2>7. up' \in Seq(UpFrame)
    BY <1>1, <2>4, <2>5
  <2> QED
    BY <1>1, <2>5, <2>6, <2>7 DEF ClientInv
<1>6. ASSUME NEW s \in Streams, NEW place \in Place \ {"waiting", "woken", "cleared"},
             CleanUp(s, place), up' \in Seq(UpFrame),
             UNCHANGED <<sent, outChannel, down, server, response, fault>>
      PROVE  Goal
  <2>1. /\ sent' \in [Streams -> Nat] /\ sent'[s] <= Len(Body[s])
        /\ \A t \in Streams : t # s => sent'[t] = sent[t]
    BY <1>1, <1>6 DEF SendInv
  <2>2. /\ pc' \in [Streams -> Place] /\ live' \subseteq Streams
        /\ outStream' \in [Streams -> Nat] /\ SendInv' /\ NoLostWakeup'
    BY <1>6, <2>1, Left
  <2> QED
    BY <1>1, <1>6, <2>1, <2>2 DEF ClientInv
<1>7. ASSUME NEW s \in Streams, SendEnd(s) PROVE Goal
  <2>1. PICK f : f = [type |-> "end", id |-> s, last |-> LastSentSeq(s)]
    OBVIOUS
  <2>2. LastSentSeq(s) \in Int
    BY <1>1 DEF LastSentSeq
  <2>3. f \in UpFrame
    BY <2>1, <2>2 DEF UpFrame
  <2>4. up' \in Seq(UpFrame)
    BY <1>1, <1>7, <2>1, <2>3 DEF SendEnd
  <2> QED
    BY <1>6, <1>7, <2>4 DEF SendEnd, Place
<1>8. ASSUME NEW s \in Streams, OriginFails(s) PROVE Goal
  <2>1. PICK place : place = IF s \in live THEN "aborting" ELSE "gone"
    OBVIOUS
  <2>2. place \in Place \ {"waiting", "woken", "cleared"}
    BY <2>1 DEF Place
  <2> QED
    BY <1>1, <1>6, <1>8, <2>1, <2>2 DEF OriginFails, AbortResponse
<1>9. CASE ReceiveRequest
  <2>1. PICK s : s = Head(down).id
    OBVIOUS
  <2>2. s \in Streams /\ down' \in Seq(DownFrame)
    BY <1>9, <2>1, FrameDown DEF ReceiveRequest, ToClient
  <2>3. /\ live' = live \cup {s} /\ outStream' = [outStream EXCEPT ![s] = StreamCredit]
        /\ pc' = [pc EXCEPT ![s] = "fetching"]
        /\ UNCHANGED <<sent, outChannel, up, server, response, fault>>
    BY <1>9, <2>1 DEF ReceiveRequest, Go
  <2>4. "fetching" \in Place
    BY DEF Place
  <2>5. /\ pc' \in [Streams -> Place] /\ outStream' \in [Streams -> Nat] /\ pc'[s] = "fetching"
        /\ \A t \in Streams : t # s => pc'[t] = pc[t] /\ outStream'[t] = outStream[t]
    BY <1>1, <2>2, <2>3, <2>4
  <2>6. SendInv'
    BY <1>1, <2>3, <2>5 DEF SendInv
  <2>7. NoLostWakeup'
    BY <1>1, <2>3, <2>5 DEF NoLostWakeup, HasOutbound
  <2> QED
    BY <1>1, <2>2, <2>3, <2>5, <2>6, <2>7 DEF ClientInv
<1>10. CASE ReceiveStreamCredit
  <2>1. PICK s, b : s = Head(down).id /\ b = Head(down).bytes
    OBVIOUS
  <2>2. s \in Streams /\ b \in Nat /\ down' \in Seq(DownFrame)
    BY <1>10, <2>1, FrameDown DEF ReceiveStreamCredit, ToClient
  <2>3. /\ outStream' = [outStream EXCEPT ![s] = @ + b] /\ pc' = Woken
        /\ UNCHANGED <<live, sent, outChannel, up, server, response, fault>>
    BY <1>10, <2>1 DEF ReceiveStreamCredit
  <2>4. outStream' \in [Streams -> Nat]
    <3>1. outStream[s] + b \in Nat
      BY <1>1, <2>2
    <3> QED
      BY <1>1, <2>3, <3>1
  <2> QED
    BY <1>1, <2>2, <2>3, <2>4, AllWoken DEF ClientInv
<1>11. CASE ReceiveChannelCredit
  <2>1. /\ outChannel' \in Nat /\ down' \in Seq(DownFrame)
    BY <1>1, <1>11, FrameDown DEF ReceiveChannelCredit, ToClient
  <2> QED
    BY <1>1, <1>11, <2>1, AllWoken DEF ClientInv, ReceiveChannelCredit
<1>12. CASE ReceiveRequestAbort
  <2>1. PICK s : s = Head(down).id
    OBVIOUS
  <2>2. s \in Streams /\ down' \in Seq(DownFrame)
    BY <1>12, <2>1, FrameDown DEF ReceiveRequestAbort, ToClient
  <2>3. UNCHANGED <<sent, outChannel, up, server, response, fault>>
    BY <1>12 DEF ReceiveRequestAbort
  <2>4. CASE s \in live
    <3>1. live' = live \ {s} /\ outStream' = [outStream EXCEPT ![s] = 0] /\ pc' = Woken
      BY <1>12, <2>1, <2>4 DEF ReceiveRequestAbort
    <3>2. live' \subseteq Streams /\ outStream' \in [Streams -> Nat]
      BY <1>1, <3>1
    <3> QED
      BY <1>1, <2>2, <2>3, <3>1, <3>2, AllWoken DEF ClientInv
  <2>5. CASE s \notin live
    <3>1. UNCHANGED <<live, outStream, pc>>
      BY <1>12, <2>1, <2>5 DEF ReceiveRequestAbort
    <3> QED
      BY <1>1, <2>2, <2>3, <3>1 DEF ClientInv, SendInv, NoLostWakeup, HasOutbound
  <2> QED
    BY <2>4, <2>5
<1> QED
  BY <1>2, <1>3, <1>4, <1>5, <1>7, <1>8, <1>9, <1>10, <1>11, <1>12
     DEF ClientStep, ClientReceives, Coroutine

\* The first layer of the invariant holds at first, ...
LEMMA SafeStart == Init => SafeInv
<1> SUFFICES ASSUME Init PROVE SafeInv
  OBVIOUS
<1>1. /\ "absent" \in Place /\ "absent" \in Phase /\ "none" \in Outcome
      /\ ChannelCredit \in Nat /\ 0 \in 0..HighWater /\ PendingLimit \in Nat
  BY LimitsAssumption DEF Place, Phase, Outcome
<1>2. \A s \in Streams : Len(Body[s]) \in Nat
  BY BodyAssumption
<1>3. ClientInv
  BY <1>1, <1>2 DEF Init, ClientInv, SendInv, NoLostWakeup
<1>4. Queues(pending)
  BY DEF Init, Queues
<1>5. SumFunction(PendingBytes) = 0
  <2>1. \A s \in Streams : Bytes(s, pending[s]) = 0
    <3> TAKE s \in Streams
    <3>1. pending[s] = <<>> /\ pending[s] \in Seq(Chunks(s))
      BY <1>4 DEF Init, Queues
    <3> QED
      BY <3>1, BytesFacts
  <2>2. DOMAIN PendingBytes = Streams /\ \A s \in Streams : PendingBytes[s] = 0
    BY <2>1 DEF PendingBytes
  <2>3. SumFunctionOnSet(PendingBytes, Streams) = 0
    BY <2>2, StreamsAssumption, SumZeros
  <2> QED
    BY <2>2, <2>3 DEF SumFunction
<1>6. ServerInv
  BY <1>1, <1>4, <1>5 DEF Init, ServerInv, PendingAccounted
<1> QED
  BY <1>3, <1>6 DEF SafeInv

\* A step is the client's or the server's, and nothing has gone wrong before it.
LEMMA Steps ==
    ASSUME Next
    PROVE  fault = "none" /\ (ClientStep \/ ServerStep)
  BY DEF Next, ClientStep, ServerStep, ServerReceives, Trouble

\* ... every step keeps it, ...
LEMMA SafeNext == SafeInv /\ [Next]_vars => SafeInv'
<1> SUFFICES ASSUME SafeInv, [Next]_vars PROVE SafeInv'
  OBVIOUS
<1>1. CASE UNCHANGED vars
  BY <1>1 DEF vars, client, server, response, SafeInv, ClientInv, ServerInv, SendInv,
              NoLostWakeup, HasOutbound, PendingAccounted, PendingBytes
<1>2. CASE ClientStep
  <2>1. ClientInv' /\ down' \in Seq(DownFrame) /\ UNCHANGED <<server, response, fault>>
    BY <1>2, ClientSafe DEF SafeInv, ServerInv
  <2> QED
    BY <2>1 DEF SafeInv, ServerInv, server, response, PendingAccounted, PendingBytes
<1>3. CASE ServerStep
  <2>1. ServerInv' /\ up' \in Seq(UpFrame) /\ UNCHANGED client
    BY <1>3, ServerSafe DEF SafeInv, ClientInv
  <2> QED
    BY <2>1 DEF SafeInv, ClientInv, client, SendInv, NoLostWakeup, HasOutbound
<1> QED
  BY <1>1, <1>2, <1>3, Steps

\* ... and it always holds.
LEMMA Safe == Spec => []SafeInv
  BY SafeStart, SafeNext, PTL DEF Spec

\* The types of all variables, for any streams, bodies, windows and limits.
THEOREM TypeCorrect == Spec => []TypeOK
<1>1. SafeInv => TypeOK
  BY DEF SafeInv, ClientInv, ServerInv, TypeOK
<1> QED
  BY <1>1, Safe, PTL

\* Nobody sleeps in waitForOutbound with its credit there, or after its stream
\* is gone: every grant and every abort is heard.
THEOREM NoSleeperForgotten == Spec => []NoLostWakeup
<1>1. SafeInv => NoLostWakeup
  BY DEF SafeInv, ClientInv
<1> QED
  BY <1>1, Safe, PTL

\* pendingDataBytes is the sum over the registered streams and within the limit.
THEOREM PendingIsAccounted == Spec => []PendingAccounted
<1>1. SafeInv => PendingAccounted
  BY DEF SafeInv, ServerInv
<1> QED
  BY <1>1, Safe, PTL

-----------------------------------------------------------------------------
(* Runs of chunks.                                                             *)

\* What a run of chunks is, place by place.
LEMMA RunFacts ==
    ASSUME NEW k \in Nat, NEW n \in Nat
    PROVE  /\ Run(k, n) \in Seq(Nat) /\ Len(Run(k, n)) = n
           /\ \A i \in 1..n : Run(k, n)[i] = k + i - 1
           /\ Run(k, 0) = <<>>
<1>1. \A i \in 1..n : k + i - 1 \in Nat
  OBVIOUS
<1>2. Run(k, n) \in Seq(Nat) /\ Len(Run(k, n)) = n
  BY <1>1 DEF Run
<1>3. \A i \in 1..n : Run(k, n)[i] = k + i - 1
  BY DEF Run
<1>4. Run(k, 0) = <<>>
  BY DEF Run
<1> QED
  BY <1>2, <1>3, <1>4

\* A run and the one after it make a run.
LEMMA RunJoined ==
    ASSUME NEW k \in Nat, NEW m \in Nat, NEW n \in Nat
    PROVE  Run(k, m + n) = Run(k, m) \o Run(k + m, n)
<1>1. PICK a, b, c : a = Run(k, m) /\ b = Run(k + m, n) /\ c = Run(k, m + n)
  OBVIOUS
<1>2. /\ a \in Seq(Nat) /\ Len(a) = m /\ \A i \in 1..m : a[i] = k + i - 1
  BY <1>1, RunFacts
<1>3. k + m \in Nat /\ m + n \in Nat
  OBVIOUS
<1>4. /\ b \in Seq(Nat) /\ Len(b) = n /\ \A i \in 1..n : b[i] = (k + m) + i - 1
  BY <1>1, <1>3, RunFacts
<1>5. /\ c \in Seq(Nat) /\ Len(c) = m + n /\ \A i \in 1..m + n : c[i] = k + i - 1
  BY <1>1, <1>3, RunFacts
<1>6. \A i \in 1..m : c[i] = a[i]
  <2> TAKE i \in 1..m
  <2>1. i \in 1..m + n
    OBVIOUS
  <2> QED
    BY <1>2, <1>5, <2>1
<1>7. \A i \in 1..n : c[m + i] = b[i]
  <2> TAKE i \in 1..n
  <2>1. m + i \in 1..m + n /\ k + (m + i) - 1 = (k + m) + i - 1
    OBVIOUS
  <2> QED
    BY <1>4, <1>5, <2>1
<1>8. Glues(c, a, b)
  <2>1. Len(c) = Len(a) + Len(b) /\ \A i \in 1..Len(a) : c[i] = a[i]
    BY <1>2, <1>4, <1>5, <1>6
  <2>2. \A i \in 1..Len(b) : c[Len(a) + i] = b[i]
    BY <1>2, <1>4, <1>7
  <2> QED
    BY <2>1, <2>2 DEF Glues
<1>9. c = a \o b
  BY <1>2, <1>4, <1>5, <1>8, Glued
<1> QED
  BY <1>1, <1>9

\* One chunk; one more chunk.
LEMMA RunNext ==
    ASSUME NEW k \in Nat, NEW n \in Nat
    PROVE  Run(k, 1) = <<k>> /\ Run(k, n + 1) = Append(Run(k, n), k + n)
<1>1. PICK a, b : a = Run(k, n) /\ b = Run(k + n, 1)
  OBVIOUS
<1>2. a \in Seq(Nat)
  BY <1>1, RunFacts
<1>3. \A j \in Nat : Run(j, 1) = <<j>>
  <2> TAKE j \in Nat
  <2>1. PICK c : c = Run(j, 1)
    OBVIOUS
  <2>2. c \in Seq(Nat) /\ Len(c) = 1 /\ c[1] = j
    <3>1. 1 \in 1..1 /\ j + 1 - 1 = j /\ 1 \in Nat
      OBVIOUS
    <3>2. c \in Seq(Nat) /\ Len(c) = 1 /\ \A i \in 1..1 : c[i] = j + i - 1
      BY <2>1, <3>1, RunFacts
    <3> QED
      BY <3>1, <3>2
  <2>3. c = <<j>>
    BY <2>2
  <2> QED
    BY <2>1, <2>3
<1>4. b = <<k + n>> /\ k + n \in Nat
  BY <1>1, <1>3
<1>5. Run(k, n + 1) = a \o b
  BY <1>1, RunJoined
<1>6. Append(a, k + n) = a \o <<k + n>>
  BY <1>2, <1>4
<1>7. Run(k, n + 1) = Append(Run(k, n), k + n)
  BY <1>1, <1>4, <1>5, <1>6, Zenon
<1> QED
  BY <1>3, <1>7

\* Runs from the first chunk.
LEMMA RunStart ==
    ASSUME NEW k \in Nat, NEW n \in Nat
    PROVE  /\ Run(0, k + n) = Run(0, k) \o Run(k, n)
           /\ Run(0, k + 1) = Run(0, k) \o <<k>>
           /\ Len(Run(0, k)) = k
<1>1. 0 \in Nat /\ 1 \in Nat /\ 0 + k = k
  OBVIOUS
<1>2. \A m \in Nat : Run(0, k + m) = Run(0, k) \o Run(k, m)
  <2> TAKE m \in Nat
  <2>1. \A z \in Nat : Run(z, k + m) = Run(z, k) \o Run(z + k, m)
    BY RunJoined
  <2> QED
    BY <1>1, <2>1, Zenon
<1>3. Run(k, 1) = <<k>>
  BY <1>1, RunNext, Zenon
<1>4. Len(Run(0, k)) = k
  BY <1>1, RunFacts, Zenon
<1> QED
  BY <1>1, <1>2, <1>3, <1>4, Zenon

\* A concatenation is cut where it was joined.
LEMMA Recut ==
    ASSUME NEW S, NEW a \in Seq(S), NEW b \in Seq(S)
    PROVE  /\ SubSeq(a \o b, 1, Len(a)) = a
           /\ SubSeq(a \o b, Len(a) + 1, Len(a) + Len(b)) = b
  OBVIOUS

\* A run is cut in two runs.
LEMMA RunCut ==
    ASSUME NEW k \in Nat, NEW n \in Nat, NEW m \in 0..n
    PROVE  /\ SubSeq(Run(k, n), 1, m) = Run(k, m)
           /\ SubSeq(Run(k, n), m + 1, n) = Run(k + m, n - m)
<1>1. m \in Nat /\ n - m \in Nat /\ m + (n - m) = n /\ k + m \in Nat
  OBVIOUS
<1>2. PICK a, b, c : a = Run(k, m) /\ b = Run(k + m, n - m) /\ c = Run(k, n)
  OBVIOUS
<1>3. a \in Seq(Nat) /\ Len(a) = m /\ b \in Seq(Nat) /\ Len(b) = n - m
  BY <1>1, <1>2, RunFacts
<1>4. Run(k, m + (n - m)) = Run(k, m) \o Run(k + m, n - m)
  BY <1>1, RunJoined
<1>5. c = a \o b
  BY <1>1, <1>2, <1>4
<1>6. /\ SubSeq(a \o b, 1, Len(a)) = a
      /\ SubSeq(a \o b, Len(a) + 1, Len(a) + Len(b)) = b
  BY <1>3, Recut
<1>7. Len(a) + Len(b) = n
  BY <1>1, <1>3
<1> QED
  BY <1>2, <1>3, <1>5, <1>6, <1>7, Zenon

-----------------------------------------------------------------------------
(* The link: what the client does to it.                                       *)

\* A client step that sends no data and reads no request.
LEMMA ClientKeepsLink ==
    ASSUME LinkInv, UNCHANGED <<sent, phase, next>>, live' \subseteq live,
           \A s \in Streams : /\ pc'[s] = "absent" <=> pc[s] = "absent"
                              /\ pc[s] = "gone" => pc'[s] = "gone",
           Range(down') \subseteq Range(down), Once(down'), Sorted(up'),
           Range(up) \subseteq Range(up'),
           \A f \in Range(up') : \/ f \in Range(up)
                                 \/ f.type # "data" /\ pc[f.id] # "absent" /\
                                    (f.type = "end" =>
                                        pc'[f.id] = "gone" /\ f.last = sent[f.id] - 1)
    PROVE  LinkInv'
<1> SUFFICES ASSUME NEW s \in Streams
             PROVE  FreshInv(s)' /\ DataInv(s)' /\ EndInv(s)'
  BY DEF LinkInv
<1>1. FreshInv(s) /\ DataInv(s) /\ EndInv(s)
  BY DEF LinkInv
<1>2. Open(s)' <=> Open(s)
  BY DEF Open
<1>3. FreshInv(s)'
  BY <1>1 DEF FreshInv, Ask
<1>4. DataInv(s)'
  <2>1. \A f \in Range(up') : f.type = "data" => f \in Range(up)
    OBVIOUS
  <2>2. \A f \in Range(up') : f.type = "data" /\ f.id = s =>
            f.seq < sent'[s] /\ (Open(s)' => next'[s] <= f.seq)
    BY <1>1, <1>2, <2>1 DEF DataInv
  <2>3. next'[s] <= sent'[s]
    BY <1>1 DEF DataInv
  <2>4. Open(s)' => \A n \in next'[s] .. sent'[s] - 1 : Chunk(s, n) \in Range(up')
    BY <1>1, <1>2 DEF DataInv
  <2> QED
    BY <2>2, <2>3, <2>4 DEF DataInv, Chunk
<1>5. EndInv(s)'
  BY <1>1 DEF EndInv
<1> QED
  BY <1>3, <1>4, <1>5

\* The chunk sendDataChunk sends is the next of its stream.
LEMMA DataKeepsLink ==
    ASSUME SafeInv, LinkInv, NEW s \in Streams, SendData(s)
    PROVE  LinkInv'
<1>1. PICK n, f : n = sent[s] /\ f = Chunk(s, n)
  OBVIOUS
<1>2. /\ up \in Seq(UpFrame) /\ sent \in [Streams -> Nat] /\ pc \in [Streams -> Place]
      /\ n \in Nat /\ next[s] \in Nat
  BY <1>1 DEF SafeInv, ClientInv, ServerInv
<1>3. /\ up' = Append(up, f) /\ f.type = "data" /\ f.id = s /\ f.seq = n
      /\ UNCHANGED <<down, phase, next>> /\ pc[s] = "cleared"
  BY <1>1 DEF SendData, Chunk, server
<1>4. /\ sent'[s] = n + 1 /\ \A t \in Streams : t # s => sent'[t] = sent[t]
  BY <1>1, <1>2 DEF SendData
<1>5. live' \subseteq live /\ pc'[s] \in {"reading", "aborting", "gone"}
      /\ \A t \in Streams : t # s => /\ pc'[t] = "absent" <=> pc[t] = "absent"
                                     /\ pc[t] = "gone" => pc'[t] = "gone"
  <2>1. CASE HasOutbound(s)
    BY <1>2, <2>1 DEF SendData, Go
  <2>2. CASE ~HasOutbound(s)
    BY <1>2, <2>2 DEF SendData, AbortResponse, CleanUp, Go, GoAndWake, Woken
  <2> QED
    BY <2>1, <2>2
<1>6. \A t \in Streams : FreshInv(t) /\ DataInv(t) /\ EndInv(t)
  BY DEF LinkInv
<1>7. \A g \in Range(up) : (g.type = "data" /\ g.id = s => g.seq < n) /\ ~(g.type = "end" /\ g.id = s)
  BY <1>1, <1>3, <1>6 DEF DataInv, EndInv
<1>8. f \in UpFrame
  <2>1. n < Len(Body[s])
    BY <1>1, <1>3 DEF SafeInv, ClientInv, SendInv
  <2> QED
    BY <1>1, <1>2, <2>1 DEF Chunk, UpFrame, DataFrame
<1>9. Range(up') = Range(up) \cup {f} /\ Sorted(up')
  <2>1. \A g \in Range(up) : Follows(g, f)
    BY <1>3, <1>7 DEF Follows
  <2>2. Sorted(up)
    BY DEF LinkInv
  <2>3. Range(Append(up, f)) = Range(up) \cup {f} /\ Sorted(Append(up, f))
    <3>1. Range(Append(up, f)) = Range(up) \cup {f}
      BY <1>2, <1>8, Pushed
    <3>2. Sorted(Append(up, f))
      BY <1>2, <1>8, <2>1, <2>2, PushedSorted
    <3> QED
      BY <3>1, <3>2
  <2> QED
    BY <1>3, <2>3
<1>10. ASSUME NEW t \in Streams, t # s PROVE FreshInv(t)' /\ DataInv(t)' /\ EndInv(t)'
  <2>1. /\ FreshInv(t) /\ DataInv(t) /\ EndInv(t) /\ (Open(t)' <=> Open(t))
        /\ sent'[t] = sent[t] /\ next'[t] = next[t] /\ phase'[t] = phase[t] /\ down' = down
        /\ (pc'[t] = "absent" <=> pc[t] = "absent") /\ (pc[t] = "gone" => pc'[t] = "gone")
    BY <1>3, <1>4, <1>5, <1>6, <1>10 DEF Open
  <2>2. \A g \in Range(up') : g.id = t <=> g \in Range(up) /\ g.id = t
    BY <1>3, <1>9, <1>10
  <2>3. FreshInv(t)'
    BY <1>5, <2>1, <2>2 DEF FreshInv, Ask
  <2>4. DataInv(t)'
    <3>1. Range(up) \subseteq Range(up')
      BY <1>9
    <3> QED
      BY <2>1, <2>2, <3>1 DEF DataInv, Chunk
  <2>5. EndInv(t)'
    BY <2>1, <2>2 DEF EndInv
  <2> QED
    BY <2>3, <2>4, <2>5
<1>11. FreshInv(s)'
  <2>1. pc'[s] # "absent" /\ pc[s] # "absent" /\ phase'[s] = phase[s] /\ down' = down
    BY <1>3, <1>5
  <2> QED
    BY <1>6, <2>1 DEF FreshInv, Ask
<1>12. DataInv(s)'
  <2>1. next'[s] = next[s] /\ next[s] <= n /\ (Open(s)' <=> Open(s)) /\ next[s] \in Nat
    BY <1>1, <1>2, <1>3, <1>6 DEF DataInv, Open
  <2>2. next'[s] <= sent'[s]
    BY <1>2, <1>4, <2>1
  <2>3. \A g \in Range(up') : g.type = "data" /\ g.id = s =>
            g.seq < sent'[s] /\ (Open(s)' => next'[s] <= g.seq)
    <3> SUFFICES ASSUME NEW g \in Range(up'), g.type = "data", g.id = s
                 PROVE  g.seq < sent'[s] /\ (Open(s)' => next'[s] <= g.seq)
      OBVIOUS
    <3>1. CASE g = f
      BY <1>2, <1>3, <1>4, <2>1, <3>1
    <3>2. CASE g \in Range(up)
      <4>1. g \in UpFrame
        BY <1>2, <3>2 DEF Range
      <4>2. g.seq \in Nat
        BY <4>1 DEF UpFrame, DataFrame
      <4>3. g.seq < n /\ (Open(s) => next[s] <= g.seq)
        BY <1>1, <1>6, <3>2 DEF DataInv
      <4> QED
        BY <1>2, <1>4, <2>1, <4>2, <4>3
    <3> QED
      BY <1>9, <3>1, <3>2
  <2>4. Open(s)' => \A m \in next'[s] .. sent'[s] - 1 : Chunk(s, m) \in Range(up')
    <3> SUFFICES ASSUME Open(s), NEW m \in next[s] .. n PROVE Chunk(s, m) \in Range(up')
      BY <1>2, <1>4, <2>1
    <3>1. CASE m = n
      BY <1>1, <1>9, <3>1
    <3>2. CASE m # n
      <4>1. m \in next[s] .. n - 1
        BY <1>2, <2>1, <3>2
      <4> QED
        BY <1>1, <1>6, <1>9, <4>1 DEF DataInv
    <3> QED
      BY <3>1, <3>2
  <2> QED
    BY <2>2, <2>3, <2>4 DEF DataInv, Chunk
<1>13. EndInv(s)'
  BY <1>3, <1>7, <1>9 DEF EndInv
<1> QED
  BY <1>3, <1>9, <1>10, <1>11, <1>12, <1>13 DEF LinkInv, Once

\* The request the client reads is of a stream it does not know yet.
LEMMA RequestKeepsLink ==
    ASSUME SafeInv, LinkInv, ReceiveRequest
    PROVE  /\ LinkInv' /\ Head(down).id \in Streams
           /\ pc[Head(down).id] = "absent" /\ sent[Head(down).id] = 0
           /\ next[Head(down).id] = 0
<1>1. PICK s : s = Head(down).id
  OBVIOUS
<1>2. /\ down \in Seq(DownFrame) /\ pc \in [Streams -> Place] /\ down # <<>>
      /\ Head(down).type = "request" /\ down' = Tail(down)
      /\ UNCHANGED <<sent, up, phase, next>>
  BY DEF SafeInv, ClientInv, ServerInv, ReceiveRequest, ToClient, server
<1>3. /\ s \in Streams /\ Head(down) \in DownFrame
      /\ Range(down) = Range(Tail(down)) \cup {Head(down)}
  BY <1>1, <1>2, FrameDown, Popped
<1>4. Once(Tail(down)) /\ Head(down) \notin Range(Tail(down))
  <2>1. Once(down)
    BY DEF LinkInv
  <2> QED
    BY <1>2, <2>1, Popped
<1>5. Head(down) = Ask(s)
  BY <1>1, <1>2, <1>3 DEF Ask, DownFrame
<1>6. \A t \in Streams : FreshInv(t) /\ DataInv(t) /\ EndInv(t) /\ (Open(t)' <=> Open(t))
  BY <1>2 DEF LinkInv, Open
<1>7. /\ pc[s] = "absent" /\ phase[s] # "absent" /\ sent[s] = 0 /\ next[s] = 0
      /\ \A f \in Range(up) : f.id # s
  BY <1>3, <1>5, <1>6 DEF FreshInv
<1>8. /\ pc' = [pc EXCEPT ![s] = "fetching"] /\ live' = live \cup {s}
  BY <1>1 DEF ReceiveRequest, Go
<1>9. \A t \in Streams : FreshInv(t)'
  <2> TAKE t \in Streams
  <2>1. CASE t = s
    BY <1>2, <1>3, <1>4, <1>5, <1>7, <1>8, <2>1 DEF FreshInv, Ask
  <2>2. CASE t # s
    <3>1. FreshInv(t) /\ pc'[t] = pc[t] /\ (t \in live' <=> t \in live)
      BY <1>2, <1>6, <1>8, <2>2
    <3> QED
      BY <1>2, <1>3, <3>1 DEF FreshInv, Ask
  <2> QED
    BY <2>1, <2>2
<1>10. \A t \in Streams : DataInv(t)'
  BY <1>2, <1>6 DEF DataInv, Chunk
<1>11. \A t \in Streams : EndInv(t)'
  <2> TAKE t \in Streams
  <2>1. CASE t = s
    BY <1>2, <1>7, <2>1 DEF EndInv
  <2>2. CASE t # s
    BY <1>2, <1>6, <1>8, <2>2 DEF EndInv
  <2> QED
    BY <2>1, <2>2
<1>12. Sorted(up') /\ Once(down')
  BY <1>2, <1>4 DEF LinkInv
<1> QED
  BY <1>1, <1>3, <1>7, <1>9, <1>10, <1>11, <1>12 DEF LinkInv

\* Every client step.
LEMMA ClientLink ==
    ASSUME SafeInv, LinkInv, ClientStep
    PROVE  LinkInv'
<1>1. /\ down \in Seq(DownFrame) /\ up \in Seq(UpFrame) /\ pc \in [Streams -> Place]
      /\ Sorted(up) /\ Once(down)
  BY DEF SafeInv, ClientInv, ServerInv, LinkInv
<1>2. UNCHANGED <<phase, next>>
  <2>1. UNCHANGED server
    BY ClientSafe DEF SafeInv, ServerInv
  <2> QED
    BY <2>1 DEF server
<1>3. ASSUME NEW s \in Streams, SendData(s) PROVE LinkInv'
  BY <1>3, DataKeepsLink
<1>4. CASE ReceiveRequest
  BY <1>4, RequestKeepsLink
<1>5. ASSUME UNCHANGED <<sent, up>>, live' \subseteq live,
             down' = down \/ (down # <<>> /\ down' = Tail(down)),
             \A s \in Streams : /\ pc'[s] = "absent" <=> pc[s] = "absent"
                                /\ pc[s] = "gone" => pc'[s] = "gone"
      PROVE  LinkInv'
  <2>1. Range(down') \subseteq Range(down) /\ Once(down')
    <3>1. CASE down' = down
      BY <1>1, <3>1
    <3>2. CASE down # <<>> /\ down' = Tail(down)
      <4>1. Range(down) = Range(Tail(down)) \cup {Head(down)} /\ Once(Tail(down))
        BY <1>1, <3>2, Popped
      <4> QED
        BY <3>2, <4>1
    <3> QED
      BY <1>5, <3>1, <3>2
  <2> QED
    BY <1>1, <1>2, <1>5, <2>1, ClientKeepsLink
<1>6. ASSUME NEW s \in Streams, pc[s] # "absent", pc[s] # "gone", pc'[s] # "absent",
             NEW f \in UpFrame, f.id = s, f.type # "data",
             f.type = "end" => pc'[s] = "gone" /\ f.last = sent[s] - 1,
             up' = Append(up, f), UNCHANGED <<sent, down>>, live' \subseteq live,
             \A t \in Streams : t # s => /\ pc'[t] = "absent" <=> pc[t] = "absent"
                                         /\ pc[t] = "gone" => pc'[t] = "gone"
      PROVE  LinkInv'
  <2>1. \A g \in Range(up) : Follows(g, f)
    BY <1>6 DEF Follows
  <2>2. Range(up') = Range(up) \cup {f} /\ Sorted(up')
    <3>1. Range(Append(up, f)) = Range(up) \cup {f} /\ Sorted(Append(up, f))
      <4>1. Range(Append(up, f)) = Range(up) \cup {f}
        BY <1>1, <1>6, Pushed
      <4>2. Sorted(Append(up, f))
        BY <1>1, <1>6, <2>1, PushedSorted
      <4> QED
        BY <4>1, <4>2
    <3> QED
      BY <1>6, <3>1
  <2>3. \A t \in Streams : /\ pc'[t] = "absent" <=> pc[t] = "absent"
                           /\ pc[t] = "gone" => pc'[t] = "gone"
    BY <1>6
  <2> QED
    BY <1>1, <1>2, <1>6, <2>2, <2>3, ClientKeepsLink
<1>7. ASSUME NEW s \in Streams, Answered(s) \/ BodyRead(s) \/ AskCredit(s) PROVE LinkInv'
  <2>1. UNCHANGED <<sent, up, live, down>> /\ pc[s] \in {"fetching", "reading", "woken"}
    BY <1>7 DEF Answered, BodyRead, AskCredit
  <2>2. PICK place \in {"starting", "gone", "ending", "cleared", "waiting"} :
            pc' = [pc EXCEPT ![s] = place]
    BY <1>7 DEF Answered, BodyRead, AskCredit, Go
  <2>3. \A t \in Streams : /\ pc'[t] = "absent" <=> pc[t] = "absent"
                           /\ pc[t] = "gone" => pc'[t] = "gone"
    BY <1>1, <2>1, <2>2
  <2> QED
    BY <1>5, <2>1, <2>3
<1>8. ASSUME NEW s \in Streams, SendStart(s) \/ SendAbort(s) PROVE LinkInv'
  <2>1. PICK type \in {"start", "abort"}, place \in {"reading", "gone"} :
            /\ up' = Append(up, [type |-> type, id |-> s])
            /\ pc' = [pc EXCEPT ![s] = place]
    BY <1>8 DEF SendStart, SendAbort, Go
  <2>2. PICK f : f = [type |-> type, id |-> s]
    OBVIOUS
  <2>3. f \in UpFrame /\ f.id = s /\ f.type # "data" /\ f.type # "end"
    BY <2>2 DEF UpFrame
  <2>4. /\ UNCHANGED <<sent, down, live>> /\ pc[s] \in {"starting", "aborting"}
    BY <1>8 DEF SendStart, SendAbort
  <2> QED
    BY <1>1, <1>6, <2>1, <2>2, <2>3, <2>4
<1>9. ASSUME NEW s \in Streams, NEW place \in {"aborting", "gone"}, CleanUp(s, place),
             pc[s] # "absent", pc[s] = "gone" => place = "gone"
      PROVE  /\ live' \subseteq live /\ pc'[s] = place
             /\ \A t \in Streams : t # s => /\ pc'[t] = "absent" <=> pc[t] = "absent"
                                            /\ pc[t] = "gone" => pc'[t] = "gone"
  BY <1>1, <1>9 DEF CleanUp, Go, GoAndWake, Woken
<1>10. ASSUME NEW s \in Streams, SendEnd(s) PROVE LinkInv'
  <2>1. PICK f : f = [type |-> "end", id |-> s, last |-> sent[s] - 1]
    OBVIOUS
  <2>2. sent[s] - 1 \in Int
    BY DEF SafeInv, ClientInv
  <2>3. f \in UpFrame /\ f.id = s /\ f.type = "end" /\ f.last = sent[s] - 1
    BY <2>1, <2>2 DEF UpFrame
  <2>4. /\ up' = Append(up, f) /\ CleanUp(s, "gone") /\ pc[s] = "ending"
        /\ UNCHANGED <<sent, down>>
    BY <1>10, <2>1 DEF SendEnd, LastSentSeq
  <2>5. /\ live' \subseteq live /\ pc'[s] = "gone"
        /\ \A t \in Streams : t # s => /\ pc'[t] = "absent" <=> pc[t] = "absent"
                                       /\ pc[t] = "gone" => pc'[t] = "gone"
    BY <1>9, <2>4
  <2> QED
    BY <1>6, <2>3, <2>4, <2>5
<1>11. ASSUME NEW s \in Streams, OriginFails(s) PROVE LinkInv'
  <2>1. PICK place \in {"aborting", "gone"} : CleanUp(s, place)
    BY <1>11 DEF OriginFails, AbortResponse
  <2>2. UNCHANGED <<sent, up, down>> /\ pc[s] \in {"fetching", "reading"}
    BY <1>11 DEF OriginFails
  <2>3. /\ live' \subseteq live /\ pc'[s] = place
        /\ \A t \in Streams : t # s => /\ pc'[t] = "absent" <=> pc[t] = "absent"
                                       /\ pc[t] = "gone" => pc'[t] = "gone"
    BY <1>9, <2>1, <2>2
  <2> QED
    BY <1>5, <2>2, <2>3
<1>12. CASE ReceiveStreamCredit \/ ReceiveChannelCredit \/ ReceiveRequestAbort
  <2>1. /\ down # <<>> /\ down' = Tail(down) /\ UNCHANGED <<sent, up>> /\ live' \subseteq live
        /\ pc' = pc \/ pc' = Woken
    BY <1>12 DEF ReceiveStreamCredit, ReceiveChannelCredit, ReceiveRequestAbort, ToClient
  <2>2. \A t \in Streams : /\ pc'[t] = "absent" <=> pc[t] = "absent"
                           /\ pc[t] = "gone" => pc'[t] = "gone"
    BY <2>1 DEF Woken
  <2> QED
    BY <1>5, <2>1, <2>2
<1> QED
  BY <1>3, <1>4, <1>7, <1>8, <1>10, <1>11, <1>12 DEF ClientStep, ClientReceives, Coroutine

-----------------------------------------------------------------------------
(* The link: what the server does to it.                                       *)

\* The frame in front is the next one of its stream.
LEMMA HeadInSequence ==
    ASSUME SafeInv, LinkInv, up # <<>>, NEW s \in Streams, Open(s), Head(up).id = s
    PROVE  /\ Head(up).type = "data" => Head(up) = Chunk(s, next[s]) /\ next[s] < sent[s]
           /\ Head(up).type = "end" => Head(up).last = next[s] - 1
<1>1. /\ up \in Seq(UpFrame) /\ next[s] \in Nat /\ sent[s] \in Nat
      /\ Sorted(up) /\ DataInv(s) /\ EndInv(s)
  BY DEF SafeInv, ClientInv, ServerInv, LinkInv
<1>2. /\ Head(up) \in UpFrame /\ Range(up) = Range(Tail(up)) \cup {Head(up)}
      /\ \A f \in Range(Tail(up)) : Follows(Head(up), f)
  BY <1>1, Popped
<1>3. next[s] < sent[s] => Chunk(s, next[s]) \in Range(up)
  <2>1. next[s] < sent[s] => next[s] \in next[s] .. sent[s] - 1
    BY <1>1
  <2> QED
    BY <1>1, <2>1 DEF DataInv
<1>4. ASSUME Head(up).type = "data"
      PROVE  Head(up) = Chunk(s, next[s]) /\ next[s] < sent[s]
  <2>1. PICK n : n = Head(up).seq
    OBVIOUS
  <2>2. n \in Nat /\ Head(up) = Chunk(s, n)
    BY <1>2, <1>4, <2>1 DEF UpFrame, DataFrame, Chunk
  <2>3. n < sent[s] /\ next[s] <= n
    BY <1>1, <1>2, <1>4, <2>1 DEF DataInv
  <2>4. next[s] < sent[s]
    BY <1>1, <2>2, <2>3
  <2>5. n = next[s]
    <3> SUFFICES ASSUME next[s] # n PROVE FALSE
      OBVIOUS
    <3>1. Chunk(s, next[s]) # Head(up)
      BY <2>2 DEF Chunk
    <3>2. Follows(Head(up), Chunk(s, next[s]))
      BY <1>2, <1>3, <2>4, <3>1
    <3>3. n < next[s]
      BY <1>4, <2>1, <3>2 DEF Follows, Chunk
    <3> QED
      BY <1>1, <2>2, <2>3, <3>3
  <2> QED
    BY <2>2, <2>4, <2>5
<1>5. ASSUME Head(up).type = "end"
      PROVE  Head(up).last = next[s] - 1
  <2>1. Head(up).last = sent[s] - 1
    BY <1>1, <1>2, <1>5 DEF EndInv
  <2>2. ~(next[s] < sent[s])
    <3> SUFFICES ASSUME next[s] < sent[s] PROVE FALSE
      OBVIOUS
    <3>1. Chunk(s, next[s]) # Head(up)
      BY <1>5 DEF Chunk
    <3>2. Follows(Head(up), Chunk(s, next[s]))
      BY <1>2, <1>3, <3>1
    <3> QED
      BY <1>5, <3>2 DEF Follows, Chunk
  <2> QED
    BY <1>1, <2>1, <2>2 DEF DataInv
<1> QED
  BY <1>4, <1>5

\* A server step that asks for nothing; it may take the frame in front.
LEMMA ServerKeepsLink ==
    ASSUME SafeInv, LinkInv, UNCHANGED <<pc, live, sent>>,
           \A s \in Streams : /\ phase'[s] = "absent" <=> phase[s] = "absent"
                              /\ Open(s)' => Open(s)
                              /\ Ask(s) \in Range(down') => Ask(s) \in Range(down),
           Once(down'),
           \/ up' = up /\ next' = next
           \/ /\ up # <<>> /\ up' = Tail(up)
              /\ \A s \in Streams :
                     \/ /\ next'[s] = next[s]
                        /\ Open(s)' => ~(Head(up).type = "data" /\ Head(up).id = s)
                     \/ /\ next'[s] = next[s] + 1
                        /\ Head(up) = Chunk(s, next[s])
    PROVE  LinkInv'
<1>1. /\ up \in Seq(UpFrame) /\ next \in [Streams -> Nat] /\ sent \in [Streams -> Nat]
      /\ Sorted(up) /\ \A s \in Streams : FreshInv(s) /\ DataInv(s) /\ EndInv(s)
  BY DEF SafeInv, ClientInv, ServerInv, LinkInv
<1>2. Range(up') \subseteq Range(up) /\ Sorted(up')
  <2>1. up # <<>> => Range(up) = Range(Tail(up)) \cup {Head(up)} /\ Sorted(Tail(up))
    BY <1>1, Popped
  <2> QED
    BY <1>1, <2>1
<1> SUFFICES ASSUME NEW s \in Streams
             PROVE  FreshInv(s)' /\ DataInv(s)' /\ EndInv(s)'
  BY <1>2 DEF LinkInv
<1>3. EndInv(s)'
  BY <1>1, <1>2 DEF EndInv
<1>4. CASE next'[s] = next[s]
  <2>1. FreshInv(s)'
    BY <1>1, <1>2, <1>4 DEF FreshInv, Ask
  <2>2. DataInv(s)'
    <3>1. next'[s] <= sent'[s]
      BY <1>1, <1>4 DEF DataInv
    <3>2. \A f \in Range(up') : f.type = "data" /\ f.id = s =>
              f.seq < sent'[s] /\ (Open(s)' => next'[s] <= f.seq)
      BY <1>1, <1>2, <1>4 DEF DataInv
    <3>3. Open(s)' => \A n \in next'[s] .. sent'[s] - 1 : Chunk(s, n) \in Range(up')
      <4> SUFFICES ASSUME Open(s)', NEW n \in next[s] .. sent[s] - 1
                   PROVE  Chunk(s, n) \in Range(up')
        BY <1>4
      <4>1. Chunk(s, n) \in Range(up)
        BY <1>1 DEF DataInv
      <4>2. CASE up' = up
        BY <4>1, <4>2
      <4>3. CASE up # <<>> /\ up' = Tail(up) /\ ~(Head(up).type = "data" /\ Head(up).id = s)
        <5>1. Range(up) = Range(Tail(up)) \cup {Head(up)}
          BY <1>1, <4>3, Popped
        <5>2. Chunk(s, n) # Head(up)
          BY <4>3 DEF Chunk
        <5> QED
          BY <4>1, <4>3, <5>1, <5>2
      <4>4. ~(next'[s] = next[s] + 1)
        BY <1>1, <1>4
      <4> QED
        BY <4>2, <4>3, <4>4
    <3> QED
      BY <3>1, <3>2, <3>3 DEF DataInv, Chunk
  <2> QED
    BY <1>3, <2>1, <2>2
<1>5. CASE /\ next'[s] = next[s] + 1 /\ Head(up) = Chunk(s, next[s])
           /\ up # <<>> /\ up' = Tail(up)
  <2>1. /\ Range(up) = Range(Tail(up)) \cup {Head(up)}
        /\ \A f \in Range(Tail(up)) : Follows(Head(up), f)
    BY <1>1, <1>5, Popped
  <2>2. /\ Head(up) \in Range(up) /\ Head(up).type = "data" /\ Head(up).id = s
        /\ Head(up).seq = next[s] /\ next[s] \in Nat /\ sent[s] \in Nat
    BY <1>1, <1>5, <2>1 DEF Chunk
  <2>3. pc[s] # "absent" /\ next[s] < sent[s]
    BY <1>1, <2>2 DEF FreshInv, DataInv
  <2>4. FreshInv(s)'
    BY <1>1, <2>3 DEF FreshInv, Ask
  <2>5. next'[s] <= sent'[s]
    BY <1>5, <2>2, <2>3
  <2>6. \A f \in Range(up') : f.type = "data" /\ f.id = s =>
            f.seq < sent'[s] /\ (Open(s)' => next'[s] <= f.seq)
    <3> SUFFICES ASSUME NEW f \in Range(up'), f.type = "data", f.id = s
                 PROVE  f.seq < sent[s] /\ next'[s] <= f.seq
      OBVIOUS
    <3>1. f \in Range(up) /\ Follows(Head(up), f)
      BY <1>5, <2>1
    <3>2. f \in UpFrame
      BY <1>1, <3>1 DEF Range
    <3>3. f.seq \in Nat
      BY <3>2 DEF UpFrame, DataFrame
    <3>4. next[s] < f.seq
      BY <2>2, <3>1 DEF Follows
    <3>5. f.seq < sent[s]
      BY <1>1, <3>1 DEF DataInv
    <3> QED
      BY <1>5, <2>2, <3>3, <3>4, <3>5
  <2>7. Open(s)' => \A n \in next'[s] .. sent'[s] - 1 : Chunk(s, n) \in Range(up')
    <3> SUFFICES ASSUME Open(s)', NEW n \in next[s] + 1 .. sent[s] - 1
                 PROVE  Chunk(s, n) \in Range(up')
      BY <1>5
    <3>1. n \in next[s] .. sent[s] - 1 /\ n # next[s]
      BY <2>2
    <3>2. Chunk(s, n) \in Range(up)
      BY <1>1, <3>1 DEF DataInv
    <3>3. Chunk(s, n) # Head(up)
      BY <2>2, <3>1 DEF Chunk
    <3> QED
      BY <1>5, <2>1, <3>2, <3>3
  <2> QED
    BY <1>3, <2>4, <2>5, <2>6, <2>7 DEF DataInv, Chunk
<1> QED
  BY <1>4, <1>5

\* A new stream has nothing in flight.
LEMMA PublicRequestLink ==
    ASSUME SafeInv, LinkInv, NEW s \in Streams, PublicRequest(s)
    PROVE  LinkInv'
<1>1. PICK f : f = Ask(s)
  OBVIOUS
<1>2. /\ down \in Seq(DownFrame) /\ phase \in [Streams -> Phase]
      /\ Sorted(up) /\ Once(down) /\ \A t \in Streams : FreshInv(t) /\ DataInv(t) /\ EndInv(t)
  BY DEF SafeInv, ServerInv, LinkInv
<1>3. /\ phase[s] = "absent" /\ phase' = [phase EXCEPT ![s] = "waiting"]
      /\ down' = Append(down, f)
      /\ UNCHANGED <<pc, live, sent, up, next>>
  BY <1>1 DEF PublicRequest, Ask, client
<1>4. f \in DownFrame /\ f \notin Range(down) /\ pc[s] = "absent"
  BY <1>1, <1>2, <1>3 DEF DownFrame, Ask, FreshInv
<1>5. /\ sent[s] = 0 /\ next[s] = 0 /\ s \notin live /\ \A g \in Range(up) : g.id # s
  BY <1>2, <1>4 DEF FreshInv
<1>6. Once(down')
  <2>1. Once(Append(down, f))
    BY <1>2, <1>4, PushedOnce
  <2> QED
    BY <1>3, <2>1
<1>7. Range(down') = Range(down) \cup {f}
  <2>1. Range(Append(down, f)) = Range(down) \cup {f}
    BY <1>2, <1>4, Pushed
  <2> QED
    BY <1>3, <2>1
<1>8. ASSUME NEW t \in Streams, t # s PROVE FreshInv(t)' /\ DataInv(t)' /\ EndInv(t)'
  <2>1. phase'[t] = phase[t] /\ Ask(t) # f /\ (Open(t)' <=> Open(t))
    BY <1>1, <1>2, <1>3, <1>8 DEF Ask, Open
  <2> QED
    BY <1>2, <1>3, <1>7, <2>1 DEF FreshInv, DataInv, EndInv, Ask, Chunk
<1>9. FreshInv(s)' /\ EndInv(s)'
  BY <1>2, <1>3, <1>4, <1>5 DEF FreshInv, EndInv
<1>10. DataInv(s)'
  <2>1. sent'[s] = 0 /\ next'[s] = 0 /\ \A g \in Range(up') : g.id # s
    BY <1>3, <1>5
  <2>2. 0 .. 0 - 1 = {}
    OBVIOUS
  <2> QED
    BY <2>1, <2>2 DEF DataInv
<1> QED
  BY <1>2, <1>3, <1>6, <1>8, <1>9, <1>10 DEF LinkInv

-----------------------------------------------------------------------------
(* What was received: accepted, then pending.                                  *)

QueuesInv == \A s \in Streams : QueueInv(s)

\* A stream that is cleaned up has nothing pending.
LEMMA CleanedQueues ==
    ASSUME SafeInv, QueuesInv, NEW S \in SUBSET Streams, CleanUpStreams(S), accepted' = accepted,
           \A t \in Streams : /\ next'[t] \in Nat /\ next[t] <= next'[t]
                              /\ t \notin S => next'[t] = next[t] /\ unread'[t] = unread[t]
    PROVE  QueuesInv'
<1> SUFFICES ASSUME NEW t \in Streams PROVE QueueInv(t)'
  BY DEF QueuesInv
<1>1. /\ QueueInv(t) /\ accepted[t] \in Seq(Nat) /\ next[t] \in Nat
  BY DEF QueuesInv, SafeInv, ServerInv
<1>2. /\ phase'[t] = IF t \in S THEN "closed" ELSE phase[t]
      /\ pending'[t] = IF t \in S THEN <<>> ELSE pending[t]
  BY DEF CleanUpStreams
<1>3. Taken(t) \in Nat /\ Taken(t)' = Taken(t)
  BY <1>1 DEF Taken
<1>4. CASE t \in S
  <2>1. /\ phase'[t] = "closed" /\ pending'[t] = <<>> /\ ~Open(t)'
    BY <1>2, <1>4 DEF Open
  <2>2. accepted'[t] = Run(0, Taken(t)') /\ Taken(t)' <= next'[t]
    <3>1. Taken(t) <= next[t] /\ accepted[t] = Run(0, Taken(t))
      BY <1>1 DEF QueueInv
    <3> QED
      BY <1>1, <1>3, <3>1
  <2> QED
    BY <2>1, <2>2 DEF QueueInv
<1>5. CASE t \notin S
  BY <1>1, <1>2, <1>3, <1>5 DEF QueueInv, Open
<1> QED
  BY <1>4, <1>5

\* The chunks the public body pulls follow what it has.
LEMMA Pulls ==
    ASSUME SafeInv, QueuesInv, NEW s \in Streams, NEW left \in 0..HighWater, Open(s)
    PROVE  \E k, m, n \in Nat :
               /\ k = Taken(s) /\ m = next[s] - k /\ k + m = next[s]
               /\ n = Pulled(s, HighWater - left) /\ n \in 0..m /\ (n # m => left + n = HighWater)
               /\ accepted[s] = Run(0, k) /\ pending[s] = Run(k, m) /\ Len(pending[s]) = m
               /\ SubSeq(pending[s], 1, n) = Run(k, n)
               /\ SubSeq(pending[s], n + 1, m) = Run(k + n, m - n)
<1>1. /\ accepted \in [Streams -> Seq(Nat)] /\ HighWater \in Nat /\ next[s] \in Nat
      /\ QueueInv(s)
  BY LimitsAssumption DEF QueuesInv, SafeInv, ServerInv
<1>0. PICK k, m, n : k = Taken(s) /\ m = next[s] - k /\ n = Pulled(s, HighWater - left)
  OBVIOUS
<1>2. /\ k \in Nat /\ m \in Nat /\ k + m = next[s]
      /\ accepted[s] = Run(0, k) /\ pending[s] = Run(k, m)
  <2>1. k \in Nat
    BY <1>0, <1>1 DEF Taken
  <2>2. accepted[s] = Run(0, k) /\ k <= next[s] /\ pending[s] = Run(k, m)
    BY <1>0, <1>1 DEF QueueInv
  <2>3. PICK x : x = next[s]
    OBVIOUS
  <2>4. x \in Nat /\ k <= x /\ m = x - k
    BY <1>0, <1>1, <2>2, <2>3
  <2>5. m \in Nat /\ k + m = x
    BY <2>1, <2>4
  <2> QED
    BY <2>1, <2>2, <2>3, <2>5
<1>3. Len(pending[s]) = m
  <2>1. Len(Run(k, m)) = m
    BY <1>2, RunFacts, Zenon
  <2> QED
    BY <1>2, <2>1
<1>4. n \in 0..m /\ n \in Nat /\ (n # m => left + n = HighWater)
  <2>1. n = IF m < HighWater - left THEN m ELSE HighWater - left
    BY <1>0, <1>3 DEF Pulled
  <2> QED
    BY <1>1, <1>2, <2>1
<1>5. SubSeq(pending[s], 1, n) = Run(k, n) /\ SubSeq(pending[s], n + 1, m) = Run(k + n, m - n)
  <2>1. SubSeq(Run(k, m), 1, n) = Run(k, n) /\ SubSeq(Run(k, m), n + 1, m) = Run(k + n, m - n)
    BY <1>2, <1>4, RunCut, Zenon
  <2> QED
    BY <1>2, <2>1
<1> QED
  BY <1>0, <1>2, <1>3, <1>4, <1>5

\* flushPendingResponseChunks delivers the pending chunks in order.
LEMMA FlushedQueues ==
    ASSUME SafeInv, QueuesInv, NEW s \in Streams, NEW left \in 0..HighWater, Flush(s, left),
           Open(s), phase'[s] = "open", \A t \in Streams : t # s => phase'[t] = phase[t],
           next' = next
    PROVE  QueuesInv'
<1>1. /\ accepted \in [Streams -> Seq(Nat)] /\ pending \in [Streams -> Seq(Nat)]
      /\ unread \in [Streams -> 0..HighWater] /\ HighWater \in Nat /\ next[s] \in Nat
      /\ \A t \in Streams : QueueInv(t)
  BY LimitsAssumption DEF QueuesInv, SafeInv, ServerInv
<1>0. PICK k, m, n \in Nat :
          /\ k = Taken(s) /\ m = next[s] - k /\ k + m = next[s]
          /\ n = Pulled(s, HighWater - left) /\ n \in 0..m /\ (n # m => left + n = HighWater)
          /\ accepted[s] = Run(0, k) /\ pending[s] = Run(k, m) /\ Len(pending[s]) = m
          /\ SubSeq(pending[s], 1, n) = Run(k, n)
          /\ SubSeq(pending[s], n + 1, m) = Run(k + n, m - n)
  BY Pulls
<1>2. /\ k \in Nat /\ m \in Nat /\ k + m = next[s]
      /\ accepted[s] = Run(0, k) /\ pending[s] = Run(k, m)
  BY <1>0
<1>3. Len(pending[s]) = m
  BY <1>0
<1>4. n \in 0..m /\ n \in Nat /\ m - n \in Nat /\ (n # m => left + n = HighWater)
  <2>1. n \in 0..m /\ (n # m => left + n = HighWater)
    BY <1>0, Zenon
  <2>2. n \in Nat /\ m - n \in Nat
    BY <2>1
  <2> QED
    BY <2>1, <2>2, Zenon
<1>5. SubSeq(pending[s], 1, n) = Run(k, n) /\ SubSeq(pending[s], n + 1, m) = Run(k + n, m - n)
  BY <1>0
<1>6. /\ accepted' = [accepted EXCEPT ![s] = @ \o SubSeq(pending[s], 1, n)]
      /\ unread' = [unread EXCEPT ![s] = left + n]
      /\ pending' = [pending EXCEPT ![s] = SubSeq(@, n + 1, Len(@))]
  BY <1>0 DEF Flush, Accept
<1>7. /\ accepted'[s] = Run(0, k) \o Run(k, n) /\ unread'[s] = left + n
      /\ pending'[s] = Run(k + n, m - n)
      /\ \A t \in Streams : t # s => /\ accepted'[t] = accepted[t] /\ unread'[t] = unread[t]
                                     /\ pending'[t] = pending[t]
  BY <1>1, <1>2, <1>3, <1>5, <1>6
<1>8. accepted'[s] = Run(0, k + n)
  <2>1. Run(0, k + n) = Run(0, k) \o Run(k, n)
    BY <1>2, <1>4, RunStart, Zenon
  <2> QED
    BY <1>7, <2>1, Zenon
<1>9. k + n \in Nat /\ 0 \in Nat /\ k + n <= next[s] /\ next[s] - (k + n) = m - n
  BY <1>2, <1>4
<1>10. Taken(s)' = k + n
  BY <1>8, <1>9, RunStart DEF Taken
<1>11. QueueInv(s)'
  <2>1. Open(s)' /\ next'[s] = next[s]
    BY DEF Open
  <2>2. accepted'[s] = Run(0, Taken(s)') /\ Taken(s)' <= next'[s]
    BY <1>8, <1>9, <1>10
  <2>3. pending'[s] = Run(Taken(s)', next'[s] - Taken(s)')
    BY <1>7, <1>9, <1>10
  <2>4. pending'[s] # <<>> => unread'[s] = HighWater
    <3>1. n = m => m - n = 0 /\ Run(k + n, 0) = <<>>
      BY <1>2, <1>9, RunFacts
    <3> QED
      BY <1>4, <1>7, <3>1
  <2> QED
    BY <2>1, <2>2, <2>3, <2>4 DEF QueueInv
<1>12. ASSUME NEW t \in Streams, t # s PROVE QueueInv(t)'
  <2>1. /\ accepted'[t] = accepted[t] /\ unread'[t] = unread[t] /\ next'[t] = next[t]
        /\ pending'[t] = pending[t] /\ phase'[t] = phase[t] /\ QueueInv(t)
    BY <1>1, <1>7, <1>12
  <2> QED
    BY <2>1 DEF QueueInv, Open, Taken
<1> QED
  BY <1>11, <1>12 DEF QueuesInv

\* There is room in the public body: nothing is pending.
LEMMA NothingPending ==
    ASSUME SafeInv, QueuesInv, NEW s \in Streams, Room(s) > 0
    PROVE  /\ phase[s] = "open" /\ unread[s] # HighWater /\ pending[s] = <<>>
           /\ Taken(s) \in Nat /\ accepted[s] = Run(0, Taken(s)) /\ Taken(s) = next[s]
<1>1. /\ accepted \in [Streams -> Seq(Nat)] /\ HighWater \in Nat /\ next[s] \in Nat
      /\ unread[s] \in 0..HighWater /\ QueueInv(s)
  BY LimitsAssumption DEF QueuesInv, SafeInv, ServerInv
<1>4. phase[s] = "open" /\ unread[s] # HighWater
  <2>1. PICK u : u = unread[s]
    OBVIOUS
  <2>2. (IF phase[s] = "open" THEN HighWater - u ELSE 0) > 0
    BY <2>1 DEF Room
  <2>3. phase[s] = "open" /\ HighWater - u > 0
    BY <2>2
  <2> QED
    BY <1>1, <2>1, <2>3
<1>5. pending[s] = <<>> /\ Open(s)
  BY <1>1, <1>4 DEF QueueInv, Open
<1>6. PICK k : k = Taken(s)
  OBVIOUS
<1>7. k \in Nat /\ accepted[s] = Run(0, k) /\ k = next[s]
  <2>1. k \in Nat
    BY <1>1, <1>6 DEF Taken
  <2>2. /\ accepted[s] = Run(0, k) /\ k <= next[s] /\ Run(k, next[s] - k) = <<>>
    BY <1>1, <1>5, <1>6 DEF QueueInv
  <2>3. next[s] - k \in Nat
    BY <1>1, <2>1, <2>2
  <2>4. Len(<<>>) = next[s] - k
    BY <2>1, <2>2, <2>3, RunFacts
  <2>5. next[s] - k = 0
    BY <2>4
  <2> QED
    BY <1>1, <2>1, <2>2, <2>5
<1> QED
  BY <1>4, <1>5, <1>6, <1>7

\* The next chunk is delivered, or is pending.
LEMMA DeliveredQueues ==
    ASSUME SafeInv, QueuesInv, up # <<>>, NEW s \in Streams, Open(s), Head(up).seq = next[s],
           DeliverChunk(s)
    PROVE  QueuesInv'
<1>1. /\ accepted \in [Streams -> Seq(Nat)] /\ unread \in [Streams -> 0..HighWater]
      /\ HighWater \in Nat /\ next \in [Streams -> Nat] /\ next[s] \in Nat
      /\ unread[s] \in 0..HighWater /\ \A t \in Streams : QueueInv(t)
  BY LimitsAssumption DEF QueuesInv, SafeInv, ServerInv
<1>2. PICK one : one = <<next[s]>>
  OBVIOUS
<1>3. /\ accepted' = [accepted EXCEPT ![s] = @ \o one]
      /\ unread' = [unread EXCEPT ![s] = @ + 1] /\ next' = [next EXCEPT ![s] = @ + 1]
      /\ UNCHANGED <<phase, pending>> /\ Room(s) > 0
  BY <1>2 DEF DeliverChunk, Accept
<1>5. pending[s] = <<>>
  BY <1>3, NothingPending
<1>6. PICK k : k = Taken(s)
  OBVIOUS
<1>7. k \in Nat /\ accepted[s] = Run(0, k) /\ k = next[s]
  BY <1>3, <1>6, NothingPending
<1>8. accepted'[s] = Run(0, k + 1)
  <2>1. Run(0, k + 1) = Run(0, k) \o <<k>>
    BY <1>7, RunStart, Zenon
  <2>2. accepted'[s] = accepted[s] \o one
    BY <1>1, <1>3
  <2> QED
    BY <1>2, <1>7, <2>1, <2>2
<1>9. Taken(s)' = k + 1
  <2>1. k + 1 \in Nat
    BY <1>7
  <2>2. Len(Run(0, k + 1)) = k + 1
    BY <2>1, RunStart, Zenon
  <2> QED
    BY <1>8, <2>2 DEF Taken
<1>10. QueueInv(s)'
  <2>1. next'[s] = k + 1 /\ pending'[s] = <<>> /\ (k + 1) - (k + 1) = 0 /\ k + 1 \in Nat
    BY <1>1, <1>3, <1>5, <1>7
  <2>2. Run(k + 1, 0) = <<>>
    BY <2>1, RunFacts
  <2>3. pending'[s] = Run(Taken(s)', next'[s] - Taken(s)')
    BY <1>9, <2>1, <2>2
  <2>4. Open(s)'
    BY <1>3 DEF Open
  <2>5. Taken(s)' <= next'[s]
    BY <1>9, <2>1
  <2> QED
    BY <1>8, <1>9, <2>1, <2>3, <2>4, <2>5 DEF QueueInv
<1>11. ASSUME NEW t \in Streams, t # s PROVE QueueInv(t)'
  <2>1. /\ accepted'[t] = accepted[t] /\ unread'[t] = unread[t] /\ next'[t] = next[t]
        /\ pending'[t] = pending[t] /\ phase'[t] = phase[t] /\ QueueInv(t)
    BY <1>1, <1>3, <1>11
  <2> QED
    BY <2>1 DEF QueueInv, Open, Taken
<1> QED
  BY <1>10, <1>11 DEF QueuesInv

\* The chunk that waits is the one after those pending.
LEMMA BufferedQueues ==
    ASSUME SafeInv, QueuesInv, up # <<>>, NEW s \in Streams, Open(s), Head(up).seq = next[s],
           BufferChunk(s)
    PROVE  QueuesInv'
<1>1. /\ accepted \in [Streams -> Seq(Nat)] /\ unread \in [Streams -> 0..HighWater]
      /\ pending \in [Streams -> Seq(Nat)]
      /\ HighWater \in Nat /\ next \in [Streams -> Nat] /\ next[s] \in Nat
      /\ unread[s] \in 0..HighWater /\ \A t \in Streams : QueueInv(t)
  BY LimitsAssumption DEF QueuesInv, SafeInv, ServerInv
<1>2. /\ pending' = [pending EXCEPT ![s] = Append(@, next[s])]
      /\ next' = [next EXCEPT ![s] = @ + 1]
      /\ UNCHANGED <<phase, accepted, unread>> /\ Room(s) = 0
  BY DEF BufferChunk, Consume, response
<1>3. phase[s] = "open" => unread[s] = HighWater
  <2>1. PICK u : u = unread[s]
    OBVIOUS
  <2>2. phase[s] = "open" => HighWater - u = 0
    BY <1>2, <2>1 DEF Room
  <2> QED
    BY <1>1, <2>1, <2>2
<1>4. PICK k, m : k = Taken(s) /\ m = next[s] - k
  OBVIOUS
<1>5. k \in Nat /\ m \in Nat /\ k + m = next[s] /\ accepted[s] = Run(0, k) /\ pending[s] = Run(k, m)
  <2>1. k \in Nat
    BY <1>1, <1>4 DEF Taken
  <2>2. accepted[s] = Run(0, k) /\ k <= next[s] /\ pending[s] = Run(k, m)
    BY <1>1, <1>4 DEF QueueInv
  <2>3. PICK x : x = next[s]
    OBVIOUS
  <2>4. x \in Nat /\ k <= x /\ m = x - k
    BY <1>1, <1>4, <2>2, <2>3
  <2>5. m \in Nat /\ k + m = x
    BY <2>1, <2>4
  <2> QED
    BY <2>1, <2>2, <2>3, <2>5
<1>6. pending'[s] = Run(k, m + 1)
  <2>1. Run(k, m + 1) = Append(Run(k, m), k + m)
    BY <1>5, RunNext
  <2>2. pending'[s] = Append(pending[s], next[s])
    BY <1>1, <1>2
  <2> QED
    BY <1>5, <2>1, <2>2
<1>7. next'[s] = next[s] + 1 /\ (next[s] + 1) - k = m + 1 /\ k <= next[s] + 1
  <2>1. next'[s] = next[s] + 1
    BY <1>1, <1>2
  <2>2. PICK x : x = next[s]
    OBVIOUS
  <2>3. (x + 1) - k = m + 1 /\ k <= x + 1
    BY <1>5, <2>2
  <2> QED
    BY <2>1, <2>2, <2>3
<1>8. Taken(s)' = k /\ Open(s)' /\ phase'[s] = phase[s] /\ unread'[s] = unread[s]
  BY <1>2, <1>4 DEF Taken, Open
<1>9. QueueInv(s)'
  BY <1>2, <1>3, <1>5, <1>6, <1>7, <1>8 DEF QueueInv
<1>10. ASSUME NEW t \in Streams, t # s PROVE QueueInv(t)'
  <2>1. /\ accepted'[t] = accepted[t] /\ unread'[t] = unread[t] /\ next'[t] = next[t]
        /\ pending'[t] = pending[t] /\ phase'[t] = phase[t] /\ QueueInv(t)
    BY <1>1, <1>2, <1>10
  <2> QED
    BY <2>1 DEF QueueInv, Open, Taken
<1> QED
  BY <1>9, <1>10 DEF QueuesInv

-----------------------------------------------------------------------------
(* Order, step by step.                                                        *)

\* A step of the server asks for no stream: what it adds to the link is no request.
NoAsk == Once(down') /\ \A t \in Streams : Ask(t) \in Range(down') => Ask(t) \in Range(down)

\* Frames of the server other than requests repeat no request, ...
LEMMA Behind ==
    ASSUME SafeInv, LinkInv, NEW more \in Seq(DownFrame), down' = down \o more,
           \A f \in Range(more) : f.type # "request"
    PROVE  NoAsk
<1>1. down \in Seq(DownFrame) /\ Once(down)
  BY DEF SafeInv, ServerInv, LinkInv
<1>2. Once(down \o more) /\ Range(down \o more) = Range(down) \cup Range(more)
  BY <1>1, Joined
<1> QED
  BY <1>2 DEF NoAsk, Ask

\* ... credits among them.
LEMMA GrantsBehind ==
    ASSUME SafeInv, LinkInv, NEW s \in Streams, NEW chunks \in Seq(Chunks(s)),
           down' = down \o Grants(s, chunks)
    PROVE  NoAsk
<1>1. Grants(s, chunks) \in Seq(DownFrame) /\ Grants(s, chunks) \in Seq(CreditFrame(s))
  BY GrantsFacts
<1>2. PICK more : more = Grants(s, chunks)
  OBVIOUS
<1>3. \A f \in Range(more) : f \in CreditFrame(s)
  BY <1>1, <1>2 DEF Range
<1>4. \A f \in Range(more) : f.type # "request"
  BY <1>3 DEF CreditFrame
<1> QED
  BY <1>1, <1>2, <1>4, Behind

\* Registered streams end.
LEMMA CleanedOrder ==
    ASSUME SafeInv, OrderInv, NEW S \in SUBSET Streams, CleanUpStreams(S),
           UNCHANGED <<pc, live, sent, accepted>>, NoAsk, fault' # "protocol.error",
           \A t \in Streams : IF t \in S THEN Open(t) ELSE unread'[t] = unread[t],
           next' \in [Streams -> Nat],
           \/ up' = up /\ next' = next
           \/ /\ up # <<>> /\ up' = Tail(up) /\ Head(up).id \in S
              /\ \A t \in Streams :
                     \/ next'[t] = next[t]
                     \/ t \in S /\ next'[t] = next[t] + 1 /\ Head(up) = Chunk(t, next[t])
    PROVE  OrderInv'
<1>1. LinkInv /\ QueuesInv /\ next \in [Streams -> Nat]
  BY DEF OrderInv, QueuesInv, SafeInv, ServerInv
<1>2. \A t \in Streams : phase'[t] = IF t \in S THEN "closed" ELSE phase[t]
  BY DEF CleanUpStreams
<1>3. \A t \in Streams : /\ phase'[t] = "absent" <=> phase[t] = "absent"
                         /\ Open(t)' => (Open(t) /\ t \notin S)
  BY <1>2 DEF Open
<1>4. LinkInv'
  BY <1>1, <1>3, ServerKeepsLink DEF NoAsk
<1>5. \A t \in Streams : /\ next'[t] \in Nat /\ next[t] <= next'[t]
                         /\ t \notin S => next'[t] = next[t] /\ unread'[t] = unread[t]
  <2> SUFFICES ASSUME NEW t \in Streams
               PROVE  /\ next'[t] \in Nat /\ next[t] <= next'[t]
                      /\ t \notin S => next'[t] = next[t] /\ unread'[t] = unread[t]
    OBVIOUS
  <2>1. next[t] \in Nat /\ next'[t] \in Nat
    BY <1>1
  <2>2. next'[t] = next[t] \/ (t \in S /\ next'[t] = next[t] + 1)
    OBVIOUS
  <2> QED
    BY <2>1, <2>2
<1>6. QueuesInv'
  BY <1>1, <1>5, CleanedQueues
<1> QED
  BY <1>4, <1>6 DEF OrderInv, QueuesInv, NoProtocolError

\* The public body pulls.
LEMMA FlushedOrder ==
    ASSUME SafeInv, OrderInv, NEW s \in Streams, NEW left \in 0..HighWater, Flush(s, left),
           Open(s), phase'[s] = "open", \A t \in Streams : t # s => phase'[t] = phase[t],
           UNCHANGED <<pc, live, sent, next, fault>>,
           \/ up' = up
           \/ up # <<>> /\ up' = Tail(up) /\ Head(up).type # "data"
    PROVE  OrderInv'
<1>1. LinkInv /\ QueuesInv /\ NoProtocolError
  BY DEF OrderInv, QueuesInv
<1>2. QueuesInv'
  BY <1>1, FlushedQueues
<1>3. PICK chunks \in Seq(Chunks(s)) : down' = down \o Grants(s, chunks)
  <2>1. pending[s] \in Seq(Chunks(s)) /\ HighWater - left \in Nat
    BY LimitsAssumption DEF SafeInv, ServerInv, Queues
  <2>2. Pulled(s, HighWater - left) \in 0..Len(pending[s])
    BY <2>1 DEF Pulled
  <2>3. SubSeq(pending[s], 1, Pulled(s, HighWater - left)) \in Seq(Chunks(s))
    BY <2>1, <2>2, BytesFacts
  <2> QED
    BY <2>3 DEF Flush, Accept
<1>4. NoAsk
  BY <1>1, <1>3, GrantsBehind
<1>5. \A t \in Streams : /\ phase'[t] = "absent" <=> phase[t] = "absent"
                         /\ Open(t)' => Open(t)
  BY DEF Open
<1>6. LinkInv'
  BY <1>1, <1>4, <1>5, ServerKeepsLink DEF NoAsk
<1> QED
  BY <1>1, <1>2, <1>6 DEF OrderInv, QueuesInv, NoProtocolError

\* A data frame is the next one of its stream, wherever it goes.
LEMMA DataOrder ==
    ASSUME SafeInv, OrderInv, NEW s \in Streams, ReceiveData(s)
    PROVE  OrderInv'
<1>1. /\ up # <<>> /\ Head(up).type = "data" /\ Head(up).id = s /\ Open(s) /\ up' = Tail(up)
      /\ UNCHANGED <<pc, live, sent>>
  BY DEF ReceiveData, ToServer, client
<1>2. /\ LinkInv /\ QueuesInv /\ NoProtocolError /\ Once(down) /\ next \in [Streams -> Nat]
  BY DEF OrderInv, QueuesInv, LinkInv, SafeInv, ServerInv
<1>3. Head(up) = Chunk(s, next[s]) /\ Head(up).seq = next[s]
  BY <1>1, <1>2, HeadInSequence DEF Chunk
<1>4. next[s] \in Chunks(s)
  BY <1>1, <1>3, FrameUp DEF SafeInv, ClientInv
<1>5. \A t \in Streams : t = s \/ Head(up).id # t
  BY <1>1
<1>6. next[s] + 1 \in Nat
  BY <1>2
<1>7. CASE Fail("credit.violation")
  <2>1. PICK S : S = {t \in Streams : Open(t)}
    OBVIOUS
  <2>2. /\ S \in SUBSET Streams /\ s \in S /\ \A t \in Streams : t \in S <=> Open(t)
    BY <1>1, <2>1
  <2>3. /\ CleanUpStreams(S) /\ fault' = "credit.violation"
        /\ UNCHANGED <<next, accepted, down>>
        /\ \A t \in Streams : t \notin S => unread'[t] = unread[t]
    BY <1>7, <2>1 DEF Fail, AbortStreams
  <2>4. NoAsk
    BY <1>2, <2>3 DEF NoAsk
  <2> QED
    BY <1>1, <1>2, <2>2, <2>3, <2>4, CleanedOrder
<1>8. InSequence(s, Head(up).seq)
  BY <1>3 DEF InSequence
<1>9. CASE RefuseChunk(s) /\ UNCHANGED fault
  <2>1. /\ CleanUpStreams({s}) /\ {s} \in SUBSET Streams
        /\ UNCHANGED <<down, accepted>> /\ next' = [next EXCEPT ![s] = @ + 1]
        /\ \A t \in Streams : t \notin {s} => unread'[t] = unread[t]
    BY <1>9 DEF RefuseChunk, AbortStreams
  <2>2. NoAsk /\ fault' # "protocol.error"
    BY <1>2, <1>9, <2>1 DEF NoAsk, NoProtocolError
  <2>3. next' \in [Streams -> Nat] /\ next'[s] = next[s] + 1
        /\ \A t \in Streams : t # s => next'[t] = next[t]
    BY <1>2, <1>6, <2>1
  <2> QED
    BY <1>1, <1>3, <2>1, <2>2, <2>3, CleanedOrder
<1>10. ASSUME DeliverChunk(s) \/ BufferChunk(s), UNCHANGED fault
       PROVE  OrderInv'
  <2>1. phase' = phase /\ next' = [next EXCEPT ![s] = @ + 1]
    BY <1>10 DEF DeliverChunk, BufferChunk, Consume
  <2>2. QueuesInv'
    BY <1>1, <1>2, <1>3, <1>10, DeliveredQueues, BufferedQueues
  <2>3. NoAsk
    <3>1. CASE DeliverChunk(s)
      <4>1. PICK one : one = <<next[s]>>
        OBVIOUS
      <4>2. one \in Seq(Chunks(s))
        BY <1>4, <4>1
      <4>3. down' = down \o Grants(s, <<Head(up).seq>>)
        BY <3>1 DEF DeliverChunk, Accept
      <4>4. down' = down \o Grants(s, one)
        BY <1>3, <4>1, <4>3, Zenon
      <4> QED
        BY <1>2, <4>2, <4>4, GrantsBehind
    <3>2. CASE BufferChunk(s)
      BY <1>2, <3>2 DEF BufferChunk, NoAsk
    <3> QED
      BY <1>10, <3>1, <3>2
  <2>4. \A t \in Streams : Open(t)' <=> Open(t)
    BY <2>1 DEF Open
  <2>5. next'[s] = next[s] + 1 /\ \A t \in Streams : t # s => next'[t] = next[t]
    BY <1>2, <2>1
  <2>6. LinkInv'
    BY <1>1, <1>2, <1>3, <1>5, <2>1, <2>3, <2>4, <2>5, ServerKeepsLink DEF NoAsk
  <2> QED
    BY <1>2, <1>10, <2>2, <2>6 DEF OrderInv, QueuesInv, NoProtocolError
<1> QED
  BY <1>7, <1>8, <1>9, <1>10 DEF ReceiveData

\* Every step of the server keeps the order.
LEMMA ServerOrder ==
    ASSUME SafeInv, OrderInv, ServerStep
    PROVE  OrderInv'
<1>1. /\ LinkInv /\ QueuesInv /\ NoProtocolError /\ Once(down) /\ next \in [Streams -> Nat]
      /\ UNCHANGED <<pc, live, sent>>
  <2>1. UNCHANGED client
    BY ServerSafe DEF SafeInv, ClientInv
  <2> QED
    BY <2>1 DEF OrderInv, QueuesInv, LinkInv, SafeInv, ServerInv, client
<1>2. CASE IgnoreFrame
  <2>1. /\ up # <<>> /\ ~Open(Head(up).id) /\ up' = Tail(up)
        /\ UNCHANGED <<down, phase, next, pending, accepted, unread, fault>>
    BY <1>2 DEF IgnoreFrame, server, response
  <2>2. LinkInv'
    <3>1. \A t \in Streams : /\ phase'[t] = "absent" <=> phase[t] = "absent"
                             /\ Open(t)' <=> Open(t)
                             /\ Open(t)' => Head(up).id # t
      BY <2>1 DEF Open
    <3> QED
      BY <1>1, <2>1, <3>1, ServerKeepsLink
  <2> QED
    BY <1>1, <2>1, <2>2 DEF OrderInv, QueuesInv, QueueInv, Open, Taken, NoProtocolError
<1>3. ASSUME NEW s \in Streams, PublicRequest(s) PROVE OrderInv'
  <2>1. LinkInv'
    BY <1>1, <1>3, PublicRequestLink
  <2>2. /\ phase[s] = "absent" /\ phase' = [phase EXCEPT ![s] = "waiting"]
        /\ UNCHANGED <<next, pending, accepted, unread, fault>>
    BY <1>3 DEF PublicRequest, response
  <2>3. phase \in [Streams -> Phase] /\ \A t \in Streams : QueueInv(t) /\ FreshInv(t)
    BY <1>1 DEF SafeInv, ServerInv, QueuesInv, LinkInv
  <2>4. QueueInv(s)'
    <3>1. next[s] = 0 /\ accepted[s] \in Seq(Nat)
      BY <2>2, <2>3 DEF FreshInv, SafeInv, ServerInv
    <3>2. Taken(s) = 0 /\ accepted[s] = Run(0, Taken(s)) /\ pending[s] = <<>>
      BY <2>2, <2>3, <3>1 DEF QueueInv, Open, Taken
    <3>3. phase'[s] = "waiting" /\ Taken(s)' = 0
      BY <2>2, <2>3, <3>2 DEF Taken
    <3>4. Run(0, 0 - 0) = <<>>
      BY RunFacts
    <3> QED
      BY <2>2, <3>1, <3>2, <3>3, <3>4 DEF QueueInv, Open
  <2>5. ASSUME NEW t \in Streams, t # s PROVE QueueInv(t)'
    <3>1. phase'[t] = phase[t] /\ QueueInv(t)
      BY <2>2, <2>3, <2>5
    <3> QED
      BY <2>2, <3>1 DEF QueueInv, Open, Taken
  <2> QED
    BY <1>1, <2>1, <2>2, <2>4, <2>5 DEF OrderInv, NoProtocolError
<1>4. ASSUME NEW s \in Streams, Read(s) PROVE OrderInv'
  <2>1. /\ unread[s] > 0 /\ UNCHANGED <<up, phase, next, fault>>
        /\ unread \in [Streams -> 0..HighWater] /\ HighWater \in Nat
    BY <1>4, LimitsAssumption DEF Read, SafeInv, ServerInv
  <2>2. CASE phase[s] = "open"
    <3>1. unread[s] - 1 \in 0..HighWater /\ Flush(s, unread[s] - 1) /\ Open(s)
      BY <1>4, <2>1, <2>2 DEF Read, Open
    <3> QED
      BY <1>1, <2>1, <2>2, <3>1, FlushedOrder
  <2>3. CASE phase[s] # "open"
    <3>1. /\ unread' = [unread EXCEPT ![s] = @ - 1]
          /\ UNCHANGED <<accepted, down, pending>>
      BY <1>4, <2>3 DEF Read
    <3>2. \A t \in Streams : t # s => unread'[t] = unread[t]
      BY <2>1, <3>1
    <3>3. QueuesInv'
      BY <1>1, <2>1, <2>3, <3>1, <3>2 DEF QueuesInv, QueueInv, Open, Taken
    <3>4. LinkInv'
      <4>1. \A t \in Streams : Open(t)' <=> Open(t)
        BY <2>1 DEF Open
      <4> QED
        BY <1>1, <2>1, <3>1, <4>1, ServerKeepsLink
    <3> QED
      BY <1>1, <2>1, <3>3, <3>4 DEF OrderInv, QueuesInv, NoProtocolError
  <2> QED
    BY <2>2, <2>3
<1>5. ASSUME NEW s \in Streams, NEW how, CleanUpStreams({s}), Open(s),
             UNCHANGED <<next, accepted, fault>>, \A t \in Streams : t # s => unread'[t] = unread[t],
             up' = up \/ (up # <<>> /\ up' = Tail(up) /\ Head(up).id = s),
             NoAsk
      PROVE  OrderInv'
  <2>1. {s} \in SUBSET Streams /\ fault' # "protocol.error"
    BY <1>1, <1>5 DEF NoProtocolError
  <2> QED
    BY <1>1, <1>5, <2>1, CleanedOrder
<1>6. ASSUME NEW s \in Streams, PublicAbort(s) PROVE OrderInv'
  <2>1. PICK f, more : f = [type |-> "request.abort", id |-> s] /\ more = <<f>>
    OBVIOUS
  <2>2. /\ f \in DownFrame /\ f.type # "request" /\ down \in Seq(DownFrame)
    BY <2>1 DEF DownFrame, SafeInv, ServerInv
  <2>3. /\ more \in Seq(DownFrame) /\ \A g \in Range(more) : g.type # "request"
    BY <2>1, <2>2 DEF Range
  <2>4. /\ CleanUpStreams({s}) /\ Open(s) /\ down' = Append(down, f)
        /\ UNCHANGED <<up, next, accepted, fault>>
        /\ \A t \in Streams : t # s => unread'[t] = unread[t]
    BY <1>6, <2>1 DEF PublicAbort, AbortStreams
  <2>5. down' = down \o more
    BY <2>1, <2>2, <2>4
  <2>6. NoAsk
    BY <1>1, <2>3, <2>5, Behind
  <2> QED
    BY <1>5, <2>4, <2>6
<1>7. ASSUME NEW s \in Streams, Timeout(s) \/ RefuseStart(s) \/ ReceiveAbort(s) PROVE OrderInv'
  <2>1. /\ CleanUpStreams({s}) /\ UNCHANGED <<next, accepted, down, fault>>
        /\ \A t \in Streams : t # s => unread'[t] = unread[t]
    BY <1>7 DEF Timeout, RefuseStart, ReceiveAbort, AbortStreams
  <2>2. up' = up \/ (up # <<>> /\ up' = Tail(up) /\ Head(up).id = s)
    BY <1>7 DEF Timeout, RefuseStart, ReceiveAbort, ToServer
  <2>3. Open(s)
    BY <1>1, <1>7 DEF Timeout, RefuseStart, ReceiveAbort, Open, QueuesInv, QueueInv
  <2>4. NoAsk
    BY <1>1, <2>1 DEF NoAsk
  <2> QED
    BY <1>5, <2>1, <2>2, <2>3, <2>4
<1>8. ASSUME NEW s \in Streams, ReceiveBodyless(s) \/ ReceiveEnd(s) PROVE OrderInv'
  <2>1. ReceiveEnd(s) => EndsInSequence(s, Head(up).last)
    <3>1. ReceiveEnd(s) => Head(up).last = next[s] - 1
      BY <1>1, HeadInSequence DEF ReceiveEnd, ToServer
    <3> QED
      BY <3>1 DEF EndsInSequence
  <2>2. /\ CleanUpStreams({s}) /\ UNCHANGED <<next, accepted, unread, down, fault>>
        /\ up # <<>> /\ up' = Tail(up) /\ Head(up).id = s /\ Open(s)
    BY <1>8, <2>1 DEF ReceiveBodyless, ReceiveEnd, FinishResponse, ToServer, Open
  <2>3. NoAsk
    BY <1>1, <2>2 DEF NoAsk
  <2> QED
    BY <1>5, <2>2, <2>3
<1>9. ASSUME NEW s \in Streams, ReceiveStart(s) PROVE OrderInv'
  <2>1. /\ up # <<>> /\ up' = Tail(up) /\ Head(up).type # "data" /\ Open(s)
        /\ phase' = [phase EXCEPT ![s] = "open"] /\ Flush(s, 0) /\ UNCHANGED <<next, fault>>
        /\ phase \in [Streams -> Phase] /\ 0 \in 0..HighWater
    BY <1>9, LimitsAssumption DEF ReceiveStart, ToServer, Open, SafeInv, ServerInv
  <2>2. phase'[s] = "open" /\ \A t \in Streams : t # s => phase'[t] = phase[t]
    BY <2>1
  <2> QED
    BY <1>1, <2>1, <2>2, FlushedOrder
<1>10. ASSUME NEW s \in Streams, ReceiveData(s) PROVE OrderInv'
  BY <1>10, DataOrder
<1> QED
  BY <1>2, <1>3, <1>4, <1>6, <1>7, <1>8, <1>9, <1>10 DEF ServerStep

\* The second layer of the invariant holds at first, ...
LEMMA OrderStart == Init => OrderInv
<1> SUFFICES ASSUME Init PROVE OrderInv
  OBVIOUS
<1>1. Range(up) = {} /\ Range(down) = {}
  BY DEF Init, Range
<1>2. Sorted(up) /\ Once(down)
  BY DEF Init, Sorted, Once
<1> SUFFICES ASSUME NEW s \in Streams
             PROVE  FreshInv(s) /\ DataInv(s) /\ EndInv(s) /\ QueueInv(s)
  BY <1>2 DEF Init, OrderInv, LinkInv, NoProtocolError
<1>3. /\ phase[s] = "absent" /\ pc[s] = "absent" /\ live = {} /\ next[s] = 0 /\ sent[s] = 0
      /\ accepted[s] = <<>> /\ pending[s] = <<>> /\ ~Open(s)
  BY DEF Init, Open
<1>4. Taken(s) = 0 /\ Run(0, 0) = <<>>
  BY <1>3, RunFacts DEF Taken
<1> QED
  BY <1>1, <1>3, <1>4 DEF FreshInv, DataInv, EndInv, QueueInv

\* ... every step keeps it, ...
LEMMA OrderNext == SafeInv /\ OrderInv /\ [Next]_vars => OrderInv'
<1> SUFFICES ASSUME SafeInv, OrderInv, [Next]_vars PROVE OrderInv'
  OBVIOUS
<1>1. CASE UNCHANGED vars
  BY <1>1 DEF vars, client, server, response, OrderInv, LinkInv, FreshInv, DataInv, EndInv,
              QueueInv, Open, Taken, NoProtocolError
<1>2. CASE ClientStep
  <2>1. UNCHANGED <<server, response, fault>>
    BY <1>2, ClientSafe DEF SafeInv, ServerInv
  <2>2. LinkInv'
    BY <1>2, ClientLink DEF OrderInv
  <2> QED
    BY <2>1, <2>2 DEF OrderInv, QueueInv, Open, Taken, NoProtocolError, server, response
<1> QED
  BY <1>1, <1>2, ServerOrder, Steps

\* ... and it always holds.
LEMMA Ordered == Spec => [](SafeInv /\ OrderInv)
<1>1. Init => SafeInv /\ OrderInv
  BY SafeStart, OrderStart
<1>2. SafeInv /\ OrderInv /\ [Next]_vars => (SafeInv /\ OrderInv)'
  BY SafeNext, OrderNext
<1> QED
  BY <1>1, <1>2, PTL DEF Spec

\* Whatever is aborted, late, refused or at a limit, the frames of a stream the
\* server still has never look out of sequence.
THEOREM NeverOutOfSequence == Spec => []NoProtocolError
<1>1. OrderInv => NoProtocolError
  BY DEF OrderInv
<1> QED
  BY <1>1, Ordered, PTL

\* What a public body took and what is pending are together the chunks received,
\* in order, each once.
THEOREM BodiesInOrder == Spec => []InOrder
<1>1. ASSUME SafeInv, OrderInv PROVE InOrder
  <2> SUFFICES ASSUME NEW s \in Streams, Open(s)
               PROVE  accepted[s] \o pending[s] = [i \in 1..next[s] |-> i - 1]
    BY DEF InOrder
  <2>1. PICK k, m : k = Taken(s) /\ m = next[s] - k
    OBVIOUS
  <2>2. /\ accepted[s] = Run(0, k) /\ k <= next[s] /\ pending[s] = Run(k, m)
        /\ accepted[s] \in Seq(Nat) /\ next[s] \in Nat
    BY <1>1, <2>1 DEF OrderInv, QueueInv, SafeInv, ServerInv
  <2>3. k \in Nat /\ m \in Nat /\ k + m = next[s]
    <3>1. k \in Nat
      BY <2>1, <2>2 DEF Taken
    <3>2. PICK x : x = next[s]
      OBVIOUS
    <3>3. x \in Nat /\ k <= x /\ m = x - k
      BY <2>1, <2>2, <3>2
    <3> QED
      BY <3>1, <3>2, <3>3
  <2>4. Run(0, k + m) = Run(0, k) \o Run(k, m)
    BY <2>3, RunStart, Zenon
  <2>5. Run(0, next[s]) = [i \in 1..next[s] |-> i - 1]
    <3>1. \A i \in 1..next[s] : 0 + i - 1 = i - 1
      BY <2>2
    <3> QED
      BY <3>1 DEF Run
  <2> QED
    BY <2>2, <2>3, <2>4, <2>5
<1> QED
  BY <1>1, Ordered, PTL

-----------------------------------------------------------------------------
(* Prefixes of a body.                                                         *)

\* What the bytes of the first chunks are, one chunk after the other.
LEMMA PrefixFacts ==
    ASSUME NEW s \in Streams
    PROVE  /\ Prefix(s, 0) = 0
           /\ \A n \in 0..Len(Body[s]) : Prefix(s, n) \in Nat
           /\ \A n \in Chunks(s) : /\ Prefix(s, n + 1) = Prefix(s, n) + Size(s, n)
                                   /\ Prefix(s, n) \in Nat /\ Size(s, n) \in Nat
<1>1. PICK b : b = Body[s] /\ b \in Seq(Nat)
  BY BodyAssumption
<1>2. \A n \in Chunks(s) : n \in Nat /\ n < Len(b) /\ n \in 0..Len(b)
  BY <1>1 DEF Chunks
<1> QED
  BY <1>1, <1>2, SumPrefixes, SizeType DEF Prefix, Size

\* The bytes of a run of chunks.
LEMMA BytesRun ==
    ASSUME NEW s \in Streams, NEW k \in Nat, NEW n \in Nat, k + n <= Len(Body[s])
    PROVE  /\ Run(k, n) \in Seq(Chunks(s)) /\ Bytes(s, Run(k, n)) \in Nat
           /\ Prefix(s, k + n) = Prefix(s, k) + Bytes(s, Run(k, n))
<1> DEFINE N == {m \in Nat : k + m <= Len(Body[s]) =>
                     /\ Run(k, m) \in Seq(Chunks(s))
                     /\ Prefix(s, k + m) = Prefix(s, k) + Bytes(s, Run(k, m))}
<1>0. Len(Body[s]) \in Nat
  BY BodyAssumption
<1>1. 0 \in N
  <2>1. PICK none : none = <<>>
    OBVIOUS
  <2>2. none \in Seq(Chunks(s)) /\ 0 \in Nat /\ k + 0 = k
    BY <2>1
  <2>3. Run(k, 0) = none
    BY <2>1, <2>2, RunFacts, Zenon
  <2>4. Bytes(s, none) = 0
    BY <2>1, <2>2, BytesFacts
  <2>5. k + 0 <= Len(Body[s]) => Prefix(s, k) \in Nat
    <3>1. k + 0 <= Len(Body[s]) => k \in 0..Len(Body[s])
      BY <1>0
    <3> QED
      BY <3>1, PrefixFacts
  <2>6. k + 0 <= Len(Body[s]) => Prefix(s, k + 0) = Prefix(s, k) + Bytes(s, Run(k, 0))
    BY <2>2, <2>3, <2>4, <2>5
  <2> QED
    BY <2>2, <2>3, <2>6
<1>2. ASSUME NEW m \in Nat, m \in N PROVE m + 1 \in N
  <2> SUFFICES ASSUME k + (m + 1) <= Len(Body[s])
               PROVE  /\ Run(k, m + 1) \in Seq(Chunks(s))
                      /\ Prefix(s, k + (m + 1)) = Prefix(s, k) + Bytes(s, Run(k, m + 1))
    OBVIOUS
  <2>1. k + m <= Len(Body[s]) /\ k + m \in Chunks(s) /\ k \in 0..Len(Body[s])
    BY <1>0 DEF Chunks
  <2>2. /\ Run(k, m) \in Seq(Chunks(s))
        /\ Prefix(s, k + m) = Prefix(s, k) + Bytes(s, Run(k, m))
    BY <1>2, <2>1
  <2>3. PICK q : q = Run(k, m)
    OBVIOUS
  <2>4. Run(k, m + 1) = Append(q, k + m)
    BY <2>3, RunNext
  <2>5. /\ Append(q, k + m) \in Seq(Chunks(s)) /\ Bytes(s, q) \in Nat
        /\ Bytes(s, Append(q, k + m)) = Bytes(s, q) + Size(s, k + m)
    BY <2>1, <2>2, <2>3, BytesFacts
  <2>6. /\ Prefix(s, (k + m) + 1) = Prefix(s, k + m) + Size(s, k + m)
        /\ Prefix(s, k + m) \in Nat /\ Size(s, k + m) \in Nat /\ Prefix(s, k) \in Nat
    BY <2>1, PrefixFacts
  <2>7. (k + m) + 1 = k + (m + 1)
    OBVIOUS
  <2>8. PICK a, b, c : a = Prefix(s, k) /\ b = Bytes(s, q) /\ c = Size(s, k + m)
    OBVIOUS
  <2>9. Prefix(s, k + (m + 1)) = (a + b) + c /\ Bytes(s, Append(q, k + m)) = b + c
    BY <2>2, <2>3, <2>5, <2>6, <2>7, <2>8
  <2>10. a + (b + c) = (a + b) + c
    BY <2>5, <2>6, <2>8
  <2> QED
    BY <2>4, <2>5, <2>8, <2>9, <2>10
<1> HIDE DEF N
<1>3. n \in N
  BY <1>1, <1>2, NaturalsFrom
<1> USE DEF N
<1>4. Run(k, n) \in Seq(Chunks(s)) /\ Prefix(s, k + n) = Prefix(s, k) + Bytes(s, Run(k, n))
  BY <1>3
<1> QED
  BY <1>4, BytesFacts

-----------------------------------------------------------------------------
(* What is on its way.                                                         *)

\* How much of a stream's body a frame carries.
Carried(s) == [f \in UpFrame |-> IF f.type = "data" /\ f.id = s THEN Size(s, f.seq) ELSE 0]

\* What a frame weighs in the bytes of a stream ...
LEMMA Carries ==
    ASSUME NEW s \in Streams
    PROVE  /\ Carried(s) \in [UpFrame -> Nat]
           /\ \A f \in UpFrame : ~(f.type = "data" /\ f.id = s) => Carried(s)[f] = 0
           /\ \A n \in Chunks(s) : /\ Chunk(s, n) \in UpFrame
                                   /\ Carried(s)[Chunk(s, n)] = Size(s, n)
<1>1. \A f \in UpFrame : f.type = "data" => f.seq \in Chunks(f.id)
  BY DEF UpFrame, DataFrame, Chunks
<1>2. \A f \in UpFrame : (IF f.type = "data" /\ f.id = s THEN Size(s, f.seq) ELSE 0) \in Nat
  BY <1>1, SizeType
<1>3. Carried(s) \in [UpFrame -> Nat]
  BY <1>2 DEF Carried
<1>4. \A f \in UpFrame : ~(f.type = "data" /\ f.id = s) => Carried(s)[f] = 0
  BY DEF Carried
<1>5. ASSUME NEW n \in Chunks(s)
      PROVE  Chunk(s, n) \in UpFrame /\ Carried(s)[Chunk(s, n)] = Size(s, n)
  <2>1. PICK f : f = Chunk(s, n)
    OBVIOUS
  <2>2. f \in UpFrame /\ f.type = "data" /\ f.id = s /\ f.seq = n
    BY <2>1 DEF Chunk, UpFrame, DataFrame, Chunks
  <2> QED
    BY <2>1, <2>2 DEF Carried
<1> QED
  BY <1>3, <1>4, <1>5

\* ... and in the credit of a stream.
LEMMA Pays ==
    ASSUME NEW s \in Streams
    PROVE  /\ Paid(s) \in [DownFrame -> Nat]
           /\ \A f \in DownFrame : Paid(s)[f] = IF f.type = "stream.credit" /\ f.id = s
                                                THEN f.bytes ELSE 0
<1>1. \A f \in DownFrame : (IF f.type = "stream.credit" /\ f.id = s THEN f.bytes ELSE 0) \in Nat
  BY DEF DownFrame
<1> QED
  BY <1>1 DEF Paid

\* The quantities of the invariant are weights of the links, before and after a step.
LEMMA LinkWeighs ==
    ASSUME NEW s \in Streams, NEW l \in Seq(UpFrame), NEW m \in Seq(DownFrame)
    PROVE  /\ SumFunction([i \in DOMAIN l |-> IF l[i].type = "data" /\ l[i].id = s
                                              THEN Size(s, l[i].seq) ELSE 0]) = Weigh(l, Carried(s))
           /\ SumFunction([i \in DOMAIN m |-> IF m[i].type = "stream.credit" /\ m[i].id = s
                                              THEN m[i].bytes ELSE 0]) = Weigh(m, Paid(s))
           /\ Weigh(l, Carried(s)) \in Nat /\ Weigh(m, Paid(s)) \in Nat
<1>1. \A i \in DOMAIN l : l[i] \in UpFrame
  OBVIOUS
<1>2. [i \in DOMAIN l |-> IF l[i].type = "data" /\ l[i].id = s THEN Size(s, l[i].seq) ELSE 0]
          = [i \in DOMAIN l |-> Carried(s)[l[i]]]
  BY <1>1 DEF Carried
<1>3. \A i \in DOMAIN m : m[i] \in DownFrame
  OBVIOUS
<1>4. [i \in DOMAIN m |-> IF m[i].type = "stream.credit" /\ m[i].id = s THEN m[i].bytes ELSE 0]
          = [i \in DOMAIN m |-> Paid(s)[m[i]]]
  BY <1>3 DEF Paid
<1>5. Weigh(l, Carried(s)) \in Nat /\ Weigh(m, Paid(s)) \in Nat
  BY Carries, Pays, WeighType
<1> QED
  BY <1>2, <1>4, <1>5 DEF Weigh

\* What is in flight is what the links weigh, ...
LEMMA InFlight ==
    ASSUME SafeInv, NEW s \in Streams
    PROVE  /\ DataInFlight(s) = Weigh(up, Carried(s)) /\ DataInFlight(s) \in Nat
           /\ CreditInFlight(s) = Weigh(down, Paid(s)) /\ CreditInFlight(s) \in Nat
<1>1. up \in Seq(UpFrame) /\ down \in Seq(DownFrame)
  BY DEF SafeInv, ClientInv, ServerInv
<1> QED
  BY <1>1, LinkWeighs DEF DataInFlight, CreditInFlight

\* ... after a step too.
LEMMA InFlightNext ==
    ASSUME SafeInv', NEW s \in Streams
    PROVE  /\ DataInFlight(s)' = Weigh(up', Carried(s)) /\ DataInFlight(s)' \in Nat
           /\ CreditInFlight(s)' = Weigh(down', Paid(s)) /\ CreditInFlight(s)' \in Nat
<1>1. up' \in Seq(UpFrame) /\ down' \in Seq(DownFrame)
  BY DEF SafeInv, ClientInv, ServerInv
<1> QED
  BY <1>1, LinkWeighs DEF DataInFlight, CreditInFlight

\* Frames that are put on the links.
LEMMA Loaded ==
    ASSUME SafeInv, NEW s \in Streams
    PROVE  /\ \A f \in UpFrame : up' = Append(up, f) =>
                  Weigh(up', Carried(s)) = DataInFlight(s) + Carried(s)[f]
           /\ \A f \in DownFrame : down' = Append(down, f) =>
                  Weigh(down', Paid(s)) = CreditInFlight(s) + Paid(s)[f]
           /\ \A more \in Seq(DownFrame) : down' = down \o more =>
                  Weigh(down', Paid(s)) = CreditInFlight(s) + Weigh(more, Paid(s))
<1>1. up \in Seq(UpFrame) /\ down \in Seq(DownFrame)
  BY DEF SafeInv, ClientInv, ServerInv
<1>2. /\ DataInFlight(s) = Weigh(up, Carried(s)) /\ CreditInFlight(s) = Weigh(down, Paid(s))
      /\ Carried(s) \in [UpFrame -> Nat] /\ Paid(s) \in [DownFrame -> Nat]
  BY InFlight, Carries, Pays
<1>3. ASSUME NEW f \in UpFrame, up' = Append(up, f)
      PROVE  Weigh(up', Carried(s)) = DataInFlight(s) + Carried(s)[f]
  BY <1>1, <1>2, <1>3, WeighAppended
<1>4. ASSUME NEW f \in DownFrame, down' = Append(down, f)
      PROVE  Weigh(down', Paid(s)) = CreditInFlight(s) + Paid(s)[f]
  BY <1>1, <1>2, <1>4, WeighAppended
<1>5. ASSUME NEW more \in Seq(DownFrame), down' = down \o more
      PROVE  Weigh(down', Paid(s)) = CreditInFlight(s) + Weigh(more, Paid(s))
  BY <1>1, <1>2, <1>5, WeighJoined
<1> QED
  BY <1>3, <1>4, <1>5

\* Frames that are taken from them.
LEMMA Unloaded ==
    ASSUME SafeInv, NEW s \in Streams
    PROVE  /\ up # <<>> /\ up' = Tail(up) =>
                  DataInFlight(s) = Carried(s)[Head(up)] + Weigh(up', Carried(s))
           /\ down # <<>> /\ down' = Tail(down) =>
                  CreditInFlight(s) = Paid(s)[Head(down)] + Weigh(down', Paid(s))
<1>1. up \in Seq(UpFrame) /\ down \in Seq(DownFrame)
  BY DEF SafeInv, ClientInv, ServerInv
<1> QED
  BY <1>1, InFlight, Carries, Pays, WeighPopped

-----------------------------------------------------------------------------
(* The accounts.                                                               *)

\* Where a stream stands, in chunks and in bytes.
LEMMA Places ==
    ASSUME SafeInv, OrderInv, NEW s \in Streams
    PROVE  /\ Taken(s) \in Nat /\ next[s] \in Nat /\ sent[s] \in Nat /\ Len(Body[s]) \in Nat
           /\ Taken(s) <= next[s] /\ next[s] <= sent[s] /\ sent[s] <= Len(Body[s])
           /\ Prefix(s, Taken(s)) \in Nat /\ Prefix(s, next[s]) \in Nat /\ Prefix(s, sent[s]) \in Nat
           /\ Granted(s) \in Nat /\ outStream[s] \in Nat /\ StreamCredit \in Nat
<1>1. /\ next[s] \in Nat /\ sent[s] \in Nat /\ sent[s] <= Len(Body[s]) /\ accepted[s] \in Seq(Nat)
      /\ outStream[s] \in Nat
  BY DEF SafeInv, ClientInv, ServerInv, SendInv
<1>2. Len(Body[s]) \in Nat /\ StreamCredit \in Nat
  BY BodyAssumption, LimitsAssumption
<1>3. Taken(s) <= next[s] /\ next[s] <= sent[s]
  BY DEF OrderInv, LinkInv, DataInv, QueueInv
<1>4. Taken(s) \in Nat
  BY <1>1 DEF Taken
<1>5. /\ Taken(s) \in 0..Len(Body[s]) /\ next[s] \in 0..Len(Body[s])
      /\ sent[s] \in 0..Len(Body[s])
  BY <1>1, <1>2, <1>3, <1>4
<1>6. /\ Prefix(s, Taken(s)) \in Nat /\ Prefix(s, next[s]) \in Nat /\ Prefix(s, sent[s]) \in Nat
  BY <1>5, PrefixFacts
<1>7. Granted(s) \in Nat
  BY <1>2, <1>6 DEF Granted
<1> QED
  BY <1>1, <1>2, <1>3, <1>4, <1>6, <1>7

\* A stream whose chunks the client does not touch; it may take credit from the link.
LEMMA ClientQuiet ==
    ASSUME SafeInv, OrderInv, SafeInv', NEW s \in Streams, Account(s),
           UNCHANGED <<phase, next, pending, inStream, accepted>>, sent'[s] = sent[s],
           DataInFlight(s)' = DataInFlight(s), CreditInFlight(s)' <= CreditInFlight(s),
           s \in live' => s \in live /\ outStream'[s] + CreditInFlight(s)'
                                           = outStream[s] + CreditInFlight(s),
           pc'[s] = "cleared" =>
               pc[s] = "cleared" \/ (s \in live /\ HasOutbound(s) /\ sent[s] \in Chunks(s))
    PROVE  Account(s)'
<1>1. WindowInv(s) /\ FlowInv(s) /\ CreditInv(s)
  BY DEF Account
<1>2. WindowInv(s)' /\ FlowInv(s)'
  BY <1>1 DEF WindowInv, FlowInv, Open
<1>3. PICK p, q, g, c, d, o : /\ p = Prefix(s, Taken(s)) /\ q = Prefix(s, sent[s])
                             /\ g = Granted(s) /\ o = outStream[s]
                             /\ c = CreditInFlight(s) /\ d = CreditInFlight(s)'
  OBVIOUS
<1>4. /\ p \in Nat /\ q \in Nat /\ g \in Nat /\ c \in Nat /\ d \in Nat /\ o \in Nat
      /\ outStream'[s] \in Nat
  BY <1>3, Places, InFlight, InFlightNext DEF SafeInv, ClientInv
<1>5. Prefix(s, Taken(s))' = p /\ Prefix(s, sent[s])' = q /\ Granted(s)' = g
  BY <1>3 DEF Taken, Granted
<1>6. /\ c <= p /\ q <= g /\ d <= c
      /\ s \in live => o + q + c = g
      /\ s \in live' => s \in live /\ outStream'[s] + d = o + c
  BY <1>1, <1>3 DEF CreditInv
<1>7. d <= p /\ (s \in live' => outStream'[s] + q + d = g)
  BY <1>4, <1>6
<1>8. pc'[s] = "cleared" => Prefix(s, sent[s] + 1) <= g
  <2>1. CASE pc[s] = "cleared"
    BY <1>1, <1>3, <2>1 DEF CreditInv
  <2>2. CASE s \in live /\ HasOutbound(s) /\ sent[s] \in Chunks(s)
    <3>1. PICK b : b = Size(s, sent[s])
      OBVIOUS
    <3>2. b \in Nat /\ Prefix(s, sent[s] + 1) = q + b
      BY <1>3, <2>2, <3>1, PrefixFacts
    <3>3. o >= b
      BY <1>3, <2>2, <3>1 DEF HasOutbound
    <3> QED
      BY <1>4, <1>6, <2>2, <3>2, <3>3
  <2> QED
    BY <2>1, <2>2
<1>9. CreditInv(s)'
  BY <1>3, <1>5, <1>6, <1>7, <1>8 DEF CreditInv
<1> QED
  BY <1>2, <1>9 DEF Account

\* A chunk goes on the link.
LEMMA DataAccount ==
    ASSUME SafeInv, OrderInv, SafeInv', NEW s \in Streams, Account(s), SendData(s)
    PROVE  Account(s)'
<1>1. WindowInv(s) /\ FlowInv(s) /\ CreditInv(s) /\ pc[s] = "cleared"
  BY DEF Account, SendData
<1>2. /\ UNCHANGED <<down, phase, next, pending, inStream, accepted>>
      /\ up' = Append(up, Chunk(s, sent[s])) /\ sent' = [sent EXCEPT ![s] = @ + 1]
  BY DEF SendData, Chunk, server, response
<1>3. /\ sent \in [Streams -> Nat] /\ sent[s] \in Chunks(s)
      /\ pc \in [Streams -> Place] /\ outStream \in [Streams -> Nat]
  BY <1>1 DEF SafeInv, ClientInv, SendInv, Chunks
<1>4. sent'[s] = sent[s] + 1
  BY <1>2, <1>3
<1>5. PICK b, p, n, q, g, c, d, o :
          /\ b = Size(s, sent[s]) /\ p = Prefix(s, Taken(s)) /\ n = Prefix(s, next[s])
          /\ q = Prefix(s, sent[s]) /\ g = Granted(s) /\ o = outStream[s]
          /\ c = CreditInFlight(s) /\ d = DataInFlight(s)
  OBVIOUS
<1>6. /\ p \in Nat /\ n \in Nat /\ q \in Nat /\ g \in Nat /\ c \in Nat /\ d \in Nat
      /\ o \in Nat /\ b \in Nat /\ Prefix(s, sent[s] + 1) = q + b
  BY <1>3, <1>5, Places, InFlight, PrefixFacts
<1>7. DataInFlight(s)' = d + b /\ CreditInFlight(s)' = c
  <2>1. Chunk(s, sent[s]) \in UpFrame /\ Carried(s)[Chunk(s, sent[s])] = b
    BY <1>3, <1>5, Carries
  <2>2. Weigh(up', Carried(s)) = d + b
    BY <1>2, <1>5, <2>1, Loaded
  <2>3. Weigh(down', Paid(s)) = c
    BY <1>2, <1>5, InFlight
  <2> QED
    BY <2>2, <2>3, InFlightNext
<1>8. /\ Prefix(s, Taken(s))' = p /\ Prefix(s, next[s])' = n /\ Granted(s)' = g
      /\ Prefix(s, sent[s])' = q + b
  BY <1>2, <1>4, <1>5, <1>6 DEF Taken, Granted
<1>9. WindowInv(s)'
  BY <1>1, <1>2 DEF WindowInv, Open
<1>10. FlowInv(s)'
  <2>1. Open(s)' => d + n = q
    BY <1>1, <1>2, <1>5 DEF FlowInv, Open
  <2>2. Open(s)' => (d + b) + n = q + b
    BY <1>6, <2>1
  <2> QED
    BY <1>7, <1>8, <2>2 DEF FlowInv
<1>11. c <= p /\ q + b <= g /\ (s \in live => o + q + c = g)
  BY <1>1, <1>5, <1>6 DEF CreditInv
<1>12. pc'[s] # "cleared" /\ (s \in live' => s \in live /\ outStream'[s] = o - b)
  <2>1. CASE HasOutbound(s)
    <3>1. /\ outStream' = [outStream EXCEPT ![s] = @ - b] /\ live' = live
          /\ pc' = [pc EXCEPT ![s] = "reading"]
      BY <1>5, <2>1 DEF SendData, Spend, Go
    <3> QED
      BY <1>3, <1>5, <3>1
  <2>2. CASE ~HasOutbound(s)
    <3>1. CleanUp(s, IF s \in live THEN "aborting" ELSE "gone")
      BY <2>2 DEF SendData, AbortResponse
    <3> QED
      BY <1>3, <3>1 DEF CleanUp, Go, GoAndWake, Woken
  <2> QED
    BY <2>1, <2>2
<1>13. CreditInv(s)'
  <2>1. s \in live' => outStream'[s] + (q + b) + c = g
    BY <1>6, <1>11, <1>12
  <2> QED
    BY <1>7, <1>8, <1>11, <1>12, <2>1 DEF CreditInv
<1> QED
  BY <1>9, <1>10, <1>13 DEF Account

\* A request opens the window: nothing of its stream was granted before.
LEMMA RequestAccount ==
    ASSUME SafeInv, OrderInv, SafeInv', NEW s \in Streams, Account(s), ReceiveRequest,
           Head(down).id = s
    PROVE  Account(s)'
<1>1. WindowInv(s) /\ FlowInv(s) /\ CreditInv(s)
  BY DEF Account
<1>2. /\ UNCHANGED <<sent, up, phase, next, pending, inStream, accepted>>
      /\ down # <<>> /\ down' = Tail(down) /\ Head(down).type = "request"
      /\ outStream' = [outStream EXCEPT ![s] = StreamCredit]
      /\ pc' = [pc EXCEPT ![s] = "fetching"]
  BY DEF ReceiveRequest, ToClient, Go, server, response
<1>3. /\ pc \in [Streams -> Place] /\ outStream \in [Streams -> Nat]
      /\ StreamCredit \in Nat
  BY LimitsAssumption DEF SafeInv, ClientInv
<1>4. sent[s] = 0 /\ next[s] = 0
  BY RequestKeepsLink DEF OrderInv
<1>5. Taken(s) = 0 /\ Prefix(s, 0) = 0
  BY <1>4, Places, PrefixFacts
<1>6. CreditInFlight(s) \in Nat /\ CreditInFlight(s) <= 0
  BY <1>1, <1>5, InFlight DEF CreditInv
<1>7. CreditInFlight(s)' = 0 /\ DataInFlight(s)' = DataInFlight(s)
  <2>1. Head(down) \in DownFrame
    BY <1>2, FrameDown DEF SafeInv, ServerInv
  <2>2. Paid(s)[Head(down)] = 0
    BY <1>2, <2>1, Pays
  <2>3. CreditInFlight(s) = 0 + CreditInFlight(s)'
    BY <1>2, <2>2, Unloaded, InFlightNext
  <2>4. CreditInFlight(s)' \in Nat
    BY InFlightNext
  <2>5. DataInFlight(s)' = DataInFlight(s)
    BY <1>2, InFlight, InFlightNext
  <2> QED
    BY <1>6, <2>3, <2>4, <2>5
<1>8. Taken(s)' = 0 /\ sent'[s] = 0 /\ Granted(s)' = StreamCredit + 0
  BY <1>2, <1>4, <1>5 DEF Taken, Granted
<1>9. outStream'[s] = StreamCredit /\ pc'[s] = "fetching"
  BY <1>2, <1>3
<1>10. CreditInv(s)'
  <2>1. StreamCredit + 0 + 0 = StreamCredit + 0 /\ 0 <= 0 /\ 0 <= StreamCredit + 0
    BY <1>3
  <2> QED
    BY <1>5, <1>7, <1>8, <1>9, <2>1 DEF CreditInv
<1>11. WindowInv(s)' /\ FlowInv(s)'
  BY <1>1, <1>2, <1>7 DEF WindowInv, FlowInv, Open
<1> QED
  BY <1>10, <1>11 DEF Account

\* What moves on the links, for one stream.
LEMMA OnTheWay ==
    ASSUME SafeInv, SafeInv', NEW s \in Streams
    PROVE  /\ up' = up => DataInFlight(s)' = DataInFlight(s)
           /\ \A f \in UpFrame : up' = Append(up, f) /\ ~(f.type = "data" /\ f.id = s) =>
                  DataInFlight(s)' = DataInFlight(s)
           /\ down' = down => CreditInFlight(s)' = CreditInFlight(s)
           /\ down # <<>> /\ down' = Tail(down) =>
                  CreditInFlight(s) = Paid(s)[Head(down)] + CreditInFlight(s)'
<1>1. up' = up => DataInFlight(s)' = DataInFlight(s)
  BY InFlight, InFlightNext
<1>2. down' = down => CreditInFlight(s)' = CreditInFlight(s)
  BY InFlight, InFlightNext
<1>3. down # <<>> /\ down' = Tail(down) =>
          CreditInFlight(s) = Paid(s)[Head(down)] + CreditInFlight(s)'
  BY Unloaded, InFlightNext
<1>4. ASSUME NEW f \in UpFrame, up' = Append(up, f), ~(f.type = "data" /\ f.id = s)
      PROVE  DataInFlight(s)' = DataInFlight(s)
  <2>1. Carried(s)[f] = 0
    BY <1>4, Carries
  <2>2. DataInFlight(s)' = DataInFlight(s) + 0
    BY <1>4, <2>1, Loaded, InFlightNext
  <2> QED
    BY <2>2, InFlight
<1> QED
  BY <1>1, <1>2, <1>3, <1>4

\* Every step of the client keeps the accounts.
LEMMA ClientAccounts ==
    ASSUME SafeInv, OrderInv, SafeInv', AccountInv, ClientStep
    PROVE  AccountInv'
<1> SUFFICES ASSUME NEW t \in Streams PROVE Account(t)'
  BY DEF AccountInv
<1>1. /\ Account(t) /\ pc \in [Streams -> Place] /\ sent \in [Streams -> Nat]
      /\ outStream \in [Streams -> Nat] /\ StreamCredit \in Nat /\ outStream[t] \in Nat
      /\ UNCHANGED <<phase, next, pending, inStream, accepted>>
  <2>1. UNCHANGED <<server, response>>
    BY ClientSafe DEF SafeInv, ServerInv
  <2> QED
    BY <2>1, LimitsAssumption DEF AccountInv, SafeInv, ClientInv, server, response
<1>2. PICK c, d, o : c = CreditInFlight(t) /\ d = CreditInFlight(t)' /\ o = outStream[t]
  OBVIOUS
<1>3. c \in Nat /\ d \in Nat /\ o \in Nat
  BY <1>1, <1>2, InFlight, InFlightNext
<1>4. Woken[t] = "cleared" => pc[t] = "cleared"
  BY DEF Woken
<1>5. ASSUME sent'[t] = sent[t], DataInFlight(t)' = DataInFlight(t), down' = down,
             t \in live' => t \in live /\ outStream'[t] = outStream[t],
             pc'[t] = "cleared" => pc[t] = "cleared"
      PROVE  Account(t)'
  <2>1. d = c
    BY <1>2, <1>5, OnTheWay
  <2>2. d <= c /\ (t \in live' => t \in live /\ outStream'[t] + d = o + c)
    BY <1>2, <1>3, <1>5, <2>1
  <2> QED
    BY <1>1, <1>2, <1>5, <2>2, ClientQuiet
<1>6. ASSUME NEW s \in Streams, NEW place \in {"aborting", "gone"}, CleanUp(s, place)
      PROVE  /\ t \in live' => t \in live /\ outStream'[t] = outStream[t]
             /\ pc'[t] = "cleared" => pc[t] = "cleared"
  BY <1>1, <1>6 DEF CleanUp, Go, GoAndWake, Woken
<1>7. ASSUME NEW s \in Streams, SendData(s) PROVE Account(t)'
  <2>1. CASE t = s
    BY <1>1, <1>7, <2>1, DataAccount
  <2>2. CASE t # s
    <3>1. sent'[t] = sent[t] /\ down' = down /\ up' = Append(up, Chunk(s, sent[s]))
      BY <1>1, <1>7, <2>2 DEF SendData, Chunk
    <3>2. sent[s] \in Chunks(s)
      BY <1>1, <1>7 DEF SendData, SafeInv, ClientInv, SendInv, Chunks
    <3>3. Chunk(s, sent[s]) \in UpFrame /\ Chunk(s, sent[s]).id # t
      BY <2>2, <3>2, Carries DEF Chunk
    <3>4. DataInFlight(t)' = DataInFlight(t)
      BY <3>1, <3>3, OnTheWay
    <3>5. /\ t \in live' => t \in live /\ outStream'[t] = outStream[t]
          /\ pc'[t] = "cleared" => pc[t] = "cleared"
      <4>1. CASE HasOutbound(s)
        BY <1>1, <1>7, <2>2, <4>1 DEF SendData, Spend, Go
      <4>2. CASE ~HasOutbound(s)
        BY <1>6, <1>7, <4>2 DEF SendData, AbortResponse
      <4> QED
        BY <4>1, <4>2
    <3> QED
      BY <1>5, <3>1, <3>4, <3>5
  <2> QED
    BY <2>1, <2>2
<1>8. CASE ReceiveRequest
  <2>1. PICK s : s = Head(down).id
    OBVIOUS
  <2>2. CASE t = s
    BY <1>1, <1>8, <2>1, <2>2, RequestAccount
  <2>3. CASE t # s
    <3>1. /\ sent' = sent /\ up' = up /\ live' = live \cup {s} /\ down # <<>> /\ down' = Tail(down)
          /\ outStream' = [outStream EXCEPT ![s] = StreamCredit] /\ Head(down).type = "request"
          /\ pc' = [pc EXCEPT ![s] = "fetching"]
      BY <1>8, <2>1 DEF ReceiveRequest, ToClient, Go
    <3>2. outStream'[t] = o /\ pc'[t] = pc[t] /\ (t \in live' => t \in live)
      BY <1>1, <1>2, <2>3, <3>1
    <3>3. Head(down) \in DownFrame
      BY <3>1, FrameDown DEF SafeInv, ServerInv
    <3>4. Paid(t)[Head(down)] = 0
      BY <3>1, <3>3, Pays
    <3>5. c = 0 + d /\ DataInFlight(t)' = DataInFlight(t)
      BY <1>2, <3>1, <3>4, OnTheWay
    <3>6. d <= c /\ outStream'[t] + d = o + c
      BY <1>3, <3>2, <3>5
    <3> QED
      BY <1>1, <1>2, <3>1, <3>2, <3>5, <3>6, ClientQuiet
  <2> QED
    BY <2>2, <2>3
<1>9. ASSUME NEW s \in Streams, Answered(s) \/ BodyRead(s) PROVE Account(t)'
  <2>1. UNCHANGED <<live, sent, outStream, up, down>>
    BY <1>9 DEF Answered, BodyRead
  <2>2. pc'[t] = "cleared" => pc[t] = "cleared"
    BY <1>1, <1>9 DEF Answered, BodyRead, Go
  <2> QED
    BY <1>5, <2>1, <2>2, OnTheWay
<1>10. ASSUME NEW s \in Streams, AskCredit(s) PROVE Account(t)'
  <2>1. UNCHANGED <<live, sent, outStream, up, down>>
    BY <1>10 DEF AskCredit
  <2>2. sent[s] < Len(Body[s]) /\ sent[s] \in Nat
    BY <1>1, <1>10 DEF AskCredit, SafeInv, ClientInv, SendInv
  <2>3. pc'[t] = "cleared" => \/ pc[t] = "cleared"
                              \/ t \in live /\ HasOutbound(t) /\ sent[t] \in Chunks(t)
    BY <1>1, <1>10, <2>2 DEF AskCredit, Go, Chunks
  <2>4. d = c /\ DataInFlight(t)' = DataInFlight(t)
    BY <1>2, <2>1, OnTheWay
  <2>5. d <= c /\ outStream'[t] + d = o + c
    BY <1>2, <1>3, <2>1, <2>4
  <2> QED
    BY <1>1, <1>2, <2>1, <2>3, <2>4, <2>5, ClientQuiet
<1>11. ASSUME NEW s \in Streams, SendStart(s) \/ SendAbort(s) PROVE Account(t)'
  <2>1. PICK f : /\ f \in UpFrame /\ f.type # "data" /\ up' = Append(up, f)
    <3>1. PICK type : type = IF pc[s] = "starting" THEN "start" ELSE "abort"
      OBVIOUS
    <3>2. PICK g : g = [type |-> type, id |-> s]
      OBVIOUS
    <3>3. g \in UpFrame /\ g.type # "data"
      BY <3>1, <3>2 DEF UpFrame
    <3>4. up' = Append(up, g)
      BY <1>11, <3>1, <3>2 DEF SendStart, SendAbort
    <3> QED
      BY <3>3, <3>4
  <2>2. UNCHANGED <<live, sent, outStream, down>>
    BY <1>11 DEF SendStart, SendAbort
  <2>3. pc'[t] = "cleared" => pc[t] = "cleared"
    BY <1>1, <1>11 DEF SendStart, SendAbort, Go
  <2> QED
    BY <1>5, <2>1, <2>2, <2>3, OnTheWay
<1>12. ASSUME NEW s \in Streams, SendEnd(s) PROVE Account(t)'
  <2>1. PICK f : f = [type |-> "end", id |-> s, last |-> LastSentSeq(s)]
    OBVIOUS
  <2>2. f \in UpFrame /\ f.type # "data"
    <3>1. LastSentSeq(s) \in Int
      BY <1>1 DEF LastSentSeq
    <3> QED
      BY <2>1, <3>1 DEF UpFrame
  <2>3. CleanUp(s, "gone") /\ up' = Append(up, f) /\ UNCHANGED <<sent, down>>
    BY <1>12, <2>1 DEF SendEnd
  <2> QED
    BY <1>5, <1>6, <2>2, <2>3, OnTheWay
<1>13. ASSUME NEW s \in Streams, OriginFails(s) PROVE Account(t)'
  <2>1. UNCHANGED <<sent, up, down>> /\ CleanUp(s, IF s \in live THEN "aborting" ELSE "gone")
    BY <1>13 DEF OriginFails, AbortResponse
  <2> QED
    BY <1>5, <1>6, <2>1, OnTheWay
<1>14. CASE ReceiveStreamCredit \/ ReceiveChannelCredit
  <2>1. /\ down # <<>> /\ down' = Tail(down) /\ UNCHANGED <<live, sent, up>> /\ pc' = Woken
        /\ Head(down).type \in {"stream.credit", "channel.credit"}
    BY <1>14 DEF ReceiveStreamCredit, ReceiveChannelCredit, ToClient
  <2>2. /\ Head(down) \in DownFrame /\ Head(down).bytes \in Nat
    BY <2>1, FrameDown DEF SafeInv, ServerInv
  <2>3. PICK b : b = Paid(t)[Head(down)]
    OBVIOUS
  <2>4. b \in Nat /\ b = IF Head(down).type = "stream.credit" /\ Head(down).id = t
                         THEN Head(down).bytes ELSE 0
    BY <2>2, <2>3, Pays
  <2>5. outStream'[t] = o + b
    <3>1. CASE Head(down).type = "stream.credit"
      BY <1>1, <1>2, <1>3, <1>14, <2>4, <3>1 DEF ReceiveStreamCredit, ReceiveChannelCredit, ToClient
    <3>2. CASE Head(down).type = "channel.credit"
      BY <1>1, <1>2, <1>3, <1>14, <2>4, <3>2 DEF ReceiveStreamCredit, ReceiveChannelCredit, ToClient
    <3> QED
      BY <2>1, <3>1, <3>2
  <2>6. c = b + d /\ DataInFlight(t)' = DataInFlight(t)
    BY <1>2, <2>1, <2>3, OnTheWay
  <2>7. d <= c /\ outStream'[t] + d = o + c
    BY <1>3, <2>4, <2>5, <2>6
  <2>8. pc'[t] = "cleared" => pc[t] = "cleared"
    BY <1>4, <2>1
  <2> QED
    BY <1>1, <1>2, <2>1, <2>6, <2>7, <2>8, ClientQuiet
<1>15. CASE ReceiveRequestAbort
  <2>1. /\ down # <<>> /\ down' = Tail(down) /\ UNCHANGED <<sent, up>>
        /\ Head(down).type = "request.abort"
        /\ t \in live' => t \in live /\ outStream'[t] = o
        /\ pc'[t] = "cleared" => pc[t] = "cleared"
    BY <1>1, <1>2, <1>4, <1>15 DEF ReceiveRequestAbort, ToClient
  <2>2. Head(down) \in DownFrame
    BY <2>1, FrameDown DEF SafeInv, ServerInv
  <2>3. Paid(t)[Head(down)] = 0
    BY <2>1, <2>2, Pays
  <2>4. c = 0 + d /\ DataInFlight(t)' = DataInFlight(t)
    BY <1>2, <2>1, <2>3, OnTheWay
  <2>5. d <= c /\ (t \in live' => t \in live /\ outStream'[t] + d = o + c)
    BY <1>3, <2>1, <2>4
  <2> QED
    BY <1>1, <1>2, <2>1, <2>4, <2>5, ClientQuiet
<1> QED
  BY <1>7, <1>8, <1>9, <1>10, <1>11, <1>12, <1>13, <1>14, <1>15
     DEF ClientStep, ClientReceives, Coroutine

\* A step of the server grants b more bytes of the stream, of which it accepts
\* as many.
LEMMA GrantedMore ==
    ASSUME SafeInv, OrderInv, NEW s \in Streams, Account(s), UNCHANGED <<pc, live, sent, outStream>>,
           NEW b \in Nat, Prefix(s, Taken(s)') = Prefix(s, Taken(s)) + b,
           CreditInFlight(s)' = CreditInFlight(s) + b
    PROVE  CreditInv(s)'
<1>1. CreditInv(s)
  BY DEF Account
<1>2. PICK p, q, g, c, o, r :
          /\ p = Prefix(s, Taken(s)) /\ q = Prefix(s, sent[s]) /\ g = Granted(s) /\ o = outStream[s]
          /\ c = CreditInFlight(s) /\ r = Prefix(s, sent[s] + 1)
  OBVIOUS
<1>3. /\ p \in Nat /\ q \in Nat /\ g \in Nat /\ c \in Nat /\ o \in Nat /\ StreamCredit \in Nat
      /\ g = StreamCredit + p
  BY <1>2, Places, InFlight DEF Granted
<1>4. /\ Prefix(s, Taken(s))' = p + b /\ Granted(s)' = StreamCredit + (p + b)
      /\ CreditInFlight(s)' = c + b
  BY <1>2 DEF Granted
<1>5. /\ c <= p /\ q <= g /\ (s \in live => o + q + c = g) /\ (pc[s] = "cleared" => r <= g)
  BY <1>1, <1>2 DEF CreditInv
<1>6. c + b <= p + b /\ q <= StreamCredit + (p + b) /\ g <= StreamCredit + (p + b)
  BY <1>3, <1>5
<1>7. s \in live => o + q + (c + b) = StreamCredit + (p + b)
  BY <1>3, <1>5
<1>8. pc[s] = "cleared" => r <= StreamCredit + (p + b)
  <2>1. CASE pc[s] = "cleared"
    <3>1. sent[s] \in Chunks(s)
      BY <2>1 DEF SafeInv, ClientInv, SendInv, Chunks
    <3>2. r = q + Size(s, sent[s]) /\ Size(s, sent[s]) \in Nat
      BY <1>2, <3>1, PrefixFacts
    <3>3. r \in Nat /\ r <= g
      BY <1>3, <1>5, <2>1, <3>2
    <3> QED
      BY <1>3, <1>6, <3>3
  <2> QED
    BY <2>1
<1> QED
  BY <1>2, <1>4, <1>6, <1>7, <1>8 DEF CreditInv

\* The server accepts the next chunks of a stream.
LEMMA GrantAccounts ==
    ASSUME SafeInv, OrderInv, SafeInv', AccountInv, UNCHANGED <<pc, live, sent, outStream>>,
           NEW s \in Streams, NEW n \in Nat, Taken(s) + n <= Len(Body[s]),
           Accept(s, Run(Taken(s), n))
    PROVE  \A t \in Streams : CreditInv(t)'
<1>1. PICK k, chunks, more : k = Taken(s) /\ chunks = Run(k, n) /\ more = Grants(s, chunks)
  OBVIOUS
<1>2. /\ k \in Nat /\ chunks \in Seq(Chunks(s)) /\ Bytes(s, chunks) \in Nat
      /\ Prefix(s, k + n) = Prefix(s, k) + Bytes(s, chunks)
  BY <1>1, Places, BytesRun
<1>3. /\ more \in Seq(DownFrame) /\ more \in Seq(CreditFrame(s))
      /\ Weigh(more, Paid(s)) = Bytes(s, chunks)
  BY <1>1, <1>2, GrantsFacts
<1>4. /\ accepted' = [accepted EXCEPT ![s] = @ \o chunks] /\ down' = down \o more
      /\ accepted \in [Streams -> Seq(Nat)] /\ accepted[s] \in Seq(Nat)
  BY <1>1 DEF Accept, SafeInv, ServerInv
<1> SUFFICES ASSUME NEW t \in Streams PROVE CreditInv(t)'
  OBVIOUS
<1>5. CreditInFlight(t)' = CreditInFlight(t) + Weigh(more, Paid(t))
  BY <1>3, <1>4, Loaded, InFlightNext
<1>6. CASE t = s
  <2>1. chunks \in Seq(Nat) /\ Len(chunks) = n
    BY <1>1, <1>2, RunFacts
  <2>2. Len(accepted[s] \o chunks) = Len(accepted[s]) + n
    <3>1. PICK a : a = accepted[s]
      OBVIOUS
    <3>2. a \in Seq(Nat)
      BY <1>4, <3>1
    <3>3. Len(a \o chunks) = Len(a) + Len(chunks)
      BY <2>1, <3>2, ConcatProperties, Zenon
    <3> QED
      BY <2>1, <3>1, <3>3
  <2>3. Taken(s)' = k + n
    BY <1>1, <1>4, <2>2 DEF Taken
  <2>4. Prefix(s, Taken(s)') = Prefix(s, Taken(s)) + Bytes(s, chunks)
    BY <1>1, <1>2, <2>3
  <2> QED
    BY <1>2, <1>3, <1>5, <1>6, <2>4, GrantedMore DEF AccountInv
<1>7. CASE t # s
  <2>1. Taken(t)' = Taken(t)
    BY <1>4, <1>7 DEF Taken
  <2>2. \A f \in Range(more) : f \in CreditFrame(s) /\ f \in DownFrame
    BY <1>3 DEF Range
  <2>3. \A f \in Range(more) : ~(f.type = "stream.credit" /\ f.id = t)
    BY <1>7, <2>2 DEF CreditFrame
  <2>4. \A f \in Range(more) : Paid(t)[f] = 0
    BY <2>2, <2>3, Pays
  <2>5. Weigh(more, Paid(t)) = 0
    BY <1>3, <2>4, Pays, Weightless
  <2>6. 0 \in Nat /\ Prefix(t, Taken(t)) \in Nat /\ Prefix(t, Taken(t)') = Prefix(t, Taken(t)) + 0
    BY <2>1, Places
  <2> QED
    BY <1>5, <2>5, <2>6, GrantedMore DEF AccountInv
<1> QED
  BY <1>6, <1>7

\* It accepts nothing.
LEMMA NoGrant ==
    ASSUME SafeInv, OrderInv, SafeInv', AccountInv, UNCHANGED <<pc, live, sent, outStream, accepted>>,
           \/ down' = down
           \/ \E f \in DownFrame : down' = Append(down, f) /\ f.type # "stream.credit"
    PROVE  \A t \in Streams : CreditInv(t)'
<1> SUFFICES ASSUME NEW t \in Streams PROVE CreditInv(t)'
  OBVIOUS
<1>1. CreditInFlight(t)' = CreditInFlight(t) + 0
  <2>0. CreditInFlight(t) \in Nat
    BY InFlight
  <2>1. CASE down' = down
    BY <2>0, <2>1, OnTheWay
  <2>2. ASSUME NEW f \in DownFrame, down' = Append(down, f), f.type # "stream.credit"
        PROVE  CreditInFlight(t)' = CreditInFlight(t) + 0
    <3>1. Paid(t)[f] = 0
      BY <2>2, Pays
    <3> QED
      BY <2>2, <3>1, Loaded, InFlightNext
  <2> QED
    BY <2>1, <2>2
<1>2. Taken(t)' = Taken(t) /\ Prefix(t, Taken(t)) \in Nat /\ 0 \in Nat
  BY Places DEF Taken
<1>3. Prefix(t, Taken(t)') = Prefix(t, Taken(t)) + 0
  BY <1>2
<1> QED
  BY <1>1, <1>2, <1>3, GrantedMore DEF AccountInv

\* The server takes the frame in front, or none.
LEMMA FlowKept ==
    ASSUME SafeInv, OrderInv, SafeInv', AccountInv, UNCHANGED sent, NEW s \in Streams,
           Open(s)' => Open(s),
           \/ up' = up /\ next'[s] = next[s]
           \/ /\ up # <<>> /\ up' = Tail(up)
              /\ \/ /\ next'[s] = next[s]
                    /\ Open(s)' => ~(Head(up).type = "data" /\ Head(up).id = s)
                 \/ next'[s] = next[s] + 1 /\ Head(up) = Chunk(s, next[s])
    PROVE  FlowInv(s)'
<1> SUFFICES ASSUME Open(s)'
             PROVE  DataInFlight(s)' + Prefix(s, next[s])' = Prefix(s, sent[s])'
  BY DEF FlowInv
<1>1. PICK n, q, d, e : /\ n = Prefix(s, next[s]) /\ q = Prefix(s, sent[s])
                       /\ d = DataInFlight(s) /\ e = DataInFlight(s)'
  OBVIOUS
<1>2. /\ n \in Nat /\ q \in Nat /\ d \in Nat /\ e \in Nat /\ d + n = q
      /\ Prefix(s, sent[s])' = q
  BY <1>1, Places, InFlight, InFlightNext DEF AccountInv, Account, FlowInv
<1>3. CASE up' = up /\ next'[s] = next[s]
  BY <1>1, <1>2, <1>3, OnTheWay
<1>4. ASSUME up # <<>>, up' = Tail(up)
      PROVE  d = Carried(s)[Head(up)] + e /\ Head(up) \in UpFrame
  BY <1>1, <1>4, Unloaded, InFlightNext, FrameUp DEF SafeInv, ClientInv
<1>5. CASE /\ up # <<>> /\ up' = Tail(up) /\ next'[s] = next[s]
           /\ ~(Head(up).type = "data" /\ Head(up).id = s)
  <2>1. Carried(s)[Head(up)] = 0
    BY <1>4, <1>5, Carries
  <2>2. d = 0 + e
    BY <1>4, <1>5, <2>1
  <2> QED
    BY <1>1, <1>2, <1>5, <2>2
<1>6. CASE /\ up # <<>> /\ up' = Tail(up) /\ next'[s] = next[s] + 1 /\ Head(up) = Chunk(s, next[s])
  <2>1. next[s] \in Chunks(s)
    <3>1. Head(up).type = "data" /\ Head(up).id = s /\ Head(up).seq = next[s]
      BY <1>6 DEF Chunk
    <3> QED
      BY <1>6, <3>1, FrameUp DEF SafeInv, ClientInv
  <2>2. PICK b : b = Size(s, next[s])
    OBVIOUS
  <2>3. b \in Nat /\ Prefix(s, next'[s]) = n + b /\ Carried(s)[Head(up)] = b
    BY <1>1, <1>6, <2>1, <2>2, PrefixFacts, Carries
  <2>4. d = b + e
    BY <1>4, <1>6, <2>3
  <2>5. e + (n + b) = q
    BY <1>2, <2>3, <2>4
  <2> QED
    BY <1>1, <1>2, <2>3, <2>5
<1> QED
  BY <1>3, <1>5, <1>6

\* Registered streams end: their windows are forgotten.
LEMMA CleanedAccounts ==
    ASSUME SafeInv, OrderInv, SafeInv', AccountInv, NEW S \in SUBSET Streams, CleanUpStreams(S),
           UNCHANGED <<pc, live, sent, outStream, accepted>>,
           \/ down' = down
           \/ \E f \in DownFrame : down' = Append(down, f) /\ f.type # "stream.credit",
           \/ up' = up /\ next' = next
           \/ /\ up # <<>> /\ up' = Tail(up) /\ Head(up).id \in S
              /\ \A t \in Streams : t \notin S => next'[t] = next[t]
    PROVE  AccountInv'
<1> SUFFICES ASSUME NEW t \in Streams PROVE Account(t)'
  BY DEF AccountInv
<1>1. CreditInv(t)'
  BY NoGrant
<1>2. /\ phase'[t] = IF t \in S THEN "closed" ELSE phase[t]
      /\ pending'[t] = IF t \in S THEN <<>> ELSE pending[t]
      /\ inStream'[t] = IF t \in S THEN 0 ELSE inStream[t]
      /\ WindowInv(t)
  BY DEF CleanUpStreams, AccountInv, Account
<1>3. CASE t \in S
  <2>1. ~Open(t)' /\ inStream'[t] = 0
    BY <1>2, <1>3 DEF Open
  <2> QED
    BY <1>1, <2>1 DEF Account, WindowInv, FlowInv
<1>4. CASE t \notin S
  <2>1. (Open(t)' <=> Open(t)) /\ WindowInv(t)'
    BY <1>2, <1>4 DEF Open, WindowInv
  <2>2. FlowInv(t)'
    BY <1>4, <2>1, FlowKept
  <2> QED
    BY <1>1, <2>1, <2>2 DEF Account
<1> QED
  BY <1>3, <1>4

\* The public body pulls.
LEMMA FlushedAccounts ==
    ASSUME SafeInv, OrderInv, SafeInv', AccountInv, NEW s \in Streams, NEW left \in 0..HighWater,
           Flush(s, left), Open(s), Open(s)', \A t \in Streams : t # s => phase'[t] = phase[t],
           UNCHANGED <<pc, live, sent, outStream, next>>,
           up' = up \/ (up # <<>> /\ up' = Tail(up) /\ Head(up).type # "data")
    PROVE  AccountInv'
<1>1. /\ QueuesInv /\ pending \in [Streams -> Seq(Nat)] /\ pending[s] \in Seq(Chunks(s))
      /\ inStream \in [Streams -> Nat] /\ StreamCredit \in Nat
  BY LimitsAssumption DEF OrderInv, QueuesInv, SafeInv, ServerInv, Queues
<1>2. PICK k, m, n \in Nat :
          /\ k = Taken(s) /\ m = next[s] - k /\ k + m = next[s]
          /\ n = Pulled(s, HighWater - left) /\ n \in 0..m /\ (n # m => left + n = HighWater)
          /\ accepted[s] = Run(0, k) /\ pending[s] = Run(k, m) /\ Len(pending[s]) = m
          /\ SubSeq(pending[s], 1, n) = Run(k, n)
          /\ SubSeq(pending[s], n + 1, m) = Run(k + n, m - n)
  BY <1>1, Pulls
<1>3. PICK chunks, rest : chunks = SubSeq(pending[s], 1, n) /\ rest = SubSeq(pending[s], n + 1, m)
  OBVIOUS
<1>4. /\ Accept(s, chunks)
      /\ pending' = [pending EXCEPT ![s] = SubSeq(@, n + 1, Len(@))]
      /\ inStream' = [inStream EXCEPT ![s] = @ + Bytes(s, chunks)]
  BY <1>2, <1>3 DEF Flush
<1>5. \A t \in Streams : CreditInv(t)'
  <2>1. next[s] \in Nat /\ Len(Body[s]) \in Nat /\ next[s] <= Len(Body[s])
    <3>1. PICK x, y, z : x = next[s] /\ y = sent[s] /\ z = Len(Body[s])
      OBVIOUS
    <3>2. x \in Nat /\ y \in Nat /\ z \in Nat /\ x <= y /\ y <= z
      BY <3>1, Places
    <3>3. x <= z
      BY <3>2
    <3> QED
      BY <3>1, <3>2, <3>3
  <2>2. k = Taken(s) /\ k + m = next[s] /\ n \in 0..m
    BY <1>2, Zenon
  <2>3. Taken(s) + n <= Len(Body[s])
    <3>1. PICK z : z = Len(Body[s])
      OBVIOUS
    <3>2. z \in Nat /\ k + m <= z
      BY <2>1, <2>2, <3>1
    <3>3. k + n <= z
      BY <2>2, <3>2
    <3> QED
      BY <2>2, <3>1, <3>3
  <2>4. Accept(s, Run(Taken(s), n))
    BY <1>2, <1>3, <1>4
  <2> QED
    BY <2>3, <2>4, GrantAccounts
<1> SUFFICES ASSUME NEW t \in Streams PROVE Account(t)'
  BY DEF AccountInv
<1>6. WindowInv(t) /\ WindowInv(s)
  BY DEF AccountInv, Account
<1>7. Open(t)' => Open(t)
  BY DEF Open
<1>8. FlowInv(t)'
  BY <1>7, FlowKept
<1>9. CASE t # s
  <2>1. inStream'[t] = inStream[t] /\ pending'[t] = pending[t] /\ (Open(t)' <=> Open(t))
    BY <1>1, <1>4, <1>9 DEF Open
  <2> QED
    BY <1>5, <1>6, <1>8, <2>1 DEF WindowInv, Account
<1>10. CASE t = s
  <2>1. PICK a, b, c : a = Bytes(s, pending[s]) /\ b = Bytes(s, chunks) /\ c = Bytes(s, rest)
    OBVIOUS
  <2>2. n \in 0..Len(pending[s])
    BY <1>2
  <2>3. a \in Nat /\ a = b + c /\ chunks \in Seq(Chunks(s)) /\ rest \in Seq(Chunks(s))
    BY <1>1, <1>2, <1>3, <2>1, <2>2, BytesFacts
  <2>4. b \in Nat /\ c \in Nat
    BY <2>1, <2>3, BytesFacts
  <2>5. pending'[s] = rest /\ inStream'[s] = inStream[s] + b
    BY <1>1, <1>2, <1>3, <1>4, <2>1
  <2>6. inStream[s] = StreamCredit - a
    BY <1>6, <2>1 DEF WindowInv
  <2>7. inStream[s] + b = StreamCredit - c
    BY <1>1, <2>3, <2>4, <2>6
  <2>8. WindowInv(s)'
    BY <2>1, <2>5, <2>7 DEF WindowInv
  <2> QED
    BY <1>5, <1>8, <1>10, <2>8 DEF Account
<1> QED
  BY <1>9, <1>10

\* A data frame in sequence is delivered, or is pending.
LEMMA TakenAccounts ==
    ASSUME SafeInv, OrderInv, SafeInv', AccountInv, NEW s \in Streams, Open(s),
           up # <<>>, up' = Tail(up), Head(up) = Chunk(s, next[s]), next[s] < sent[s],
           UNCHANGED <<pc, live, sent, outStream>>, DeliverChunk(s) \/ BufferChunk(s)
    PROVE  AccountInv'
<1>1. /\ QueuesInv /\ pending \in [Streams -> Seq(Nat)] /\ pending[s] \in Seq(Chunks(s))
      /\ inStream \in [Streams -> Nat] /\ next \in [Streams -> Nat] /\ StreamCredit \in Nat
      /\ inStream' \in [Streams -> Nat]
  BY LimitsAssumption DEF OrderInv, QueuesInv, SafeInv, ServerInv, Queues
<1>2. /\ Head(up).seq = next[s] /\ Head(up).type = "data" /\ Head(up).id = s
      /\ next[s] \in Chunks(s)
  <2>1. Head(up).seq = next[s] /\ Head(up).type = "data" /\ Head(up).id = s
    BY DEF Chunk
  <2> QED
    BY <2>1, FrameUp DEF SafeInv, ClientInv
<1>3. phase' = phase /\ next' = [next EXCEPT ![s] = @ + 1]
  BY DEF DeliverChunk, BufferChunk, Consume
<1>4. \A t \in Streams : FlowInv(t)'
  <2> SUFFICES ASSUME NEW t \in Streams PROVE FlowInv(t)'
    OBVIOUS
  <2>1. Open(t)' => Open(t)
    BY <1>3 DEF Open
  <2>2. IF t = s THEN next'[t] = next[t] + 1 ELSE next'[t] = next[t]
    BY <1>1, <1>3
  <2> QED
    BY <1>2, <2>1, <2>2, FlowKept
<1>5. \A t \in Streams : CreditInv(t)'
  <2>1. CASE DeliverChunk(s)
    <3>1. Taken(s) = next[s] /\ Taken(s) \in Nat
      BY <1>1, <2>1, NothingPending DEF DeliverChunk
    <3>2. Accept(s, <<Head(up).seq>>)
      BY <2>1 DEF DeliverChunk
    <3>3. Accept(s, Run(Taken(s), 1))
      BY <1>2, <3>1, <3>2, RunNext, Zenon
    <3>4. Taken(s) + 1 <= Len(Body[s])
      BY <1>2, <3>1 DEF Chunks
    <3>5. 1 \in Nat
      OBVIOUS
    <3> QED
      BY <3>3, <3>4, <3>5, GrantAccounts
  <2>2. CASE BufferChunk(s)
    BY <2>2, NoGrant DEF BufferChunk, response
  <2> QED
    BY <2>1, <2>2
<1>6. \A t \in Streams : WindowInv(t)'
  <2>0. \A t \in Streams : WindowInv(t)
    BY DEF AccountInv, Account
  <2>1. CASE DeliverChunk(s)
    BY <2>0, <2>1 DEF DeliverChunk, WindowInv, Open
  <2>2. CASE BufferChunk(s)
    <3>1. PICK b, q : b = Size(s, next[s]) /\ q = Append(pending[s], next[s])
      OBVIOUS
    <3>2. /\ pending' = [pending EXCEPT ![s] = Append(@, next[s])]
          /\ inStream' = [inStream EXCEPT ![s] = @ - b]
      BY <1>2, <2>2, <3>1 DEF BufferChunk, Consume
    <3>3. /\ pending'[s] = q /\ inStream'[s] = inStream[s] - b
          /\ \A t \in Streams : t # s => pending'[t] = pending[t] /\ inStream'[t] = inStream[t]
      BY <1>1, <3>1, <3>2
    <3>4. /\ Bytes(s, q) = Bytes(s, pending[s]) + b /\ Bytes(s, pending[s]) \in Nat /\ b \in Nat
      BY <1>1, <1>2, <3>1, BytesFacts, SizeType
    <3>5. inStream[s] = StreamCredit - Bytes(s, pending[s])
      BY <2>0 DEF WindowInv
    <3>6. inStream'[s] = StreamCredit - Bytes(s, q)
      <4>1. PICK a, c, i : a = Bytes(s, pending[s]) /\ c = Bytes(s, q) /\ i = inStream[s]
        OBVIOUS
      <4>2. a \in Nat /\ b \in Nat /\ c = a + b /\ i = StreamCredit - a
        BY <3>4, <3>5, <4>1
      <4>3. i - b = StreamCredit - c
        BY <1>1, <4>2
      <4> QED
        BY <3>3, <4>1, <4>3
    <3> SUFFICES ASSUME NEW t \in Streams PROVE WindowInv(t)'
      OBVIOUS
    <3>7. CASE t = s
      BY <1>3, <3>3, <3>6, <3>7 DEF WindowInv, Open
    <3>8. CASE t # s
      BY <1>3, <2>0, <3>3, <3>8 DEF WindowInv, Open
    <3> QED
      BY <3>7, <3>8
  <2> QED
    BY <2>1, <2>2
<1> QED
  BY <1>4, <1>5, <1>6 DEF AccountInv, Account

\* Every step of the server keeps the accounts.
LEMMA ServerAccounts ==
    ASSUME SafeInv, OrderInv, SafeInv', AccountInv, ServerStep
    PROVE  AccountInv'
<1>1. /\ LinkInv /\ QueuesInv /\ UNCHANGED <<pc, live, sent, outStream>>
      /\ next \in [Streams -> Nat] /\ HighWater \in Nat
  <2>1. UNCHANGED client
    BY ServerSafe DEF SafeInv, ClientInv
  <2> QED
    BY <2>1, LimitsAssumption DEF OrderInv, QueuesInv, SafeInv, ServerInv, client
<1>2. CASE IgnoreFrame
  <2>1. /\ up # <<>> /\ up' = Tail(up) /\ ~Open(Head(up).id)
        /\ UNCHANGED <<down, phase, next, pending, inStream, accepted>>
    BY <1>2 DEF IgnoreFrame, server, response
  <2>2. \A t \in Streams : CreditInv(t)'
    BY <1>1, <2>1, NoGrant
  <2>3. \A t \in Streams : WindowInv(t)' /\ FlowInv(t)'
    <3> SUFFICES ASSUME NEW t \in Streams PROVE WindowInv(t)' /\ FlowInv(t)'
      OBVIOUS
    <3>1. (Open(t)' <=> Open(t)) /\ (Open(t)' => Head(up).id # t)
      BY <2>1 DEF Open
    <3>2. FlowInv(t)'
      BY <1>1, <2>1, <3>1, FlowKept
    <3>3. WindowInv(t)
      BY DEF AccountInv, Account
    <3> QED
      BY <2>1, <3>1, <3>2, <3>3 DEF WindowInv
  <2> QED
    BY <2>2, <2>3 DEF AccountInv, Account
<1>3. ASSUME NEW s \in Streams, PublicRequest(s) PROVE AccountInv'
  <2>1. PICK f : f = Ask(s)
    OBVIOUS
  <2>2. /\ phase[s] = "absent" /\ phase' = [phase EXCEPT ![s] = "waiting"]
        /\ inStream' = [inStream EXCEPT ![s] = StreamCredit] /\ down' = Append(down, f)
        /\ UNCHANGED <<up, next, pending, accepted>>
    BY <1>3, <2>1 DEF PublicRequest, response, Ask
  <2>3. f \in DownFrame /\ f.type # "stream.credit"
    BY <2>1 DEF Ask, DownFrame
  <2>4. \A t \in Streams : CreditInv(t)'
    BY <1>1, <2>2, <2>3, NoGrant
  <2>5. phase \in [Streams -> Phase] /\ inStream \in [Streams -> Nat] /\ StreamCredit \in Nat
    BY LimitsAssumption DEF SafeInv, ServerInv
  <2>6. \A t \in Streams : Account(t)
    BY DEF AccountInv
  <2>7. ASSUME NEW t \in Streams, t # s PROVE WindowInv(t)' /\ FlowInv(t)'
    <3>1. inStream'[t] = inStream[t] /\ (Open(t)' <=> Open(t))
      BY <2>2, <2>5, <2>7 DEF Open
    <3>2. FlowInv(t)'
      BY <1>1, <2>2, <3>1, FlowKept
    <3> QED
      BY <2>2, <2>6, <3>1, <3>2 DEF Account, WindowInv
  <2>8. WindowInv(s)'
    <3>1. pending[s] = <<>> /\ pending[s] \in Seq(Chunks(s))
      BY <1>1, <2>2 DEF QueuesInv, QueueInv, Open, SafeInv, ServerInv, Queues
    <3>2. Bytes(s, pending[s]) = 0
      BY <3>1, BytesFacts
    <3>3. inStream'[s] = StreamCredit - 0
      BY <2>2, <2>5
    <3>4. Bytes(s, pending[s])' = 0 /\ Open(s)'
      BY <2>2, <2>5, <3>2 DEF Bytes, Size, Open
    <3> QED
      BY <3>3, <3>4 DEF WindowInv
  <2>9. FlowInv(s)'
    <3>1. next[s] = 0 /\ sent[s] = 0 /\ \A g \in Range(up) : g.id # s
      BY <1>1, <2>2 DEF LinkInv, FreshInv
    <3>2. up \in Seq(UpFrame)
      BY DEF SafeInv, ClientInv
    <3>3. \A g \in Range(up) : g \in UpFrame /\ Carried(s)[g] = 0
      BY <3>1, <3>2, Carries DEF Range
    <3>4. Weigh(up, Carried(s)) = 0
      BY <3>2, <3>3, Carries, Weightless
    <3>5. DataInFlight(s)' = 0
      BY <2>2, <3>4, InFlightNext
    <3>6. Prefix(s, 0) = 0
      BY PrefixFacts
    <3> QED
      BY <1>1, <2>2, <3>1, <3>5, <3>6 DEF FlowInv
  <2> QED
    BY <2>4, <2>7, <2>8, <2>9 DEF AccountInv, Account
<1>4. ASSUME NEW s \in Streams, Read(s) PROVE AccountInv'
  <2>1. unread[s] > 0 /\ UNCHANGED <<up, phase, next>> /\ unread \in [Streams -> 0..HighWater]
    BY <1>4 DEF Read, SafeInv, ServerInv
  <2>2. CASE phase[s] = "open"
    <3>1. unread[s] - 1 \in 0..HighWater /\ Flush(s, unread[s] - 1) /\ Open(s) /\ Open(s)'
      BY <1>1, <1>4, <2>1, <2>2 DEF Read, Open
    <3> QED
      BY <1>1, <2>1, <3>1, FlushedAccounts
  <2>3. CASE phase[s] # "open"
    <3>1. UNCHANGED <<accepted, down, pending, inStream>>
      BY <1>4, <2>3 DEF Read
    <3>2. \A t \in Streams : CreditInv(t)'
      BY <1>1, <3>1, NoGrant
    <3>3. \A t \in Streams : FlowInv(t)'
      <4>1. \A t \in Streams : Open(t)' => Open(t)
        BY <2>1 DEF Open
      <4> QED
        BY <1>1, <2>1, <4>1, FlowKept
    <3>4. \A t \in Streams : WindowInv(t)'
      BY <2>1, <3>1 DEF AccountInv, Account, WindowInv, Open
    <3> QED
      BY <3>2, <3>3, <3>4 DEF AccountInv, Account
  <2> QED
    BY <2>2, <2>3
<1>5. ASSUME NEW s \in Streams, PublicAbort(s) PROVE AccountInv'
  <2>1. PICK f : f = [type |-> "request.abort", id |-> s]
    OBVIOUS
  <2>2. f \in DownFrame /\ f.type # "stream.credit"
    BY <2>1 DEF DownFrame
  <2>3. /\ CleanUpStreams({s}) /\ {s} \in SUBSET Streams /\ down' = Append(down, f)
        /\ UNCHANGED <<up, next, accepted>>
    BY <1>5, <2>1 DEF PublicAbort, AbortStreams
  <2> QED
    BY <1>1, <2>2, <2>3, CleanedAccounts
<1>6. ASSUME NEW s \in Streams, Timeout(s) PROVE AccountInv'
  <2>1. CleanUpStreams({s}) /\ {s} \in SUBSET Streams /\ UNCHANGED <<up, down, next, accepted>>
    BY <1>6 DEF Timeout, AbortStreams
  <2> QED
    BY <1>1, <2>1, CleanedAccounts
<1>7. ASSUME NEW s \in Streams, RefuseStart(s) \/ ReceiveAbort(s) \/ ReceiveBodyless(s)
      PROVE  AccountInv'
  <2>1. /\ CleanUpStreams({s}) /\ {s} \in SUBSET Streams /\ UNCHANGED <<down, next, accepted>>
        /\ up # <<>> /\ up' = Tail(up) /\ Head(up).id = s
    BY <1>7 DEF RefuseStart, ReceiveAbort, ReceiveBodyless, AbortStreams, ToServer
  <2> QED
    BY <1>1, <2>1, CleanedAccounts
<1>8. ASSUME NEW s \in Streams, ReceiveEnd(s) PROVE AccountInv'
  <2>1. up # <<>> /\ Head(up).type = "end" /\ Head(up).id = s /\ Open(s) /\ up' = Tail(up)
    BY <1>8 DEF ReceiveEnd, ToServer
  <2>2. EndsInSequence(s, Head(up).last)
    BY <1>1, <2>1, HeadInSequence DEF EndsInSequence
  <2>3. CleanUpStreams({s}) /\ {s} \in SUBSET Streams /\ UNCHANGED <<down, next, accepted>>
    BY <1>8, <2>2 DEF ReceiveEnd, FinishResponse
  <2> QED
    BY <1>1, <2>1, <2>3, CleanedAccounts
<1>9. ASSUME NEW s \in Streams, ReceiveStart(s) PROVE AccountInv'
  <2>1. /\ up # <<>> /\ up' = Tail(up) /\ Head(up).type # "data" /\ phase[s] = "waiting"
        /\ phase' = [phase EXCEPT ![s] = "open"] /\ Flush(s, 0) /\ next' = next
        /\ 0 \in 0..HighWater /\ phase \in [Streams -> Phase]
    BY <1>1, <1>9 DEF ReceiveStart, ToServer, SafeInv, ServerInv
  <2>2. Open(s) /\ Open(s)' /\ \A t \in Streams : t # s => phase'[t] = phase[t]
    BY <2>1 DEF Open
  <2> QED
    BY <1>1, <2>1, <2>2, FlushedAccounts
<1>10. ASSUME NEW s \in Streams, ReceiveData(s) PROVE AccountInv'
  <2>1. up # <<>> /\ Head(up).type = "data" /\ Head(up).id = s /\ Open(s) /\ up' = Tail(up)
    BY <1>10 DEF ReceiveData, ToServer
  <2>2. Head(up) = Chunk(s, next[s]) /\ next[s] < sent[s] /\ Head(up).seq = next[s]
    BY <1>1, <2>1, HeadInSequence DEF Chunk
  <2>3. InSequence(s, Head(up).seq)
    BY <2>2 DEF InSequence
  <2>4. CASE Fail("credit.violation")
    <3>1. PICK S : S = {t \in Streams : Open(t)}
      OBVIOUS
    <3>2. /\ CleanUpStreams(S) /\ S \in SUBSET Streams /\ s \in S /\ UNCHANGED <<next, accepted, down>>
      BY <2>1, <2>4, <3>1 DEF Fail, AbortStreams
    <3> QED
      BY <1>1, <2>1, <3>2, CleanedAccounts
  <2>5. CASE RefuseChunk(s)
    <3>1. /\ CleanUpStreams({s}) /\ {s} \in SUBSET Streams /\ UNCHANGED <<down, accepted>>
          /\ next' = [next EXCEPT ![s] = @ + 1]
      BY <2>5 DEF RefuseChunk, AbortStreams
    <3>2. \A t \in Streams : t \notin {s} => next'[t] = next[t]
      BY <1>1, <3>1
    <3> QED
      BY <1>1, <2>1, <3>1, <3>2, CleanedAccounts
  <2>6. CASE DeliverChunk(s) \/ BufferChunk(s)
    BY <1>1, <2>1, <2>2, <2>6, TakenAccounts
  <2> QED
    BY <1>10, <2>3, <2>4, <2>5, <2>6 DEF ReceiveData
<1> QED
  BY <1>2, <1>3, <1>4, <1>5, <1>6, <1>7, <1>8, <1>9, <1>10 DEF ServerStep

\* The accounts are right at first, ...
LEMMA AccountStart == Init => AccountInv
<1> SUFFICES ASSUME Init, NEW s \in Streams PROVE Account(s)
  BY DEF AccountInv
<1>1. SafeInv
  BY SafeStart
<1>2. /\ up = <<>> /\ down = <<>> /\ live = {} /\ pc[s] = "absent" /\ ~Open(s) /\ inStream[s] = 0
      /\ sent[s] = 0 /\ accepted[s] = <<>>
  BY DEF Init, Open
<1>3. Taken(s) = 0 /\ Prefix(s, 0) = 0 /\ StreamCredit \in Nat
  BY <1>2, PrefixFacts, LimitsAssumption DEF Taken
<1>4. CreditInFlight(s) = 0
  <2>1. down \in Seq(DownFrame) /\ Range(down) = {}
    BY <1>1, <1>2 DEF SafeInv, ServerInv, Range
  <2>2. Weigh(down, Paid(s)) = 0
    BY <2>1, Pays, Weightless
  <2> QED
    BY <1>1, <2>2, InFlight
<1>5. CreditInv(s)
  BY <1>2, <1>3, <1>4 DEF CreditInv, Granted
<1> QED
  BY <1>2, <1>5 DEF Account, WindowInv, FlowInv

\* ... and every step keeps them.
LEMMA AccountNext == SafeInv /\ OrderInv /\ AccountInv /\ [Next]_vars => AccountInv'
<1> SUFFICES ASSUME SafeInv, OrderInv, AccountInv, [Next]_vars PROVE AccountInv'
  OBVIOUS
<1>1. SafeInv'
  BY SafeNext
<1>2. CASE UNCHANGED vars
  <2>1. UNCHANGED <<pc, live, sent, outStream, up, down, phase, next, pending, inStream, accepted>>
    BY <1>2 DEF vars, client, server, response
  <2> QED
    BY <2>1 DEF AccountInv, Account, WindowInv, FlowInv, CreditInv, Granted, Open, Taken,
                DataInFlight, CreditInFlight
<1> QED
  BY <1>1, <1>2, ClientAccounts, ServerAccounts, Steps

Inv == SafeInv /\ OrderInv /\ AccountInv

\* The inductive invariant always holds.
LEMMA Invariant == Spec => []Inv
<1>1. Init => Inv
  BY SafeStart, OrderStart, AccountStart DEF Inv
<1>2. Inv /\ [Next]_vars => Inv'
  BY SafeNext, OrderNext, AccountNext DEF Inv
<1> QED
  BY <1>1, <1>2, PTL DEF Spec

\* While a stream is registered on both sides, every byte of its window is in
\* one place: the client's credit, a data frame, a pending frame or a credit frame.
THEOREM WindowsConserved == Spec => []StreamCreditConserved
<1>1. ASSUME Inv PROVE StreamCreditConserved
  <2> SUFFICES ASSUME NEW s \in live, Open(s)
               PROVE  /\ outStream[s] + DataInFlight(s) + Bytes(s, pending[s])
                             + CreditInFlight(s) = StreamCredit
                      /\ inStream[s] = StreamCredit - Bytes(s, pending[s])
    BY DEF StreamCreditConserved
  <2>0. SafeInv /\ OrderInv /\ s \in Streams
    BY <1>1 DEF Inv, SafeInv, ClientInv
  <2>1. WindowInv(s) /\ FlowInv(s) /\ CreditInv(s)
    BY <1>1, <2>0 DEF Inv, AccountInv, Account
  <2>2. PICK k, m : k = Taken(s) /\ m = next[s] - k
    OBVIOUS
  <2>3. k \in Nat /\ m \in Nat /\ k + m = next[s] /\ k + m <= Len(Body[s]) /\ pending[s] = Run(k, m)
    <3>1. PICK x, y, z : x = next[s] /\ y = sent[s] /\ z = Len(Body[s])
      OBVIOUS
    <3>2. x \in Nat /\ y \in Nat /\ z \in Nat /\ k \in Nat /\ k <= x /\ x <= y /\ y <= z /\ m = x - k
      BY <2>0, <2>2, <3>1, Places
    <3>3. m \in Nat /\ k + m = x /\ x <= z
      BY <3>2
    <3>4. pending[s] = Run(k, m)
      BY <2>0, <2>2 DEF OrderInv, QueueInv
    <3> QED
      BY <3>1, <3>2, <3>3, <3>4
  <2>4. PICK p, n, q, o, c, d, b :
            /\ p = Prefix(s, k) /\ n = Prefix(s, k + m) /\ q = Prefix(s, sent[s]) /\ o = outStream[s]
            /\ c = CreditInFlight(s) /\ d = DataInFlight(s) /\ b = Bytes(s, pending[s])
    OBVIOUS
  <2>5. b \in Nat /\ n = p + b
    BY <2>0, <2>3, <2>4, BytesRun
  <2>6. /\ p \in Nat /\ q \in Nat /\ o \in Nat /\ c \in Nat /\ d \in Nat /\ StreamCredit \in Nat
        /\ Granted(s) = StreamCredit + p
    BY <2>0, <2>2, <2>4, Places, InFlight DEF Granted
  <2>7. d + n = q
    BY <2>1, <2>3, <2>4 DEF FlowInv
  <2>8. o + q + c = StreamCredit + p
    BY <2>1, <2>4, <2>6 DEF CreditInv
  <2>9. o + d + b + c = StreamCredit
    BY <2>5, <2>6, <2>7, <2>8
  <2>10. inStream[s] = StreamCredit - b
    BY <2>1, <2>4 DEF WindowInv
  <2> QED
    BY <2>4, <2>9, <2>10
<1> QED
  BY <1>1, Invariant, PTL

\* Seen from outside the channel is a set of byte streams: chunks in order, each
\* within the window, none after the end.
THEOREM ImplementsStreams == Spec => ImplementsByteStream
<1>1. ASSUME Init PROVE Bytestream!Init
  <2>1. {s \in Streams : phase[s] = "closed"} = {}
    BY <1>1 DEF Init
  <2> QED
    BY <1>1, <2>1 DEF Init, Bytestream!Init
<1>2. ASSUME Inv, [Next]_vars PROVE [Bytestream!Next]_(Bytestream!vars)
  <2>1. SafeInv /\ OrderInv /\ AccountInv /\ QueuesInv
    BY <1>2 DEF Inv, OrderInv, QueuesInv
  <2> DEFINE Ended == {s \in Streams : phase[s] = "closed"}
             Goal == [Bytestream!Next]_(Bytestream!vars)
  <2>2. ASSUME UNCHANGED <<sent, accepted>>, Ended' = Ended PROVE Goal
    BY <2>2 DEF Bytestream!vars
  <2>3. ASSUME NEW S \in SUBSET Streams, CleanUpStreams(S), UNCHANGED <<sent, accepted>> PROVE Goal
    <3>1. Ended' = Ended \cup S
      BY <2>3 DEF CleanUpStreams
    <3>2. Bytestream!End(S)
      BY <2>3, <3>1 DEF Bytestream!End
    <3> QED
      BY <3>2 DEF Bytestream!Next
  <2>4. ASSUME NEW s \in Streams, NEW n \in Nat, n # 0, Taken(s) + n <= sent[s], Open(s),
               accepted' = [accepted EXCEPT ![s] = @ \o Run(Taken(s), n)], sent' = sent,
               Ended' = Ended
        PROVE  Goal
    <3>1. PICK k, m, z : k = Taken(s) /\ m = sent[s] /\ z = Len(Body[s])
      OBVIOUS
    <3>2. k \in Nat /\ m \in Nat /\ z \in Nat /\ m <= z /\ k + n <= m
      BY <2>1, <2>4, <3>1, Places
    <3>3. n \in 1..m - k /\ n \in 1..z
      BY <2>4, <3>2
    <3>4. s \notin Ended
      BY <2>4 DEF Open
    <3>5. accepted' = [accepted EXCEPT ![s] = @ \o [i \in 1..n |-> Len(@) + i - 1]]
      BY <2>4 DEF Run, Taken
    <3>6. Bytestream!Accept(s, n)
      BY <2>4, <3>1, <3>3, <3>4, <3>5 DEF Bytestream!Accept, Taken
    <3> QED
      BY <3>1, <3>3, <3>6 DEF Bytestream!Next
  <2>5. ASSUME NEW s \in Streams, NEW left \in 0..HighWater, Flush(s, left), Open(s),
               UNCHANGED sent, Ended' = Ended
        PROVE  Goal
    <3>1. PICK k, m, n \in Nat :
              /\ k = Taken(s) /\ m = next[s] - k /\ k + m = next[s]
              /\ n = Pulled(s, HighWater - left) /\ n \in 0..m /\ (n # m => left + n = HighWater)
              /\ accepted[s] = Run(0, k) /\ pending[s] = Run(k, m) /\ Len(pending[s]) = m
              /\ SubSeq(pending[s], 1, n) = Run(k, n)
              /\ SubSeq(pending[s], n + 1, m) = Run(k + n, m - n)
      BY <2>1, <2>5, Pulls
    <3>2. accepted' = [accepted EXCEPT ![s] = @ \o Run(k, n)]
      BY <2>5, <3>1 DEF Flush, Accept
    <3>3. CASE n = 0
      <4>1. accepted \in [Streams -> Seq(Nat)] /\ Run(k, n) = <<>>
        BY <2>1, <3>1, <3>3, RunFacts DEF SafeInv, ServerInv
      <4>2. accepted' = accepted
        <5>1. \A q \in Seq(Nat) : q \o <<>> = q
          OBVIOUS
        <5> QED
          BY <3>2, <4>1, <5>1
      <4> QED
        BY <2>2, <2>5, <4>2
    <3>4. CASE n # 0
      <4>1. k = Taken(s) /\ k + m = next[s] /\ n \in 0..m
        BY <3>1, Zenon
      <4>2. PICK x, y : x = next[s] /\ y = sent[s]
        OBVIOUS
      <4>3. x \in Nat /\ y \in Nat /\ x <= y /\ k + m = x
        BY <2>1, <4>1, <4>2, Places
      <4>4. k + n <= y
        BY <4>1, <4>3
      <4> QED
        BY <2>4, <2>5, <3>2, <3>4, <4>1, <4>2, <4>4
    <3> QED
      BY <3>3, <3>4
  <2>6. CASE UNCHANGED vars
    BY <2>2, <2>6 DEF vars, client, server, response
  <2>7. CASE ClientStep
    <3>1. UNCHANGED <<phase, accepted>>
      BY <2>1, <2>7, ClientSafe DEF SafeInv, ServerInv, server, response
    <3>2. Ended' = Ended
      BY <3>1
    <3>3. ASSUME NEW s \in Streams, SendData(s) PROVE Goal
      <4>1. CreditInv(s) /\ pc[s] = "cleared" /\ sent' = [sent EXCEPT ![s] = @ + 1]
        BY <2>1, <3>3 DEF AccountInv, Account, SendData
      <4>2. sent[s] \in Chunks(s)
        BY <2>1, <4>1 DEF SafeInv, ClientInv, SendInv, Chunks
      <4>3. PICK p, r : p = Prefix(s, Taken(s)) /\ r = Prefix(s, sent[s] + 1)
        OBVIOUS
      <4>4. p \in Nat /\ StreamCredit \in Nat /\ r <= StreamCredit + p /\ r \in Nat
        <5>1. r = Prefix(s, sent[s]) + Size(s, sent[s])
          BY <4>2, <4>3, PrefixFacts
        <5>2. r \in Nat
          BY <4>2, <5>1, PrefixFacts
        <5> QED
          BY <2>1, <4>1, <4>3, <5>2, Places DEF CreditInv, Granted
      <4>5. r - p <= StreamCredit
        BY <4>4
      <4>6. Bytestream!Prefix(s, sent[s] + 1) - Bytestream!Prefix(s, Len(accepted[s])) <= StreamCredit
        <5>1. \A n : Bytestream!Prefix(s, n) = Prefix(s, n)
          BY DEF Bytestream!Prefix, Prefix, Bytestream!SumFunctionOnSet, SumFunctionOnSet,
                 Bytestream!FoldFunctionOnSet, FoldFunctionOnSet,
                 Bytestream!MapThenFoldSet, MapThenFoldSet
        <5>2. /\ Bytestream!Prefix(s, sent[s] + 1) = r
              /\ Bytestream!Prefix(s, Len(accepted[s])) = p
          BY <4>3, <5>1, Zenon DEF Taken
        <5> QED
          BY <4>5, <5>2
      <4>7. Bytestream!Send(s)
        BY <3>1, <3>2, <4>1, <4>2, <4>6 DEF Bytestream!Send, Chunks
      <4> QED
        BY <4>7 DEF Bytestream!Next
    <3>4. CASE sent' = sent
      BY <2>2, <3>1, <3>2, <3>4
    <3>5. sent' = sent \/ \E s \in Streams : SendData(s)
      BY <2>7 DEF ClientStep, ClientReceives, Coroutine, ReceiveRequest, ReceiveStreamCredit,
                  ReceiveChannelCredit, ReceiveRequestAbort, Answered, SendStart, AskCredit,
                  BodyRead, SendEnd, SendAbort, OriginFails
    <3> QED
      BY <3>3, <3>4, <3>5
  <2>8. CASE ServerStep
    <3>1. sent' = sent
      BY <2>1, <2>8, ServerSafe DEF SafeInv, ClientInv, client
    <3>2. phase \in [Streams -> Phase] /\ HighWater \in Nat
      BY <2>1, LimitsAssumption DEF SafeInv, ServerInv
    <3>3. CASE IgnoreFrame
      BY <2>2, <3>3 DEF IgnoreFrame, client, server, response
    <3>4. ASSUME NEW s \in Streams, PublicRequest(s) PROVE Goal
      <4>1. UNCHANGED accepted /\ phase[s] = "absent" /\ phase' = [phase EXCEPT ![s] = "waiting"]
        BY <3>4 DEF PublicRequest, response
      <4>2. Ended' = Ended
        BY <3>2, <4>1
      <4> QED
        BY <2>2, <3>1, <4>1, <4>2
    <3>5. ASSUME NEW s \in Streams, Read(s) PROVE Goal
      <4>1. unread[s] > 0 /\ phase' = phase /\ unread[s] \in 0..HighWater
        BY <2>1, <3>5 DEF Read, SafeInv, ServerInv
      <4>2. CASE phase[s] = "open"
        <5>1. unread[s] - 1 \in 0..HighWater /\ Flush(s, unread[s] - 1) /\ Open(s)
          BY <3>2, <3>5, <4>1, <4>2 DEF Read, Open
        <5> QED
          BY <2>5, <3>1, <4>1, <5>1
      <4>3. CASE phase[s] # "open"
        BY <2>2, <3>1, <3>5, <4>1, <4>3 DEF Read
      <4> QED
        BY <4>2, <4>3
    <3>6. ASSUME NEW s \in Streams,
                 PublicAbort(s) \/ Timeout(s) \/ RefuseStart(s) \/ ReceiveAbort(s) \/ ReceiveBodyless(s)
          PROVE  Goal
      <4>1. CleanUpStreams({s}) /\ {s} \in SUBSET Streams /\ UNCHANGED accepted
        BY <3>6 DEF PublicAbort, Timeout, RefuseStart, ReceiveAbort, ReceiveBodyless, AbortStreams
      <4> QED
        BY <2>3, <3>1, <4>1
    <3>7. ASSUME NEW why, Fail(why) PROVE Goal
      <4>1. PICK S : S = {t \in Streams : Open(t)}
        BY Zenon
      <4>2. CleanUpStreams(S) /\ S \in SUBSET Streams /\ UNCHANGED accepted
        BY <3>7, <4>1 DEF Fail, AbortStreams
      <4> QED
        BY <2>3, <3>1, <4>2
    <3>8. ASSUME NEW s \in Streams, ReceiveEnd(s) PROVE Goal
      <4>1. FinishResponse(s) => CleanUpStreams({s}) /\ {s} \in SUBSET Streams /\ UNCHANGED accepted
        BY DEF FinishResponse
      <4> QED
        BY <2>3, <3>1, <3>7, <3>8, <4>1 DEF ReceiveEnd
    <3>9. ASSUME NEW s \in Streams, ReceiveStart(s) PROVE Goal
      <4>1. /\ phase[s] = "waiting" /\ phase' = [phase EXCEPT ![s] = "open"] /\ Flush(s, 0)
            /\ 0 \in 0..HighWater
        BY <3>2, <3>9 DEF ReceiveStart
      <4>2. Open(s) /\ Ended' = Ended
        BY <3>2, <4>1 DEF Open
      <4> QED
        BY <2>5, <3>1, <4>1, <4>2
    <3>10. ASSUME NEW s \in Streams, ReceiveData(s) PROVE Goal
      <4>1. CASE RefuseChunk(s)
        <5>1. CleanUpStreams({s}) /\ {s} \in SUBSET Streams /\ UNCHANGED accepted
          BY <4>1 DEF RefuseChunk, AbortStreams
        <5> QED
          BY <2>3, <3>1, <5>1
      <4>2. CASE BufferChunk(s)
        BY <2>2, <3>1, <4>2 DEF BufferChunk, response
      <4>3. CASE DeliverChunk(s)
        <5>1. up # <<>> /\ Head(up).type = "data" /\ Head(up).id = s /\ Open(s)
          BY <3>10 DEF ReceiveData, ToServer
        <5>2. Head(up).seq = next[s] /\ next[s] < sent[s]
          BY <2>1, <5>1, HeadInSequence DEF OrderInv, Chunk
        <5>3. Taken(s) = next[s]
          BY <2>1, <4>3, NothingPending DEF DeliverChunk
        <5>4. accepted' = [accepted EXCEPT ![s] = @ \o <<Head(up).seq>>] /\ phase' = phase
          BY <4>3 DEF DeliverChunk, Accept
        <5>5. Run(Taken(s), 1) = <<Taken(s)>>
          BY <2>1, Places, RunNext
        <5>6. accepted' = [accepted EXCEPT ![s] = @ \o Run(Taken(s), 1)]
          BY <5>2, <5>3, <5>4, <5>5
        <5>7. Taken(s) + 1 <= sent[s]
          <6>1. PICK x, y : x = next[s] /\ y = sent[s]
            OBVIOUS
          <6>2. x \in Nat /\ y \in Nat /\ x < y
            BY <2>1, <5>2, <6>1, Places
          <6>3. x + 1 <= y
            BY <6>2
          <6> QED
            BY <5>3, <6>1, <6>3
        <5>8. 1 \in Nat /\ 1 # 0 /\ Ended' = Ended
          BY <5>4
        <5> QED
          BY <2>4, <3>1, <5>1, <5>6, <5>7, <5>8
      <4> QED
        BY <3>7, <3>10, <4>1, <4>2, <4>3 DEF ReceiveData
    <3> QED
      BY <2>8, <3>3, <3>4, <3>5, <3>6, <3>8, <3>9, <3>10 DEF ServerStep
  <2> QED
    BY <1>2, <2>6, <2>7, <2>8, Steps
<1> QED
  BY <1>1, <1>2, Invariant, PTL DEF Spec, ImplementsByteStream, Bytestream!Spec

\* The chunk in front of a registered stream is within the stream's window.
WithinStreamWindow ==
    \A s \in Streams : ToServer("data") /\ Head(up).id = s /\ Open(s) =>
                           Size(s, Head(up).seq) <= inStream[s]

\* However streams share the channel, the server never finds more in flight than
\* it granted to the stream: only the window of the channel can be overrun.
THEOREM StreamWindowRespected == Spec => []WithinStreamWindow
<1>1. ASSUME Inv PROVE WithinStreamWindow
  <2> SUFFICES ASSUME NEW s \in Streams, ToServer("data"), Head(up).id = s, Open(s)
               PROVE  Size(s, Head(up).seq) <= inStream[s]
    BY DEF WithinStreamWindow
  <2>1. /\ SafeInv /\ OrderInv /\ LinkInv /\ WindowInv(s) /\ FlowInv(s) /\ CreditInv(s)
        /\ up # <<>> /\ up \in Seq(UpFrame)
    BY <1>1 DEF Inv, OrderInv, AccountInv, Account, ToServer, SafeInv, ClientInv
  <2>2. Head(up) = Chunk(s, next[s]) /\ Head(up).seq = next[s] /\ Head(up).type = "data"
    BY <2>1, HeadInSequence DEF ToServer, Chunk
  <2>3. next[s] \in Chunks(s) /\ Tail(up) \in Seq(UpFrame)
    BY <2>1, <2>2, FrameUp
  <2>4. PICK k, m : k = Taken(s) /\ m = next[s] - k
    OBVIOUS
  <2>5. k \in Nat /\ m \in Nat /\ k + m = next[s] /\ k + m <= Len(Body[s]) /\ pending[s] = Run(k, m)
    <3>1. PICK x, y, z : x = next[s] /\ y = sent[s] /\ z = Len(Body[s])
      OBVIOUS
    <3>2. x \in Nat /\ y \in Nat /\ z \in Nat /\ k \in Nat /\ k <= x /\ x <= y /\ y <= z /\ m = x - k
      BY <2>1, <2>4, <3>1, Places
    <3>3. m \in Nat /\ k + m = x /\ x <= z
      BY <3>2
    <3>4. pending[s] = Run(k, m)
      BY <2>1, <2>4 DEF OrderInv, QueueInv
    <3> QED
      BY <3>1, <3>2, <3>3, <3>4
  <2>6. PICK p, n, q, d, e, b, z :
            /\ p = Prefix(s, k) /\ n = Prefix(s, next[s]) /\ q = Prefix(s, sent[s])
            /\ d = DataInFlight(s) /\ e = Weigh(Tail(up), Carried(s))
            /\ b = Bytes(s, pending[s]) /\ z = Size(s, next[s])
    OBVIOUS
  <2>7. b \in Nat /\ n = p + b
    BY <2>5, <2>6, BytesRun
  <2>8. p \in Nat /\ q \in Nat /\ d \in Nat /\ StreamCredit \in Nat /\ Granted(s) = StreamCredit + p
    BY <2>1, <2>4, <2>6, Places, InFlight DEF Granted
  <2>9. d = z + e /\ e \in Nat /\ z \in Nat
    <3>1. Carried(s)[Head(up)] = z /\ Carried(s) \in [UpFrame -> Nat] /\ z \in Nat
      BY <2>2, <2>3, <2>6, Carries, SizeType
    <3>2. Weigh(up, Carried(s)) = Carried(s)[Head(up)] + Weigh(Tail(up), Carried(s))
      BY <2>1, <3>1, WeighPopped
    <3>3. Weigh(Tail(up), Carried(s)) \in Nat
      BY <2>3, <3>1, WeighType
    <3> QED
      BY <2>1, <2>6, <3>1, <3>2, <3>3, InFlight
  <2>10. d + n = q /\ q <= StreamCredit + p
    BY <2>1, <2>6, <2>8 DEF FlowInv, CreditInv
  <2>11. z <= StreamCredit - b
    BY <2>7, <2>8, <2>9, <2>10
  <2>12. inStream[s] = StreamCredit - b
    BY <2>1, <2>6 DEF WindowInv
  <2> QED
    BY <2>2, <2>6, <2>11, <2>12
<1> QED
  BY <1>1, Invariant, PTL
=============================================================================
