------------------------ MODULE RequestChannelProofs ------------------------
(* Theorems about RequestChannel, for every set of streams, all bodies and both *)
(* windows: a pump that sleeps is woken, no frame is out of sequence, a request   *)
(* body that ends is whole, the windows of the streams are conserved, and the     *)
(* channel implements ByteStream.                                                 *)
(*                                                                               *)
(* The invariant is about the frames on the way to the client. While the client  *)
(* knows the stream, or is going to, its data frames are exactly the chunks from *)
(* receiveNextSeq up to sendNextSeq, in order (DataInv); the request comes before *)
(* them (RequestInv), the end after them and when the body is whole (EndInv).    *)
(* On it rest the accounts: credit is what was granted less what was sent         *)
(* (CreditInv), and what is in flight is what was sent less what was taken        *)
(* (FlowInv), both as prefix sums of the body.                                    *)
EXTENDS RequestChannel, SumTheorems

DownFrame == [type : {"request", "abort"}, id : Streams]
        \cup [type : {"data"}, id : Streams, seq : Nat]
        \cup [type : {"end"}, id : Streams, last : Int]
UpFrame == [type : {"stream.credit"}, id : Streams, bytes : Nat]
      \cup [type : {"channel.credit"}, bytes : Nat]
      \cup [type : {"start", "end", "abort"}, id : Streams]

TypeInv == TypeOK /\ down \in Seq(DownFrame) /\ up \in Seq(UpFrame)

\* Where the pump is tells how much of the body was sent.
PumpInv ==
    \A s \in Streams :
        /\ sent[s] <= Len(Body[s])
        /\ pc[s] \in {"waiting", "woken", "cleared"} => sent[s] < Len(Body[s])
        /\ pc[s] = "ending" => sent[s] = Len(Body[s])
        /\ pc[s] = "absent" => sent[s] = 0 /\ s \notin open

Is(i, type, s) == down[i].type = type /\ down[i].id = s
Untouched(s) == next[s] = 0 /\ s \notin live /\ writer[s] = "none"

\* Nothing of a stream is there before its request.
RequestInv ==
    \A s \in Streams :
        /\ pc[s] = "absent" => Untouched(s) /\ \A i \in DOMAIN down : down[i].id # s
        /\ \A i \in DOMAIN down : Is(i, "request", s) =>
               Untouched(s) /\ \A j \in DOMAIN down : j < i => down[j].id # s

\* The client takes frames of s, or will when it has read the request.
Coming(s) == s \in live \/ \E i \in DOMAIN down : Is(i, "request", s)

DataInv ==
    \A s \in Streams :
        /\ next[s] <= sent[s]
        /\ \A i \in DOMAIN down : Is(i, "data", s) => down[i].seq < sent[s]
        /\ \A i, j \in DOMAIN down : i < j /\ Is(i, "data", s) /\ Is(j, "data", s)
               => down[i].seq < down[j].seq
        /\ Coming(s) =>
               /\ \A i \in DOMAIN down : Is(i, "data", s) => next[s] <= down[i].seq
               /\ \A n \in Nat : next[s] <= n /\ n < sent[s] =>
                      \E i \in DOMAIN down : Is(i, "data", s) /\ down[i].seq = n

EndInv ==
    \A s \in Streams : \A i \in DOMAIN down : Is(i, "end", s) =>
        /\ pc[s] = "gone" /\ sent[s] = Len(Body[s]) /\ down[i].last = sent[s] - 1
        /\ \A j \in DOMAIN down : i < j => ~Is(j, "data", s)

\* What the origin read, against what the channel's handler has taken.
WriteOf(s) ==
    /\ read[s] = [n \in 1..Len(read[s]) |-> n - 1]
    /\ writer[s] = "none" => read[s] = <<>> /\ next[s] = 0
    /\ writer[s] = "open" =>
           next[s] = IF busy = s THEN Len(read[s]) + 1 ELSE Len(read[s])
    /\ writer[s] = "closed" =>
           next[s] = Len(Body[s]) /\ Len(read[s]) = Len(Body[s])
WriteInv == /\ busy # NoStream => writer[busy] = "open"
            /\ \A s \in live : writer[s] # "none"
            /\ \A s \in Streams : WriteOf(s)

LinkInv == RequestInv /\ DataInv /\ EndInv
IInv == TypeInv /\ PumpInv /\ LinkInv /\ WriteInv /\ NoLostWakeup /\ NoProtocolError

\* The frame that fails the connection is gone from the link.
Inv == /\ TypeInv /\ PumpInv /\ WriteInv /\ NoLostWakeup /\ NoProtocolError
       /\ fault = "none" => LinkInv

-----------------------------------------------------------------------------
(* The two ends of a link.                                                     *)

\* A frame at the end of a link moves no other frame.
LEMMA Pushed ==
    ASSUME NEW S, NEW link \in Seq(S), NEW f \in S
    PROVE  LET more == Append(link, f)
           IN /\ more \in Seq(S) /\ Len(more) = Len(link) + 1
              /\ DOMAIN link = 1..Len(link) /\ DOMAIN more = 1..Len(link) + 1
              /\ more[Len(link) + 1] = f
              /\ \A i \in DOMAIN link : more[i] = link[i]
  OBVIOUS

\* Several frames at the end of a link.
LEMMA Joined ==
    ASSUME NEW S, NEW link \in Seq(S), NEW more \in Seq(S)
    PROVE  link \o more \in Seq(S)
  OBVIOUS

\* Without its head every frame of a link moves up.
LEMMA Popped ==
    ASSUME NEW S, NEW link \in Seq(S), link # <<>>
    PROVE  LET rest == Tail(link)
           IN /\ rest \in Seq(S) /\ Head(link) = link[1] /\ link[1] \in S
              /\ Len(link) \in Nat \ {0} /\ DOMAIN link = 1..Len(link)
              /\ DOMAIN rest = 1..Len(link) - 1
              /\ \A i \in DOMAIN rest : rest[i] = link[i + 1]
  OBVIOUS

-----------------------------------------------------------------------------
(* What the steps do to the invariant of the link, one kind of step at a time. *)

\* A stream the client does not know stays so, but for its request.
ClientOnward == /\ live' \subseteq live
                /\ \A s \in Streams : s \notin live /\ writer[s] = "none" => writer'[s] = "none"
PumpOnward == \A s \in Streams : /\ pc'[s] = "absent" => pc[s] = "absent"
                                 /\ pc[s] = "gone" => pc'[s] = "gone"

\* Steps that neither send nor take a frame of the link.
LEMMA LinkKept ==
    ASSUME LinkInv, UNCHANGED <<down, sent, next>>, ClientOnward, PumpOnward
    PROVE  LinkInv'
<1>1. \A s \in Streams : Coming(s)' => Coming(s)
  BY DEF Coming, ClientOnward, Is
<1>2. RequestInv'
  BY DEF LinkInv, RequestInv, Untouched, ClientOnward, PumpOnward, Is
<1>3. DataInv'
  BY <1>1 DEF LinkInv, DataInv, Is
<1>4. EndInv'
  BY DEF LinkInv, EndInv, PumpOnward, Is
<1> QED
  BY <1>2, <1>3, <1>4 DEF LinkInv

\* The client takes a frame that is no request, and no chunk of a stream it knows.
LEMMA LinkPopped ==
    ASSUME LinkInv, TypeInv, down # <<>>, down' = Tail(down),
           UNCHANGED <<sent, next, pc>>, ClientOnward,
           Head(down).type # "request",
           Head(down).type = "data" => Head(down).id \notin live
    PROVE  LinkInv'
<1>1. /\ DOMAIN down' = 1..Len(down) - 1 /\ DOMAIN down = 1..Len(down)
      /\ Len(down) \in Nat \ {0} /\ Head(down) = down[1]
      /\ \A i \in DOMAIN down' : down'[i] = down[i + 1]
  BY Popped DEF TypeInv
<1>2. \A i \in DOMAIN down' : /\ i + 1 \in DOMAIN down /\ i \in Nat /\ 1 < i + 1
                              /\ \A type, s : Is(i, type, s)' <=> Is(i + 1, type, s)
  BY <1>1 DEF Is
<1>3. \A s \in Streams : Coming(s)' => Coming(s)
  BY <1>2 DEF Coming, ClientOnward
<1>4. \A s \in Streams : Coming(s)' => ~Is(1, "data", s)
  <2> SUFFICES ASSUME NEW s \in Streams, Coming(s)', Is(1, "data", s) PROVE FALSE
    OBVIOUS
  <2>1. s \notin live'
    BY <1>1 DEF Is, ClientOnward
  <2>2. PICK i \in DOMAIN down' : Is(i + 1, "request", s)
    BY <1>2, <2>1 DEF Coming
  <2>3. 1 \in DOMAIN down /\ 1 < i + 1 /\ i + 1 \in DOMAIN down
    BY <1>1, <1>2
  <2> QED
    BY <2>2, <2>3 DEF LinkInv, RequestInv, Is
<1>5. RequestInv'
  <2> SUFFICES ASSUME NEW s \in Streams
               PROVE  /\ pc[s] = "absent" =>
                            Untouched(s)' /\ \A i \in DOMAIN down' : down'[i].id # s
                      /\ \A i \in DOMAIN down' : Is(i, "request", s)' =>
                            Untouched(s)' /\ \A j \in DOMAIN down' : j < i => down'[j].id # s
    BY DEF RequestInv
  <2>1. Untouched(s) => Untouched(s)'
    BY DEF Untouched, ClientOnward
  <2>2. CASE pc[s] = "absent"
    BY <1>1, <1>2, <2>1, <2>2 DEF LinkInv, RequestInv, Is
  <2>3. ASSUME NEW i \in DOMAIN down', Is(i, "request", s)'
        PROVE  Untouched(s)' /\ \A j \in DOMAIN down' : j < i => down'[j].id # s
    <3>1. Is(i + 1, "request", s) /\ i + 1 \in DOMAIN down
      BY <1>2, <2>3
    <3>2. Untouched(s) /\ \A j \in DOMAIN down : j < i + 1 => down[j].id # s
      BY <3>1 DEF LinkInv, RequestInv
    <3>3. \A j \in DOMAIN down' : j < i => j + 1 < i + 1 /\ down'[j] = down[j + 1] /\ j + 1 \in DOMAIN down
      BY <1>1
    <3> QED
      BY <2>1, <3>2, <3>3
  <2> QED
    BY <2>2, <2>3
<1>6. DataInv'
  <2> SUFFICES ASSUME NEW s \in Streams
               PROVE  /\ next[s] <= sent[s]
                      /\ \A i \in DOMAIN down' : Is(i, "data", s)' => down'[i].seq < sent[s]
                      /\ \A i, j \in DOMAIN down' : i < j /\ Is(i, "data", s)' /\ Is(j, "data", s)'
                            => down'[i].seq < down'[j].seq
                      /\ Coming(s)' =>
                            /\ \A i \in DOMAIN down' : Is(i, "data", s)' => next[s] <= down'[i].seq
                            /\ \A n \in Nat : next[s] <= n /\ n < sent[s] =>
                                   \E i \in DOMAIN down' : Is(i, "data", s)' /\ down'[i].seq = n
    BY DEF DataInv
  <2>1. next[s] <= sent[s] /\ \A i \in DOMAIN down' : Is(i, "data", s)' => down'[i].seq < sent[s]
    BY <1>1, <1>2 DEF LinkInv, DataInv
  <2>2. ASSUME NEW i \in DOMAIN down', NEW j \in DOMAIN down',
               i < j, Is(i, "data", s)', Is(j, "data", s)'
        PROVE  down'[i].seq < down'[j].seq
    <3>1. i + 1 < j + 1 /\ Is(i + 1, "data", s) /\ Is(j + 1, "data", s)
      BY <1>2, <2>2
    <3> QED
      BY <1>1, <1>2, <3>1 DEF LinkInv, DataInv
  <2>3. ASSUME Coming(s)', NEW i \in DOMAIN down', Is(i, "data", s)'
        PROVE  next[s] <= down'[i].seq
    BY <1>1, <1>2, <1>3, <2>3 DEF LinkInv, DataInv
  <2>4. ASSUME Coming(s)', NEW n \in Nat, next[s] <= n, n < sent[s]
        PROVE  \E i \in DOMAIN down' : Is(i, "data", s)' /\ down'[i].seq = n
    <3>1. PICK k \in DOMAIN down : Is(k, "data", s) /\ down[k].seq = n
      BY <1>3, <2>4 DEF LinkInv, DataInv
    <3>2. k # 1
      BY <1>4, <2>4, <3>1
    <3>3. k - 1 \in DOMAIN down' /\ (k - 1) + 1 = k
      BY <1>1, <3>2
    <3> QED
      BY <1>1, <1>2, <3>1, <3>3
  <2> QED
    BY <2>1, <2>2, <2>3, <2>4
<1>7. EndInv'
  <2> SUFFICES ASSUME NEW s \in Streams, NEW i \in DOMAIN down', Is(i, "end", s)'
               PROVE  /\ pc[s] = "gone" /\ sent[s] = Len(Body[s]) /\ down'[i].last = sent[s] - 1
                      /\ \A j \in DOMAIN down' : i < j => ~Is(j, "data", s)'
    BY DEF EndInv
  <2>1. Is(i + 1, "end", s) /\ i + 1 \in DOMAIN down /\ down'[i] = down[i + 1]
    BY <1>1, <1>2
  <2>2. /\ pc[s] = "gone" /\ sent[s] = Len(Body[s]) /\ down[i + 1].last = sent[s] - 1
        /\ \A j \in DOMAIN down : i + 1 < j => ~Is(j, "data", s)
    BY <2>1 DEF LinkInv, EndInv
  <2>3. \A j \in DOMAIN down' : i < j => i + 1 < j + 1
    BY <1>1
  <2> QED
    BY <1>2, <2>1, <2>2, <2>3
<1> QED
  BY <1>5, <1>6, <1>7 DEF LinkInv

\* An abort or an end joins the link: of a stream that started, and an end only when
\* the pump is done.
LEMMA LinkPushed ==
    ASSUME LinkInv, TypeInv, NEW f \in DownFrame, down' = Append(down, f),
           UNCHANGED <<sent, next, live, writer>>, PumpOnward,
           f.type \in {"abort", "end"}, pc[f.id] # "absent", f.id \in Streams,
           f.type = "end" => /\ pc'[f.id] = "gone" /\ sent[f.id] = Len(Body[f.id])
                             /\ f.last = sent[f.id] - 1
    PROVE  LinkInv'
<1> PICK last : last = Len(down) + 1
  OBVIOUS
<1>1. /\ DOMAIN down' = 1..last /\ DOMAIN down = 1..Len(down) /\ Len(down) \in Nat
      /\ down'[last] = f /\ \A i \in DOMAIN down : down'[i] = down[i]
  BY Pushed DEF TypeInv
<1>2. \A i \in DOMAIN down' : i # last => i \in DOMAIN down
  BY <1>1
<1>3. \A i \in DOMAIN down : \A type, s : Is(i, type, s)' <=> Is(i, type, s)
  BY <1>1 DEF Is
<1>4. \A s : ~Is(last, "data", s)' /\ ~Is(last, "request", s)'
  BY <1>1 DEF Is
<1>5. DOMAIN down \subseteq DOMAIN down' /\ \A i \in DOMAIN down' : i \in Nat
  BY <1>1
<1>6. \A s \in Streams : Coming(s)' => Coming(s)
  BY <1>2, <1>3, <1>4 DEF Coming
<1>7. RequestInv'
  <2> SUFFICES ASSUME NEW s \in Streams
               PROVE  /\ pc'[s] = "absent" =>
                            Untouched(s) /\ \A i \in DOMAIN down' : down'[i].id # s
                      /\ \A i \in DOMAIN down' : Is(i, "request", s)' =>
                            Untouched(s) /\ \A j \in DOMAIN down' : j < i => down'[j].id # s
    BY DEF RequestInv, Untouched
  <2>1. CASE pc'[s] = "absent"
    BY <1>1, <1>2, <2>1 DEF LinkInv, RequestInv, PumpOnward, Is
  <2>2. ASSUME NEW i \in DOMAIN down', Is(i, "request", s)'
        PROVE  Untouched(s) /\ \A j \in DOMAIN down' : j < i => down'[j].id # s
    <3>1. i \in DOMAIN down /\ Is(i, "request", s)
      BY <1>2, <1>3, <1>4, <2>2
    <3>2. \A j \in DOMAIN down' : j < i => j \in DOMAIN down
      BY <1>1, <3>1
    <3> QED
      BY <1>1, <3>1, <3>2 DEF LinkInv, RequestInv
  <2> QED
    BY <2>1, <2>2
<1>8. DataInv'
  BY <1>1, <1>2, <1>3, <1>4, <1>5, <1>6 DEF LinkInv, DataInv
<1>9. EndInv'
  <2> SUFFICES ASSUME NEW s \in Streams, NEW i \in DOMAIN down', Is(i, "end", s)'
               PROVE  /\ pc'[s] = "gone" /\ sent[s] = Len(Body[s]) /\ down'[i].last = sent[s] - 1
                      /\ \A j \in DOMAIN down' : i < j => ~Is(j, "data", s)'
    BY DEF EndInv
  <2>1. CASE i = last
    BY <1>1, <2>1 DEF Is
  <2>2. CASE i # last
    BY <1>1, <1>2, <1>3, <1>4, <2>2 DEF LinkInv, EndInv, PumpOnward
  <2> QED
    BY <2>1, <2>2
<1> QED
  BY <1>7, <1>8, <1>9 DEF LinkInv

\* The counters of the streams are numbers.
LEMMA Counters ==
    TypeInv => sent \in [Streams -> Nat] /\ next \in [Streams -> Nat]
  BY DEF TypeInv, TypeOK

\* The next chunk joins the link.
LEMMA LinkData ==
    ASSUME LinkInv, TypeInv, NEW s \in Streams, pc[s] = "cleared",
           down' = Append(down, [type |-> "data", id |-> s, seq |-> sent[s]]),
           sent' = [sent EXCEPT ![s] = @ + 1],
           UNCHANGED <<next, live, writer>>, PumpOnward
    PROVE  LinkInv'
<1> PICK last : last = Len(down) + 1
  OBVIOUS
<1>a. sent \in [Streams -> Nat] /\ next \in [Streams -> Nat]
  BY Counters
<1> PICK f : f = [type |-> "data", id |-> s, seq |-> sent[s]]
  OBVIOUS
<1>b. f \in DownFrame
  BY <1>a DEF DownFrame
<1>0. sent \in [Streams -> Nat] /\ next \in [Streams -> Nat] /\ f \in DownFrame
  BY <1>a, <1>b
<1>1. /\ DOMAIN down' = 1..last /\ DOMAIN down = 1..Len(down) /\ Len(down) \in Nat
      /\ down'[last] = f /\ \A i \in DOMAIN down : down'[i] = down[i]
  BY <1>0, Pushed DEF TypeInv
<1>2. \A i \in DOMAIN down' : i # last => i \in DOMAIN down
  BY <1>1
<1>3. \A i \in DOMAIN down : \A type, t : Is(i, type, t)' <=> Is(i, type, t)
  BY <1>1 DEF Is
<1>4. /\ \A t : ~Is(last, "request", t)' /\ ~Is(last, "end", t)'
      /\ \A t : Is(last, "data", t)' <=> t = s
      /\ down'[last].seq = sent[s]
  BY <1>1 DEF Is
<1>5. DOMAIN down \subseteq DOMAIN down' /\ last \in DOMAIN down' /\ \A i \in DOMAIN down' : i \in Nat
  BY <1>1
<1>6. \A t \in Streams : Coming(t)' => Coming(t)
  BY <1>2, <1>3, <1>4 DEF Coming
<1>7. \A t \in Streams : /\ sent[t] <= sent'[t] /\ sent'[t] \in Nat
                         /\ t # s => sent'[t] = sent[t]
  BY <1>0
<1>8. RequestInv'
  <2> SUFFICES ASSUME NEW t \in Streams
               PROVE  /\ pc'[t] = "absent" =>
                            Untouched(t) /\ \A i \in DOMAIN down' : down'[i].id # t
                      /\ \A i \in DOMAIN down' : Is(i, "request", t)' =>
                            Untouched(t) /\ \A j \in DOMAIN down' : j < i => down'[j].id # t
    BY DEF RequestInv, Untouched
  <2>1. CASE pc'[t] = "absent"
    BY <1>1, <1>2, <2>1 DEF LinkInv, RequestInv, PumpOnward, Is
  <2>2. ASSUME NEW i \in DOMAIN down', Is(i, "request", t)'
        PROVE  Untouched(t) /\ \A j \in DOMAIN down' : j < i => down'[j].id # t
    <3>1. i \in DOMAIN down /\ Is(i, "request", t)
      BY <1>2, <1>3, <1>4, <2>2
    <3>2. \A j \in DOMAIN down' : j < i => j \in DOMAIN down
      BY <1>1, <3>1
    <3> QED
      BY <1>1, <3>1, <3>2 DEF LinkInv, RequestInv
  <2> QED
    BY <2>1, <2>2
<1>9. DataInv'
  <2> SUFFICES ASSUME NEW t \in Streams
               PROVE  /\ next[t] <= sent'[t]
                      /\ \A i \in DOMAIN down' : Is(i, "data", t)' => down'[i].seq < sent'[t]
                      /\ \A i, j \in DOMAIN down' : i < j /\ Is(i, "data", t)' /\ Is(j, "data", t)'
                            => down'[i].seq < down'[j].seq
                      /\ Coming(t)' =>
                            /\ \A i \in DOMAIN down' : Is(i, "data", t)' => next[t] <= down'[i].seq
                            /\ \A n \in Nat : next[t] <= n /\ n < sent'[t] =>
                                   \E i \in DOMAIN down' : Is(i, "data", t)' /\ down'[i].seq = n
    BY DEF DataInv
  <2>1. next[t] <= sent[t] /\ \A i \in DOMAIN down : Is(i, "data", t) => down[i].seq < sent[t]
    BY DEF LinkInv, DataInv
  <2>2. \A i \in DOMAIN down : Is(i, "data", t) => down[i].seq \in Nat
    <3> SUFFICES ASSUME NEW i \in DOMAIN down, Is(i, "data", t) PROVE down[i].seq \in Nat
      OBVIOUS
    <3>1. down[i] \in DownFrame /\ down[i].type = "data"
      BY DEF TypeInv, Is
    <3> QED
      BY <3>1 DEF DownFrame
  <2>3. next[t] <= sent'[t]
    BY <1>0, <1>7, <2>1
  <2>4. \A i \in DOMAIN down' : Is(i, "data", t)' => down'[i].seq < sent'[t]
    <3> SUFFICES ASSUME NEW i \in DOMAIN down', Is(i, "data", t)' PROVE down'[i].seq < sent'[t]
      OBVIOUS
    <3>1. CASE i = last
      BY <1>0, <1>4, <3>1
    <3>2. CASE i # last
      BY <1>0, <1>1, <1>2, <1>3, <1>7, <2>1, <2>2, <3>2
    <3> QED
      BY <3>1, <3>2
  <2>5. ASSUME NEW i \in DOMAIN down', NEW j \in DOMAIN down',
               i < j, Is(i, "data", t)', Is(j, "data", t)'
        PROVE  down'[i].seq < down'[j].seq
    <3>1. i \in DOMAIN down
      BY <1>1, <2>5
    <3>2. CASE j = last
      BY <1>1, <1>3, <1>4, <2>1, <2>5, <3>1, <3>2
    <3>3. CASE j # last
      BY <1>1, <1>2, <1>3, <2>5, <3>1, <3>3 DEF LinkInv, DataInv
    <3> QED
      BY <3>2, <3>3
  <2>6. ASSUME Coming(t)', NEW i \in DOMAIN down', Is(i, "data", t)'
        PROVE  next[t] <= down'[i].seq
    <3>1. CASE i = last
      BY <1>4, <2>1, <2>6, <3>1
    <3>2. CASE i # last
      BY <1>1, <1>2, <1>3, <1>6, <2>6, <3>2 DEF LinkInv, DataInv
    <3> QED
      BY <3>1, <3>2
  <2>7. ASSUME Coming(t)', NEW n \in Nat, next[t] <= n, n < sent'[t]
        PROVE  \E i \in DOMAIN down' : Is(i, "data", t)' /\ down'[i].seq = n
    <3>1. CASE n < sent[t]
      <4>1. PICK i \in DOMAIN down : Is(i, "data", t) /\ down[i].seq = n
        BY <1>6, <2>7, <3>1 DEF LinkInv, DataInv
      <4> QED
        BY <1>1, <1>3, <1>5, <4>1
    <3>2. CASE ~(n < sent[t])
      <4>1. t = s /\ n = sent[s]
        BY <1>0, <1>7, <2>7, <3>2
      <4> QED
        BY <1>4, <1>5, <4>1
    <3> QED
      BY <3>1, <3>2
  <2> QED
    BY <2>3, <2>4, <2>5, <2>6, <2>7
<1>10. EndInv'
  <2> SUFFICES ASSUME NEW t \in Streams, NEW i \in DOMAIN down', Is(i, "end", t)'
               PROVE  /\ pc'[t] = "gone" /\ sent'[t] = Len(Body[t]) /\ down'[i].last = sent'[t] - 1
                      /\ \A j \in DOMAIN down' : i < j => ~Is(j, "data", t)'
    BY DEF EndInv
  <2>1. i \in DOMAIN down /\ Is(i, "end", t)
    BY <1>2, <1>3, <1>4
  <2>2. /\ pc[t] = "gone" /\ sent[t] = Len(Body[t]) /\ down[i].last = sent[t] - 1
        /\ \A j \in DOMAIN down : i < j => ~Is(j, "data", t)
    BY <2>1 DEF LinkInv, EndInv
  <2>3. t # s
    BY <2>2
  <2> QED
    BY <1>1, <1>2, <1>3, <1>4, <1>7, <2>1, <2>2, <2>3 DEF PumpOnward
<1> QED
  BY <1>8, <1>9, <1>10 DEF LinkInv

\* A request joins the link, of a stream nothing was heard of.
LEMMA LinkRequest ==
    ASSUME LinkInv, TypeInv, PumpInv, NEW s \in Streams, pc[s] = "absent",
           down' = Append(down, [type |-> "request", id |-> s]),
           pc' = [pc EXCEPT ![s] = "reading"],
           UNCHANGED <<sent, next, live, writer>>
    PROVE  LinkInv'
<1> PICK last : last = Len(down) + 1
  OBVIOUS
<1> PICK f : f = [type |-> "request", id |-> s]
  OBVIOUS
<1>a. f \in DownFrame
  BY DEF DownFrame
<1>1. /\ DOMAIN down' = 1..last /\ DOMAIN down = 1..Len(down) /\ Len(down) \in Nat
      /\ down'[last] = f /\ \A i \in DOMAIN down : down'[i] = down[i]
  BY <1>a, Pushed DEF TypeInv
<1>2. \A i \in DOMAIN down' : i # last => i \in DOMAIN down
  BY <1>1
<1>3. \A i \in DOMAIN down : \A type, t : Is(i, type, t)' <=> Is(i, type, t)
  BY <1>1 DEF Is
<1>4. /\ \A t : ~Is(last, "data", t)' /\ ~Is(last, "end", t)'
      /\ \A t : Is(last, "request", t)' <=> t = s
  BY <1>1 DEF Is
<1>5. DOMAIN down \subseteq DOMAIN down' /\ \A i \in DOMAIN down' : i \in Nat
  BY <1>1
<1>6. /\ Untouched(s) /\ sent[s] = 0
      /\ \A i \in DOMAIN down : down[i].id # s
  BY DEF LinkInv, RequestInv, PumpInv
<1>7. \A t \in Streams : pc'[t] = IF t = s THEN "reading" ELSE pc[t]
  BY DEF TypeInv, TypeOK
<1>8. \A t \in Streams : t # s /\ Coming(t)' => Coming(t)
  BY <1>2, <1>3, <1>4 DEF Coming
<1>9. RequestInv'
  <2> SUFFICES ASSUME NEW t \in Streams
               PROVE  /\ pc'[t] = "absent" =>
                            Untouched(t) /\ \A i \in DOMAIN down' : down'[i].id # t
                      /\ \A i \in DOMAIN down' : Is(i, "request", t)' =>
                            Untouched(t) /\ \A j \in DOMAIN down' : j < i => down'[j].id # t
    BY DEF RequestInv, Untouched
  <2>1. CASE pc'[t] = "absent"
    <3>1. t # s /\ pc[t] = "absent"
      BY <1>7, <2>1
    <3> QED
      BY <1>1, <1>2, <3>1, <2>1 DEF LinkInv, RequestInv
  <2>2. ASSUME NEW i \in DOMAIN down', Is(i, "request", t)'
        PROVE  Untouched(t) /\ \A j \in DOMAIN down' : j < i => down'[j].id # t
    <3>1. CASE i = last
      BY <1>1, <1>2, <1>4, <1>6, <2>2, <3>1
    <3>2. CASE i # last
      <4>1. i \in DOMAIN down /\ Is(i, "request", t)
        BY <1>2, <1>3, <2>2, <3>2
      <4>2. \A j \in DOMAIN down' : j < i => j \in DOMAIN down
        BY <1>1, <4>1
      <4> QED
        BY <1>1, <4>1, <4>2 DEF LinkInv, RequestInv
    <3> QED
      BY <3>1, <3>2
  <2> QED
    BY <2>1, <2>2
<1>10. DataInv'
  <2> SUFFICES ASSUME NEW t \in Streams
               PROVE  /\ next[t] <= sent[t]
                      /\ \A i \in DOMAIN down' : Is(i, "data", t)' => down'[i].seq < sent[t]
                      /\ \A i, j \in DOMAIN down' : i < j /\ Is(i, "data", t)' /\ Is(j, "data", t)'
                            => down'[i].seq < down'[j].seq
                      /\ Coming(t)' =>
                            /\ \A i \in DOMAIN down' : Is(i, "data", t)' => next[t] <= down'[i].seq
                            /\ \A n \in Nat : next[t] <= n /\ n < sent[t] =>
                                   \E i \in DOMAIN down' : Is(i, "data", t)' /\ down'[i].seq = n
    BY DEF DataInv
  <2>1. CASE t = s
    <3>1. \A i \in DOMAIN down' : ~Is(i, "data", s)'
      BY <1>2, <1>3, <1>4, <1>6 DEF Is
    <3> QED
      BY <1>6, <2>1, <3>1 DEF Untouched
  <2>2. CASE t # s
    BY <1>1, <1>2, <1>3, <1>4, <1>5, <1>8, <2>2 DEF LinkInv, DataInv
  <2> QED
    BY <2>1, <2>2
<1>11. EndInv'
  <2> SUFFICES ASSUME NEW t \in Streams, NEW i \in DOMAIN down', Is(i, "end", t)'
               PROVE  /\ pc'[t] = "gone" /\ sent[t] = Len(Body[t]) /\ down'[i].last = sent[t] - 1
                      /\ \A j \in DOMAIN down' : i < j => ~Is(j, "data", t)'
    BY DEF EndInv
  <2>1. i \in DOMAIN down /\ Is(i, "end", t) /\ t # s
    BY <1>2, <1>3, <1>4, <1>6 DEF Is
  <2> QED
    BY <1>1, <1>2, <1>3, <1>4, <1>7, <2>1 DEF LinkInv, EndInv
<1> QED
  BY <1>9, <1>10, <1>11 DEF LinkInv

\* The client takes the request: the stream is live, and was nothing before.
LEMMA LinkStarts ==
    ASSUME LinkInv, TypeInv, PumpInv, down # <<>>, down' = Tail(down),
           NEW s \in Streams, Head(down).type = "request", Head(down).id = s,
           live' = live \cup {s}, writer' = [writer EXCEPT ![s] = "open"],
           UNCHANGED <<sent, next, pc>>
    PROVE  LinkInv' /\ Untouched(s) /\ pc[s] # "absent"
<1>1. /\ DOMAIN down' = 1..Len(down) - 1 /\ DOMAIN down = 1..Len(down)
      /\ Len(down) \in Nat \ {0} /\ Head(down) = down[1]
      /\ \A i \in DOMAIN down' : down'[i] = down[i + 1]
  BY Popped DEF TypeInv
<1>2. \A i \in DOMAIN down' : /\ i + 1 \in DOMAIN down /\ i \in Nat /\ 1 < i + 1
                              /\ \A type, t : Is(i, type, t)' <=> Is(i + 1, type, t)
  BY <1>1 DEF Is
<1>3. 1 \in DOMAIN down /\ Is(1, "request", s)
  BY <1>1 DEF Is
<1>4. Untouched(s) /\ pc[s] # "absent" /\ Coming(s)
  BY <1>3 DEF LinkInv, RequestInv, Coming, Is
<1>5. \A i \in DOMAIN down' : ~Is(i + 1, "request", s)
  BY <1>1, <1>2, <1>3 DEF LinkInv, RequestInv, Is
<1>6. \A t \in Streams : /\ Coming(t)' => Coming(t)
                         /\ t # s => (Untouched(t) => Untouched(t)')
  <2> TAKE t \in Streams
  <2>1. CASE t = s
    BY <1>4, <2>1
  <2>2. CASE t # s
    BY <1>2, <2>2 DEF Coming, Untouched, TypeInv, TypeOK
  <2> QED
    BY <2>1, <2>2
<1>7. RequestInv'
  <2> SUFFICES ASSUME NEW t \in Streams
               PROVE  /\ pc[t] = "absent" =>
                            Untouched(t)' /\ \A i \in DOMAIN down' : down'[i].id # t
                      /\ \A i \in DOMAIN down' : Is(i, "request", t)' =>
                            Untouched(t)' /\ \A j \in DOMAIN down' : j < i => down'[j].id # t
    BY DEF RequestInv
  <2>1. CASE pc[t] = "absent"
    BY <1>1, <1>2, <1>4, <1>6, <2>1 DEF LinkInv, RequestInv, Is
  <2>2. ASSUME NEW i \in DOMAIN down', Is(i, "request", t)'
        PROVE  Untouched(t)' /\ \A j \in DOMAIN down' : j < i => down'[j].id # t
    <3>1. Is(i + 1, "request", t) /\ i + 1 \in DOMAIN down /\ t # s
      BY <1>2, <1>5, <2>2
    <3>2. Untouched(t) /\ \A j \in DOMAIN down : j < i + 1 => down[j].id # t
      BY <3>1 DEF LinkInv, RequestInv
    <3>3. \A j \in DOMAIN down' : j < i => j + 1 < i + 1 /\ down'[j] = down[j + 1] /\ j + 1 \in DOMAIN down
      BY <1>1
    <3> QED
      BY <1>6, <3>1, <3>2, <3>3
  <2> QED
    BY <2>1, <2>2
<1>8. DataInv'
  <2> SUFFICES ASSUME NEW t \in Streams
               PROVE  /\ next[t] <= sent[t]
                      /\ \A i \in DOMAIN down' : Is(i, "data", t)' => down'[i].seq < sent[t]
                      /\ \A i, j \in DOMAIN down' : i < j /\ Is(i, "data", t)' /\ Is(j, "data", t)'
                            => down'[i].seq < down'[j].seq
                      /\ Coming(t)' =>
                            /\ \A i \in DOMAIN down' : Is(i, "data", t)' => next[t] <= down'[i].seq
                            /\ \A n \in Nat : next[t] <= n /\ n < sent[t] =>
                                   \E i \in DOMAIN down' : Is(i, "data", t)' /\ down'[i].seq = n
    BY DEF DataInv
  <2>1. next[t] <= sent[t] /\ \A i \in DOMAIN down' : Is(i, "data", t)' => down'[i].seq < sent[t]
    BY <1>1, <1>2 DEF LinkInv, DataInv
  <2>2. ASSUME NEW i \in DOMAIN down', NEW j \in DOMAIN down',
               i < j, Is(i, "data", t)', Is(j, "data", t)'
        PROVE  down'[i].seq < down'[j].seq
    <3>1. i + 1 < j + 1 /\ Is(i + 1, "data", t) /\ Is(j + 1, "data", t)
      BY <1>2, <2>2
    <3> QED
      BY <1>1, <1>2, <3>1 DEF LinkInv, DataInv
  <2>3. ASSUME Coming(t)', NEW i \in DOMAIN down', Is(i, "data", t)'
        PROVE  next[t] <= down'[i].seq
    BY <1>1, <1>2, <1>6, <2>3 DEF LinkInv, DataInv
  <2>4. ASSUME Coming(t)', NEW n \in Nat, next[t] <= n, n < sent[t]
        PROVE  \E i \in DOMAIN down' : Is(i, "data", t)' /\ down'[i].seq = n
    <3>1. PICK k \in DOMAIN down : Is(k, "data", t) /\ down[k].seq = n
      BY <1>6, <2>4 DEF LinkInv, DataInv
    <3>2. k # 1
      BY <1>3, <3>1 DEF Is
    <3>3. k - 1 \in DOMAIN down' /\ (k - 1) + 1 = k
      BY <1>1, <3>2
    <3> QED
      BY <1>1, <1>2, <3>1, <3>3
  <2> QED
    BY <2>1, <2>2, <2>3, <2>4
<1>9. EndInv'
  <2> SUFFICES ASSUME NEW t \in Streams, NEW i \in DOMAIN down', Is(i, "end", t)'
               PROVE  /\ pc[t] = "gone" /\ sent[t] = Len(Body[t]) /\ down'[i].last = sent[t] - 1
                      /\ \A j \in DOMAIN down' : i < j => ~Is(j, "data", t)'
    BY DEF EndInv
  <2>1. Is(i + 1, "end", t) /\ i + 1 \in DOMAIN down /\ down'[i] = down[i + 1]
    BY <1>1, <1>2
  <2>2. /\ pc[t] = "gone" /\ sent[t] = Len(Body[t]) /\ down[i + 1].last = sent[t] - 1
        /\ \A j \in DOMAIN down : i + 1 < j => ~Is(j, "data", t)
    BY <2>1 DEF LinkInv, EndInv
  <2>3. \A j \in DOMAIN down' : i < j => i + 1 < j + 1
    BY <1>1
  <2> QED
    BY <1>2, <2>1, <2>2, <2>3
<1> QED
  BY <1>4, <1>7, <1>8, <1>9 DEF LinkInv

\* The frame the client looks at, of a stream it knows, is in sequence.
LEMMA HeadInSequence ==
    ASSUME LinkInv, TypeInv, down # <<>>, NEW s \in live, Head(down).id = s
    PROVE  /\ Head(down).type = "data" =>
                  InSequence(s, Head(down).seq) /\ Head(down).seq \in Nat /\ next[s] < sent[s]
           /\ Head(down).type = "end" => EndsInSequence(s, Head(down).last) /\ next[s] = sent[s]
<1>1. /\ DOMAIN down = 1..Len(down) /\ Len(down) \in Nat \ {0}
      /\ Head(down) = down[1] /\ down[1] \in DownFrame
  BY Popped DEF TypeInv
<1>2. 1 \in DOMAIN down /\ s \in Streams /\ Coming(s) /\ next[s] \in Nat /\ sent[s] \in Nat
  BY <1>1 DEF TypeInv, TypeOK, Coming
<1>3. CASE Is(1, "data", s)
  <2>1. down[1].seq \in Nat
    BY <1>1, <1>3 DEF DownFrame, Is
  <2>2. next[s] <= down[1].seq /\ down[1].seq < sent[s]
    BY <1>2, <1>3 DEF LinkInv, DataInv
  <2>3. PICK k \in DOMAIN down : Is(k, "data", s) /\ down[k].seq = next[s]
    BY <1>2, <2>1, <2>2 DEF LinkInv, DataInv
  <2>4. CASE k = 1
    BY <1>1, <1>3, <2>1, <2>2, <2>3, <2>4 DEF InSequence, Is
  <2>5. CASE k # 1
    <3>1. 1 < k
      BY <1>1, <2>5
    <3>2. down[1].seq < next[s]
      BY <1>2, <1>3, <2>3, <3>1 DEF LinkInv, DataInv
    <3> QED
      BY <1>2, <2>1, <2>2, <3>2
  <2> QED
    BY <2>4, <2>5
<1>4. CASE Is(1, "end", s)
  <2>1. down[1].last = sent[s] - 1 /\ \A j \in DOMAIN down : 1 < j => ~Is(j, "data", s)
    BY <1>2, <1>4 DEF LinkInv, EndInv
  <2>2. \A j \in DOMAIN down : ~Is(j, "data", s)
    BY <1>1, <1>4, <2>1 DEF Is
  <2>3. ~(next[s] < sent[s]) /\ next[s] <= sent[s]
    BY <1>2, <2>2 DEF LinkInv, DataInv
  <2> QED
    BY <1>1, <1>2, <1>4, <2>1, <2>3 DEF EndsInSequence, Is
<1> QED
  BY <1>1, <1>3, <1>4 DEF Is

\* The client takes the next chunk.
LEMMA LinkTaken ==
    ASSUME LinkInv, TypeInv, down # <<>>, down' = Tail(down),
           NEW s \in live, Head(down).type = "data", Head(down).id = s,
           next' = [next EXCEPT ![s] = @ + 1], UNCHANGED <<sent, pc>>, ClientOnward
    PROVE  LinkInv'
<1>1. /\ DOMAIN down' = 1..Len(down) - 1 /\ DOMAIN down = 1..Len(down)
      /\ Len(down) \in Nat \ {0} /\ Head(down) = down[1]
      /\ \A i \in DOMAIN down' : down'[i] = down[i + 1]
  BY Popped DEF TypeInv
<1>2. \A i \in DOMAIN down' : /\ i + 1 \in DOMAIN down /\ i \in Nat /\ 1 < i + 1
                              /\ \A type, t : Is(i, type, t)' <=> Is(i + 1, type, t)
  BY <1>1 DEF Is
<1>3. /\ 1 \in DOMAIN down /\ Is(1, "data", s) /\ down[1].seq = next[s] /\ s \in Streams
      /\ next[s] < sent[s]
  <2>1. InSequence(s, Head(down).seq) /\ next[s] < sent[s]
    BY HeadInSequence
  <2>2. s \in Streams
    BY DEF TypeInv, TypeOK
  <2> QED
    BY <1>1, <2>1, <2>2 DEF Is, InSequence
<1>4. \A t \in Streams : /\ next[t] \in Nat /\ sent[t] \in Nat
                         /\ next'[t] = IF t = s THEN next[t] + 1 ELSE next[t]
  BY Counters
<1>5. \A t \in Streams : Coming(t)' => Coming(t)
  BY <1>2 DEF Coming, ClientOnward
<1>6. \A t \in Streams : Untouched(t) => Untouched(t)'
  BY <1>4 DEF Untouched, ClientOnward
<1>7. \A i \in DOMAIN down' : \A t \in Streams : Is(i, "data", t)' => down'[i].seq \in Nat
  <2> SUFFICES ASSUME NEW i \in DOMAIN down', NEW t \in Streams, Is(i, "data", t)'
               PROVE  down'[i].seq \in Nat
    OBVIOUS
  <2>1. down[i + 1] \in DownFrame /\ down[i + 1].type = "data"
    BY <1>2 DEF TypeInv, Is
  <2> QED
    BY <1>1, <2>1 DEF DownFrame
<1>8. RequestInv'
  <2> SUFFICES ASSUME NEW t \in Streams
               PROVE  /\ pc[t] = "absent" =>
                            Untouched(t)' /\ \A i \in DOMAIN down' : down'[i].id # t
                      /\ \A i \in DOMAIN down' : Is(i, "request", t)' =>
                            Untouched(t)' /\ \A j \in DOMAIN down' : j < i => down'[j].id # t
    BY DEF RequestInv
  <2>1. CASE pc[t] = "absent"
    BY <1>1, <1>2, <1>6, <2>1 DEF LinkInv, RequestInv, Is
  <2>2. ASSUME NEW i \in DOMAIN down', Is(i, "request", t)'
        PROVE  Untouched(t)' /\ \A j \in DOMAIN down' : j < i => down'[j].id # t
    <3>1. Is(i + 1, "request", t) /\ i + 1 \in DOMAIN down
      BY <1>2, <2>2
    <3>2. Untouched(t) /\ \A j \in DOMAIN down : j < i + 1 => down[j].id # t
      BY <3>1 DEF LinkInv, RequestInv
    <3>3. \A j \in DOMAIN down' : j < i => j + 1 < i + 1 /\ down'[j] = down[j + 1] /\ j + 1 \in DOMAIN down
      BY <1>1
    <3> QED
      BY <1>6, <3>2, <3>3
  <2> QED
    BY <2>1, <2>2
<1>9. DataInv'
  <2> SUFFICES ASSUME NEW t \in Streams
               PROVE  /\ next'[t] <= sent[t]
                      /\ \A i \in DOMAIN down' : Is(i, "data", t)' => down'[i].seq < sent[t]
                      /\ \A i, j \in DOMAIN down' : i < j /\ Is(i, "data", t)' /\ Is(j, "data", t)'
                            => down'[i].seq < down'[j].seq
                      /\ Coming(t)' =>
                            /\ \A i \in DOMAIN down' : Is(i, "data", t)' => next'[t] <= down'[i].seq
                            /\ \A n \in Nat : next'[t] <= n /\ n < sent[t] =>
                                   \E i \in DOMAIN down' : Is(i, "data", t)' /\ down'[i].seq = n
    BY DEF DataInv
  <2>1. next[t] <= sent[t] /\ \A i \in DOMAIN down' : Is(i, "data", t)' => down'[i].seq < sent[t]
    BY <1>1, <1>2 DEF LinkInv, DataInv
  <2>2. next'[t] <= sent[t]
    BY <1>3, <1>4, <2>1
  <2>3. ASSUME NEW i \in DOMAIN down', NEW j \in DOMAIN down',
               i < j, Is(i, "data", t)', Is(j, "data", t)'
        PROVE  down'[i].seq < down'[j].seq
    <3>1. i + 1 < j + 1 /\ Is(i + 1, "data", t) /\ Is(j + 1, "data", t)
      BY <1>2, <2>3
    <3> QED
      BY <1>1, <1>2, <3>1 DEF LinkInv, DataInv
  <2>4. ASSUME Coming(t)', NEW i \in DOMAIN down', Is(i, "data", t)'
        PROVE  next'[t] <= down'[i].seq
    <3>1. Is(i + 1, "data", t) /\ i + 1 \in DOMAIN down /\ 1 < i + 1 /\ down'[i] = down[i + 1]
      BY <1>1, <1>2, <2>4
    <3>2. next[t] <= down'[i].seq
      BY <1>5, <2>4, <3>1 DEF LinkInv, DataInv
    <3>3. t = s => next[t] < down'[i].seq
      BY <1>3, <3>1 DEF LinkInv, DataInv
    <3> QED
      BY <1>4, <1>7, <2>4, <3>2, <3>3
  <2>5. ASSUME Coming(t)', NEW n \in Nat, next'[t] <= n, n < sent[t]
        PROVE  \E i \in DOMAIN down' : Is(i, "data", t)' /\ down'[i].seq = n
    <3>1. next[t] <= n /\ (t = s => next[t] # n)
      BY <1>4, <2>5
    <3>2. PICK k \in DOMAIN down : Is(k, "data", t) /\ down[k].seq = n
      BY <1>5, <2>5, <3>1 DEF LinkInv, DataInv
    <3>3. k # 1
      BY <1>3, <3>1, <3>2 DEF Is
    <3>4. k - 1 \in DOMAIN down' /\ (k - 1) + 1 = k
      BY <1>1, <3>3
    <3> QED
      BY <1>1, <1>2, <3>2, <3>4
  <2> QED
    BY <2>1, <2>2, <2>3, <2>4, <2>5
<1>10. EndInv'
  <2> SUFFICES ASSUME NEW t \in Streams, NEW i \in DOMAIN down', Is(i, "end", t)'
               PROVE  /\ pc[t] = "gone" /\ sent[t] = Len(Body[t]) /\ down'[i].last = sent[t] - 1
                      /\ \A j \in DOMAIN down' : i < j => ~Is(j, "data", t)'
    BY DEF EndInv
  <2>1. Is(i + 1, "end", t) /\ i + 1 \in DOMAIN down /\ down'[i] = down[i + 1]
    BY <1>1, <1>2
  <2>2. /\ pc[t] = "gone" /\ sent[t] = Len(Body[t]) /\ down[i + 1].last = sent[t] - 1
        /\ \A j \in DOMAIN down : i + 1 < j => ~Is(j, "data", t)
    BY <2>1 DEF LinkInv, EndInv
  <2>3. \A j \in DOMAIN down' : i < j => i + 1 < j + 1
    BY <1>1
  <2> QED
    BY <1>2, <2>1, <2>2, <2>3
<1> QED
  BY <1>8, <1>9, <1>10 DEF LinkInv

-----------------------------------------------------------------------------
(* Types.                                                                      *)

\* A chunk within the body has a size.
LEMMA SizeType ==
    ASSUME NEW s \in Streams, NEW n \in Nat, n < Len(Body[s])
    PROVE  Size(s, n) \in Nat
  BY BodyAssumption DEF Size

\* A function with one value replaced.
LEMMA Updated ==
    ASSUME NEW S, NEW T, NEW f \in [S -> T], NEW x \in S, NEW v \in T
    PROVE  [f EXCEPT ![x] = v] \in [S -> T]
  OBVIOUS

\* So are the windows.
LEMMA Windows ==
    TypeInv => /\ outStream \in [Streams -> Nat] /\ outChannel \in Nat
               /\ inStream \in [Streams -> Nat] /\ inChannel \in Nat
  BY DEF TypeInv, TypeOK

\* What is at the head of the two links.
LEMMA HeadOfDown ==
    ASSUME TypeInv, down # <<>>
    PROVE  /\ Head(down) \in DownFrame /\ Head(down).id \in Streams
           /\ Head(down).type = "data" => Head(down).seq \in Nat
           /\ Tail(down) \in Seq(DownFrame)
<1>1. Head(down) \in DownFrame /\ Tail(down) \in Seq(DownFrame)
  BY Popped DEF TypeInv
<1> QED
  BY <1>1 DEF DownFrame

\* What the first frame of the link to the server can be.
LEMMA HeadOfUp ==
    ASSUME TypeInv, up # <<>>
    PROVE  /\ Tail(up) \in Seq(UpFrame)
           /\ Head(up).type # "channel.credit" => Head(up).id \in Streams
           /\ Head(up).type \in {"stream.credit", "channel.credit"} => Head(up).bytes \in Nat
<1>1. Head(up) \in UpFrame /\ Tail(up) \in Seq(UpFrame)
  BY Popped DEF TypeInv
<1> QED
  BY <1>1 DEF UpFrame

\* The frames of the program.
LEMMA FrameTypes ==
    ASSUME NEW s \in Streams
    PROVE  /\ [type |-> "request", id |-> s] \in DownFrame
           /\ [type |-> "abort", id |-> s] \in DownFrame
           /\ \A n \in Nat : [type |-> "data", id |-> s, seq |-> n] \in DownFrame
           /\ \A n \in Int : [type |-> "end", id |-> s, last |-> n] \in DownFrame
           /\ <<[type |-> "start", id |-> s]>> \in Seq(UpFrame)
           /\ <<[type |-> "end", id |-> s]>> \in Seq(UpFrame)
           /\ <<[type |-> "abort", id |-> s]>> \in Seq(UpFrame)
           /\ \A n \in Nat : Credits(s, n) \in Seq(UpFrame)
<1>1. \A n \in Nat : /\ [type |-> "stream.credit", id |-> s, bytes |-> n] \in UpFrame
                     /\ [type |-> "channel.credit", bytes |-> n] \in UpFrame
  BY DEF UpFrame
<1>2. \A n \in Nat : Credits(s, n) \in Seq(UpFrame)
  <2> TAKE n \in Nat
  <2>1. PICK a, b : /\ a = [type |-> "stream.credit", id |-> s, bytes |-> n]
                    /\ b = [type |-> "channel.credit", bytes |-> n]
    OBVIOUS
  <2>2. a \in UpFrame /\ b \in UpFrame
    BY <1>1, <2>1
  <2>3. <<a, b>> \in Seq(UpFrame)
    BY <2>2
  <2> QED
    BY <2>1, <2>3 DEF Credits
<1>3. \A type \in {"start", "end", "abort"} : [type |-> type, id |-> s] \in UpFrame
  BY DEF UpFrame
<1>4. \A type \in {"start", "end", "abort"} : <<[type |-> type, id |-> s]>> \in Seq(UpFrame)
  BY <1>3
<1>5. /\ [type |-> "request", id |-> s] \in DownFrame
      /\ [type |-> "abort", id |-> s] \in DownFrame
  BY DEF DownFrame
<1>7. \A n \in Nat : [type |-> "data", id |-> s, seq |-> n] \in DownFrame
  BY DEF DownFrame
<1>8. \A n \in Int : [type |-> "end", id |-> s, last |-> n] \in DownFrame
  BY DEF DownFrame
<1>6. /\ <<[type |-> "start", id |-> s]>> \in Seq(UpFrame)
      /\ <<[type |-> "end", id |-> s]>> \in Seq(UpFrame)
      /\ <<[type |-> "abort", id |-> s]>> \in Seq(UpFrame)
  BY <1>4
<1> QED
  BY <1>2, <1>5, <1>6, <1>7, <1>8

\* Ending streams keeps types.
LEMMA EndingTypes ==
    ASSUME TypeInv, NEW s \in Streams
    PROVE  /\ CleanUp(s) => /\ open' \subseteq Streams /\ started' \subseteq open'
                            /\ outStream' \in [Streams -> Nat]
           /\ Woken \in [Streams -> Place]
           /\ PumpFails(s) => /\ open' \subseteq Streams /\ started' \subseteq open'
                              /\ outStream' \in [Streams -> Nat] /\ pc' \in [Streams -> Place]
           /\ AbortLocal(s) => /\ live' \subseteq Streams /\ inStream' \in [Streams -> Nat]
                               /\ writer' \in [Streams -> Writer]
           /\ AbortResponse(s) => up' \in Seq(UpFrame)
<1>1. CleanUp(s) => /\ open' \subseteq Streams /\ started' \subseteq open'
                    /\ outStream' \in [Streams -> Nat]
  BY DEF TypeInv, TypeOK, CleanUp
<1>2. Woken \in [Streams -> Place]
  BY DEF TypeInv, TypeOK, Woken, Place
<1>3. PumpFails(s) => /\ open' \subseteq Streams /\ started' \subseteq open'
                      /\ outStream' \in [Streams -> Nat] /\ pc' \in [Streams -> Place]
  <2>1. CASE CanSend(s)
    BY <1>1, <1>2, <2>1 DEF PumpFails, Place
  <2>2. CASE ~CanSend(s)
    BY <2>2 DEF PumpFails, Go, Place, TypeInv, TypeOK
  <2> QED
    BY <2>1, <2>2
<1>4. AbortLocal(s) => /\ live' \subseteq Streams /\ inStream' \in [Streams -> Nat]
                       /\ writer' \in [Streams -> Writer]
  BY DEF TypeInv, TypeOK, AbortLocal, Writer
<1>5. AbortResponse(s) => up' \in Seq(UpFrame)
  <2>1. (IF s \in live THEN <<[type |-> "abort", id |-> s]>> ELSE <<>>) \in Seq(UpFrame)
    <3>1. <<[type |-> "abort", id |-> s]>> \in Seq(UpFrame)
      BY FrameTypes
    <3> QED
      BY <3>1
  <2> QED
    BY <2>1, Joined DEF AbortResponse, ToServerSend, TypeInv
<1> QED
  BY <1>1, <1>2, <1>3, <1>4, <1>5

\* A chunk that was cleared, is at the head of the link or is being written has a size.
LEMMA ChunkSizes ==
    ASSUME IInv
    PROVE  /\ \A s \in Streams : pc[s] \in {"waiting", "woken", "cleared"} => Size(s, sent[s]) \in Nat
           /\ down # <<>> /\ Head(down).type = "data" /\ Head(down).id \in live
                  => Size(Head(down).id, Head(down).seq) \in Nat
           /\ busy # NoStream => next[busy] - 1 \in Nat /\ Size(busy, next[busy] - 1) \in Nat
<1>1. \A s \in Streams : /\ sent[s] \in Nat /\ next[s] \in Nat /\ Len(Body[s]) \in Nat
                         /\ next[s] <= sent[s] /\ sent[s] <= Len(Body[s])
  BY Counters, BodyAssumption DEF IInv, LinkInv, DataInv, PumpInv
<1>2. \A s \in Streams : pc[s] \in {"waiting", "woken", "cleared"} => Size(s, sent[s]) \in Nat
  BY <1>1, SizeType DEF IInv, PumpInv
<1>3. down # <<>> /\ Head(down).type = "data" /\ Head(down).id \in live
          => Size(Head(down).id, Head(down).seq) \in Nat
  <2> SUFFICES ASSUME down # <<>>, Head(down).type = "data", Head(down).id \in live
               PROVE  Size(Head(down).id, Head(down).seq) \in Nat
    OBVIOUS
  <2>1. Head(down).seq = next[Head(down).id] /\ next[Head(down).id] < sent[Head(down).id]
    BY HeadInSequence DEF IInv, InSequence
  <2>2. Head(down).id \in Streams
    BY HeadOfDown DEF IInv
  <2> QED
    BY <1>1, <2>1, <2>2, SizeType
<1>4. busy # NoStream => next[busy] - 1 \in Nat /\ Size(busy, next[busy] - 1) \in Nat
  <2> SUFFICES ASSUME busy # NoStream
               PROVE  next[busy] - 1 \in Nat /\ Size(busy, next[busy] - 1) \in Nat
    OBVIOUS
  <2>1. busy \in Streams /\ read[busy] \in Seq(Nat)
    BY DEF IInv, TypeInv, TypeOK
  <2>2. next[busy] = Len(read[busy]) + 1
    BY <2>1 DEF IInv, WriteInv, WriteOf
  <2> QED
    BY <1>1, <2>1, <2>2, SizeType
<1> QED
  BY <1>2, <1>3, <1>4

\* Every step keeps the types.
LEMMA TypeStep ==
    ASSUME IInv, Next
    PROVE  TypeInv'
<1> USE DEF IInv, TypeInv
<1>s. ASSUME NEW s \in Streams PROVE
        /\ PublicRequest(s) => TypeInv'
        /\ AskCredit(s) => TypeInv'
        /\ SendData(s) => TypeInv'
        /\ BodyRead(s) => TypeInv'
        /\ SendEnd(s) => TypeInv'
        /\ SendAbort(s) => TypeInv'
        /\ BodyFails(s) => TypeInv'
        /\ PublicCancel(s) => TypeInv'
        /\ Timeout(s) => TypeInv'
  <2>1. PublicRequest(s) => TypeInv'
    <3> SUFFICES ASSUME PublicRequest(s) PROVE TypeInv'
      OBVIOUS
    <3>1. TypeOK'
      BY LimitsAssumption DEF PublicRequest, TypeOK, Go, Place, client, origin
    <3>2. down' \in Seq(DownFrame) /\ up' \in Seq(UpFrame)
      BY Pushed, FrameTypes DEF PublicRequest, ToClientSend
    <3> QED
      BY <3>1, <3>2
  <2>2. AskCredit(s) => TypeInv'
    BY EndingTypes DEF AskCredit, TypeOK, Go, Place, client, origin
  <2>3. SendData(s) => TypeInv'
    <3> SUFFICES ASSUME SendData(s) PROVE TypeInv'
      OBVIOUS
    <3>1. TypeOK'
      <4>1. CASE HasOutbound(s)
        <5>1. outChannel' \in Nat
          <6>1. outChannel' = outChannel - Size(s, sent[s])
            BY <4>1 DEF SendData, Spend
          <6>2. outChannel - Size(s, sent[s]) \in Nat
            BY <4>1, ChunkSizes, Windows DEF SendData, HasOutbound
          <6> QED
            BY <6>1, <6>2
        <5>2. outStream' \in [Streams -> Nat]
          <6>1. outStream' = [outStream EXCEPT ![s] = outStream[s] - Size(s, sent[s])]
            BY <4>1 DEF SendData, Spend
          <6>2. outStream[s] - Size(s, sent[s]) \in Nat
            BY <4>1, ChunkSizes, Windows DEF SendData, HasOutbound
          <6>3. outStream \in [Streams -> Nat]
            BY Windows
          <6> QED
            BY <6>1, <6>2, <6>3, Updated
        <5>3. pc' \in [Streams -> Place] /\ sent' \in [Streams -> Nat]
          <6>1. pc' = [pc EXCEPT ![s] = "reading"] /\ sent' = [sent EXCEPT ![s] = sent[s] + 1]
            BY <4>1 DEF SendData, Go
          <6>2. sent \in [Streams -> Nat] /\ sent[s] + 1 \in Nat
            BY Counters
          <6>3. sent' \in [Streams -> Nat]
            BY <6>1, <6>2, Updated
          <6>4. pc' \in [Streams -> Place]
            BY <6>1 DEF Place, TypeOK
          <6> QED
            BY <6>3, <6>4
        <5> QED
          BY <4>1, <5>1, <5>2, <5>3 DEF SendData, TypeOK, client, origin
      <4>2. CASE ~HasOutbound(s)
        <5>1. PumpFails(s) /\ UNCHANGED outChannel /\ sent' = [sent EXCEPT ![s] = sent[s] + 1]
          BY <4>2 DEF SendData
        <5>2. sent' \in [Streams -> Nat]
          <6>1. sent \in [Streams -> Nat] /\ sent[s] + 1 \in Nat
            BY Counters
          <6> QED
            BY <5>1, <6>1, Updated
        <5>3. /\ open' \subseteq Streams /\ started' \subseteq open'
              /\ outStream' \in [Streams -> Nat] /\ pc' \in [Streams -> Place]
          BY <5>1, EndingTypes
        <5> QED
          BY <5>1, <5>2, <5>3 DEF SendData, TypeOK, client, origin
      <4> QED
        BY <4>1, <4>2
    <3>2. down' \in Seq(DownFrame) /\ up' \in Seq(UpFrame)
      BY Pushed, FrameTypes, Counters DEF SendData, ToClientSend
    <3> QED
      BY <3>1, <3>2
  <2>4. BodyRead(s) => TypeInv'
    BY DEF BodyRead, TypeOK, Go, Place, client, origin
  <2>5. SendEnd(s) => TypeInv'
    <3> SUFFICES ASSUME SendEnd(s) PROVE TypeInv'
      OBVIOUS
    <3>1. TypeOK'
      BY DEF SendEnd, TypeOK, Go, Place, client, origin
    <3>2. down' \in Seq(DownFrame) /\ up' \in Seq(UpFrame)
      <4>1. sent[s] - 1 \in Int
        BY Counters
      <4> QED
        BY <4>1, Pushed, FrameTypes DEF SendEnd, ToClientSend, LastSentSeq
    <3> QED
      BY <3>1, <3>2
  <2>6. SendAbort(s) => TypeInv'
    <3> SUFFICES ASSUME SendAbort(s) PROVE TypeInv'
      OBVIOUS
    <3>1. TypeOK'
      BY DEF SendAbort, TypeOK, Go, Place, client, origin
    <3>2. down' \in Seq(DownFrame) /\ up' \in Seq(UpFrame)
      BY Pushed, FrameTypes DEF SendAbort, ToClientSend
    <3> QED
      BY <3>1, <3>2
  <2>7. BodyFails(s) => TypeInv'
    BY EndingTypes DEF BodyFails, TypeOK, client, origin
  <2>8. PublicCancel(s) => TypeInv'
    <3> SUFFICES ASSUME PublicCancel(s) PROVE TypeInv'
      OBVIOUS
    <3>1. TypeOK'
      BY EndingTypes DEF PublicCancel, TypeOK, client, origin
    <3>2. down' \in Seq(DownFrame) /\ up' \in Seq(UpFrame)
      BY Pushed, FrameTypes DEF PublicCancel, ToClientSend
    <3> QED
      BY <3>1, <3>2
  <2>9. Timeout(s) => TypeInv'
    BY EndingTypes DEF Timeout, TypeOK, client, origin
  <2> QED
    BY <2>1, <2>2, <2>3, <2>4, <2>5, <2>6, <2>7, <2>8, <2>9
<1>l. ASSUME NEW s \in Streams PROVE
        /\ OriginReads(s) => TypeInv'
        /\ OriginAnswers(s) => TypeInv'
        /\ ResponseEnds(s) => TypeInv'
        /\ OriginFails(s) => TypeInv'
        /\ OriginDropsBody(s) => TypeInv'
  <2>1. OriginReads(s) => TypeInv'
    <3> SUFFICES ASSUME OriginReads(s) PROVE TypeInv'
      OBVIOUS
    <3>1. TypeOK'
      <4>1. busy' = NoStream /\ read' \in [Streams -> Seq(Nat)]
        <5>1. busy' = NoStream /\ read' = [read EXCEPT ![s] = Append(read[s], next[s] - 1)]
          BY DEF OriginReads
        <5>2. next[s] - 1 \in Nat
          BY ChunkSizes, NoStreamAssumption DEF OriginReads
        <5>3. read \in [Streams -> Seq(Nat)]
          BY DEF TypeOK
        <5>4. Append(read[s], next[s] - 1) \in Seq(Nat)
          BY <5>2, <5>3
        <5> QED
          BY <5>1, <5>3, <5>4, Updated
      <4>2. /\ live' \subseteq Streams /\ writer' \in [Streams -> Writer]
            /\ inStream' \in [Streams -> Nat] /\ inChannel' \in Nat
        <5>1. Size(s, next[s] - 1) \in Nat
          BY ChunkSizes, NoStreamAssumption DEF OriginReads
        <5>2. CASE Size(s, next[s] - 1) > 0
          <6>1. inStream[s] + Size(s, next[s] - 1) \in Nat /\ inChannel + Size(s, next[s] - 1) \in Nat
            BY <5>1, Windows
          <6>2. /\ inStream' = [inStream EXCEPT ![s] = inStream[s] + Size(s, next[s] - 1)]
                /\ inChannel' = inChannel + Size(s, next[s] - 1) /\ UNCHANGED <<live, writer>>
            BY <5>2 DEF OriginReads, Grant
          <6>3. inStream \in [Streams -> Nat]
            BY Windows
          <6>4. inStream' \in [Streams -> Nat]
            BY <6>1, <6>2, <6>3, Updated
          <6> QED
            BY <6>1, <6>2, <6>4 DEF TypeOK
        <5>3. CASE ~(Size(s, next[s] - 1) > 0)
          BY <5>3, EndingTypes DEF OriginReads, TypeOK, AbortResponse
        <5> QED
          BY <5>2, <5>3
      <4> QED
        BY <4>1, <4>2 DEF OriginReads, TypeOK, server
    <3>2. down' \in Seq(DownFrame) /\ up' \in Seq(UpFrame)
      <4>1. Credits(s, Size(s, next[s] - 1)) \in Seq(UpFrame)
        BY FrameTypes, ChunkSizes, NoStreamAssumption DEF OriginReads
      <4> QED
        BY <4>1, Joined, EndingTypes DEF OriginReads, ToServerSend
    <3> QED
      BY <3>1, <3>2
  <2>2. OriginAnswers(s) => TypeInv'
    <3> SUFFICES ASSUME OriginAnswers(s) PROVE TypeInv'
      OBVIOUS
    <3>1. TypeOK'
      BY DEF OriginAnswers, TypeOK, client, server
    <3>2. down' \in Seq(DownFrame) /\ up' \in Seq(UpFrame)
      BY Joined, FrameTypes DEF OriginAnswers, ToServerSend
    <3> QED
      BY <3>1, <3>2
  <2>3. ResponseEnds(s) => TypeInv'
    <3> SUFFICES ASSUME ResponseEnds(s) PROVE TypeInv'
      OBVIOUS
    <3>1. TypeOK'
      BY DEF ResponseEnds, TypeOK, origin, server
    <3>2. down' \in Seq(DownFrame) /\ up' \in Seq(UpFrame)
      BY Joined, FrameTypes DEF ResponseEnds, ToServerSend
    <3> QED
      BY <3>1, <3>2
  <2>4. OriginFails(s) => TypeInv'
    <3> SUFFICES ASSUME OriginFails(s) PROVE TypeInv'
      OBVIOUS
    <3>1. TypeOK'
      BY EndingTypes DEF OriginFails, AbortResponse, Unblocked, TypeOK, server
    <3>2. down' \in Seq(DownFrame) /\ up' \in Seq(UpFrame)
      BY EndingTypes DEF OriginFails
    <3> QED
      BY <3>1, <3>2
  <2>5. OriginDropsBody(s) => TypeInv'
    <3> SUFFICES ASSUME OriginDropsBody(s) PROVE TypeInv'
      OBVIOUS
    <3>1. TypeOK'
      <4>1. /\ writer' \in [Streams -> Writer] /\ busy' \in Streams \cup {NoStream}
            /\ live' \subseteq Streams /\ inStream' \in [Streams -> Nat]
        <5>1. writer' \in [Streams -> Writer] /\ busy' \in Streams \cup {NoStream}
          BY DEF OriginDropsBody, Unblocked, TypeOK, Writer
        <5>2. live' \subseteq Streams /\ inStream' \in [Streams -> Nat]
          <6>1. inStream \in [Streams -> Nat] /\ live \subseteq Streams /\ 0 \in Nat
            BY DEF TypeOK
          <6>2. CASE busy = s /\ s \in live
            <7>1. inStream' = [inStream EXCEPT ![s] = 0] /\ live' = live \ {s}
              BY <6>2 DEF OriginDropsBody
            <7> QED
              BY <6>1, <7>1, Updated
          <6>3. CASE ~(busy = s /\ s \in live)
            <7>1. UNCHANGED <<live, inStream>>
              BY <6>3 DEF OriginDropsBody
            <7> QED
              BY <6>1, <7>1
          <6> QED
            BY <6>2, <6>3
        <5> QED
          BY <5>1, <5>2
      <4> QED
        BY <4>1 DEF OriginDropsBody, TypeOK, server
    <3>2. down' \in Seq(DownFrame) /\ up' \in Seq(UpFrame)
      BY Joined, FrameTypes DEF OriginDropsBody, ToServerSend
    <3> QED
      BY <3>1, <3>2
  <2> QED
    BY <2>1, <2>2, <2>3, <2>4, <2>5
<1>1. ReceiveStreamCredit => TypeInv'
  <2> SUFFICES ASSUME ReceiveStreamCredit PROVE TypeInv'
    OBVIOUS
  <2>1. TypeOK'
    <3>1. outStream' \in [Streams -> Nat]
      <4>1. Head(up).id \in Streams /\ Head(up).bytes \in Nat
        BY HeadOfUp DEF ReceiveStreamCredit, ToServer
      <4>2. outStream \in [Streams -> Nat]
        BY Windows
      <4>3. outStream[Head(up).id] + Head(up).bytes \in Nat
        BY <4>1, <4>2
      <4>4. outStream' = [outStream EXCEPT ![Head(up).id] =
                              outStream[Head(up).id] + Head(up).bytes]
        BY DEF ReceiveStreamCredit
      <4> QED
        BY <4>1, <4>2, <4>3, <4>4, Updated
    <3>2. pc' \in [Streams -> Place]
      BY HeadOfUp, EndingTypes DEF ReceiveStreamCredit, ToServer
    <3> QED
      BY <3>1, <3>2 DEF ReceiveStreamCredit, TypeOK, client, origin
  <2>2. down' \in Seq(DownFrame) /\ up' \in Seq(UpFrame)
    BY HeadOfUp DEF ReceiveStreamCredit, ToServer
  <2> QED
    BY <2>1, <2>2
<1>2. ReceiveChannelCredit => TypeInv'
  <2> SUFFICES ASSUME ReceiveChannelCredit PROVE TypeInv'
    OBVIOUS
  <2>1. TypeOK'
    <3>1. outChannel' \in Nat
      <4>1. Head(up).bytes \in Nat
        BY HeadOfUp DEF ReceiveChannelCredit, ToServer
      <4> QED
        BY <4>1 DEF ReceiveChannelCredit, TypeOK
    <3>2. pc' \in [Streams -> Place]
      BY DEF ReceiveChannelCredit, Woken, Place, TypeOK
    <3> QED
      BY <3>1, <3>2 DEF ReceiveChannelCredit, TypeOK, client, origin
  <2>2. down' \in Seq(DownFrame) /\ up' \in Seq(UpFrame)
    BY HeadOfUp DEF ReceiveChannelCredit, ToServer
  <2> QED
    BY <2>1, <2>2
<1>3. ReceiveStart => TypeInv'
  BY HeadOfUp DEF ReceiveStart, ToServer, TypeOK, client, origin
<1>4. ReceiveEndOrAbort => TypeInv'
  BY HeadOfUp, EndingTypes DEF ReceiveEndOrAbort, ToServer, TypeOK, client, origin
<1>5. IgnoreFrame => TypeInv'
  BY HeadOfDown DEF IgnoreFrame, Turn, TypeOK, server, client, origin
<1>6. ReceiveRequest => TypeInv'
  <2> SUFFICES ASSUME ReceiveRequest PROVE TypeInv'
    OBVIOUS
  <2>1. Head(down).id \in Streams /\ Tail(down) \in Seq(DownFrame)
    BY HeadOfDown DEF ReceiveRequest, Turn
  <2>2. /\ live' \subseteq Streams /\ inStream' \in [Streams -> Nat]
        /\ writer' \in [Streams -> Writer]
    BY <2>1, LimitsAssumption DEF ReceiveRequest, Seed, TypeOK, Writer
  <2> QED
    BY <2>1, <2>2 DEF ReceiveRequest, TypeOK, server
<1>7. ReceiveData => TypeInv'
  <2> SUFFICES ASSUME ReceiveData PROVE TypeInv'
    OBVIOUS
  <2>1. TypeOK'
    <3> DEFINE s == Head(down).id
               bytes == Size(s, Head(down).seq)
    <3>1. s \in Streams /\ bytes \in Nat
      BY HeadOfDown, ChunkSizes DEF ReceiveData, Turn
    <3>2. CASE Fail("credit.violation") \/ Fail("seq.discontinuity")
      BY <3>2 DEF ReceiveData, Fail, TypeOK, server, client, origin
    <3>3. CASE TakeChunk(s, bytes) /\ HasInbound(s, bytes)
      <4>1. inChannel' \in Nat /\ next' \in [Streams -> Nat]
        <5>1. inChannel' = inChannel - bytes /\ next' = [next EXCEPT ![s] = next[s] + 1]
          BY <3>3 DEF TakeChunk
        <5>2. inChannel >= bytes /\ inChannel \in Nat
          BY <3>3, Windows DEF HasInbound
        <5>3. next \in [Streams -> Nat] /\ next[s] + 1 \in Nat
          BY <3>1, Counters
        <5> HIDE DEF bytes
        <5>4. inChannel - bytes \in Nat
          BY <3>1, <5>2
        <5> HIDE DEF s
        <5> QED
          BY <3>1, <5>1, <5>3, <5>4, Updated
      <4>2. CASE writer[s] = "errored"
        BY <3>1, <3>3, <4>1, <4>2, EndingTypes DEF ReceiveData, TakeChunk, AbortResponse, TypeOK, server
      <4>3. CASE writer[s] # "errored"
        <5>1. inStream' \in [Streams -> Nat]
          <6>1. inStream' = [inStream EXCEPT ![s] = @ - bytes]
            BY <3>3, <4>3 DEF TakeChunk
          <6>2. inStream[s] - bytes \in Nat /\ inStream \in [Streams -> Nat]
            <7> HIDE DEF bytes
            <7>1. bytes \in Nat /\ inStream[s] >= bytes /\ s \in Streams
              BY <3>1, <3>3 DEF HasInbound
            <7>2. inStream \in [Streams -> Nat] /\ inStream[s] \in Nat
              BY <7>1, Windows
            <7> QED
              BY <7>1, <7>2
          <6> QED
            BY <3>1, <6>1, <6>2, Updated
        <5> QED
          BY <3>1, <3>3, <4>1, <4>3, <5>1 DEF ReceiveData, TakeChunk, TypeOK, server
      <4> QED
        BY <4>2, <4>3
    <3> QED
      BY <3>2, <3>3 DEF ReceiveData
  <2>2. down' \in Seq(DownFrame) /\ up' \in Seq(UpFrame)
    BY HeadOfDown, EndingTypes DEF ReceiveData, Turn, Fail, TakeChunk
  <2> QED
    BY <2>1, <2>2
<1>8. ReceiveEnd => TypeInv'
  <2> SUFFICES ASSUME ReceiveEnd PROVE TypeInv'
    OBVIOUS
  <2>1. TypeOK'
    BY HeadOfDown, EndingTypes
       DEF ReceiveEnd, Turn, Fail, AbortResponse, TypeOK, Writer, server, client, origin
  <2>2. down' \in Seq(DownFrame) /\ up' \in Seq(UpFrame)
    BY HeadOfDown, EndingTypes DEF ReceiveEnd, Turn, Fail
  <2> QED
    BY <2>1, <2>2
<1>9. ReceiveAbort => TypeInv'
  BY HeadOfDown, EndingTypes DEF ReceiveAbort, Turn, TypeOK, server
<1> QED
  BY <1>1, <1>2, <1>3, <1>4, <1>5, <1>6, <1>7, <1>8, <1>9, <1>s, <1>l
     DEF Next, ClientReceives, ServerReceives, Pump, Local

-----------------------------------------------------------------------------
(* The pump and its sleep.                                                     *)

\* What the pumps see of a step of the client: nothing.
LEMMA ClientSteps ==
    ASSUME NEW s \in Streams, ClientReceives \/ Local(s)
    PROVE  UNCHANGED server
  BY DEF ClientReceives, IgnoreFrame, ReceiveRequest, ReceiveData, ReceiveEnd, ReceiveAbort,
         Local, OriginReads, OriginAnswers, ResponseEnds, OriginFails, OriginDropsBody

\* The steps that only end streams: no pump is put to sleep and none is started.
Ending == \/ \E s \in Streams : BodyFails(s) \/ PublicCancel(s) \/ Timeout(s)
          \/ ReceiveStreamCredit \/ ReceiveChannelCredit \/ ReceiveStart \/ ReceiveEndOrAbort

\* What an ending stream does to pumps and windows.
LEMMA Endings ==
    ASSUME TypeInv, Ending
    PROVE  /\ UNCHANGED sent /\ open' \subseteq open
           /\ \A t \in Streams :
                 \/ pc'[t] = Woken[t]
                 \/ pc[t] = "reading" /\ pc'[t] \in {"aborting", "gone"}
                 \/ pc'[t] = pc[t] /\ UNCHANGED <<open, outStream, outChannel>>
<1>0. pc \in [Streams -> Place]
  BY DEF TypeInv, TypeOK
<1>w. Woken \in [Streams -> Place] /\ open \subseteq Streams
  BY <1>0 DEF Woken, Place, TypeInv, TypeOK
<1>1. ASSUME NEW s \in Streams, BodyFails(s)
      PROVE  /\ UNCHANGED sent /\ open' \subseteq open
             /\ \A t \in Streams :
                   \/ pc'[t] = Woken[t]
                   \/ pc[t] = "reading" /\ pc'[t] \in {"aborting", "gone"}
                   \/ pc'[t] = pc[t] /\ UNCHANGED <<open, outStream, outChannel>>
  <2>1. CASE CanSend(s)
    BY <1>w, <1>1, <2>1 DEF BodyFails, PumpFails, CleanUp
  <2>2. CASE ~CanSend(s)
    BY <1>0, <1>1, <2>2 DEF BodyFails, PumpFails, Go
  <2> QED
    BY <2>1, <2>2
<1>2. ASSUME NEW s \in Streams, PublicCancel(s) \/ Timeout(s)
      PROVE  UNCHANGED sent /\ open' \subseteq open /\ pc' = Woken
  BY <1>2 DEF PublicCancel, Timeout, CleanUp
<1>3. CASE ReceiveStreamCredit \/ ReceiveChannelCredit
  BY <1>3 DEF ReceiveStreamCredit, ReceiveChannelCredit
<1>4. CASE ReceiveStart
  BY <1>4 DEF ReceiveStart
<1>5. CASE ReceiveEndOrAbort
  BY <1>5 DEF ReceiveEndOrAbort, CleanUp
<1> QED
  BY <1>1, <1>2, <1>3, <1>4, <1>5 DEF Ending

\* Every step keeps PumpInv and NoLostWakeup, and drops no pump that is done.
LEMMA PumpStep ==
    ASSUME IInv, Next
    PROVE  PumpInv' /\ NoLostWakeup'
<1> USE DEF IInv
<1>0. pc \in [Streams -> Place] /\ open \subseteq Streams
  BY DEF TypeInv, TypeOK
<1>w. \A t \in Streams : Woken[t] = IF pc[t] = "waiting" THEN "woken" ELSE pc[t]
  BY DEF Woken
<1>b. \A t \in Streams : sent[t] \in Nat /\ Len(Body[t]) \in Nat
  BY Counters, BodyAssumption
<1>1. ASSUME UNCHANGED <<pc, open, sent, outStream, outChannel>> PROVE PumpInv' /\ NoLostWakeup'
  BY <1>1 DEF PumpInv, NoLostWakeup, HasOutbound
<1>2. ASSUME NEW s \in Streams, PublicRequest(s) PROVE PumpInv' /\ NoLostWakeup'
  <2>1. /\ UNCHANGED <<sent, outChannel>> /\ open' = open \cup {s} /\ pc[s] = "absent"
        /\ \A t \in Streams : /\ pc'[t] = IF t = s THEN "reading" ELSE pc[t]
                              /\ t # s => outStream'[t] = outStream[t]
    BY <1>0, <1>2, Windows DEF PublicRequest, Go
  <2> QED
    BY <1>0, <2>1 DEF PumpInv, NoLostWakeup, HasOutbound
<1>3. ASSUME NEW s \in Streams, AskCredit(s) PROVE PumpInv' /\ NoLostWakeup'
  <2>1. /\ UNCHANGED <<sent, outChannel>>
        /\ (pc[s] = "reading" /\ sent[s] < Len(Body[s])) \/ pc[s] = "woken"
    BY <1>3 DEF AskCredit
  <2>2. CASE ~CanSend(s)
    BY <1>0, <1>3, <2>1, <2>2 DEF AskCredit, PumpFails, Go, PumpInv, NoLostWakeup, HasOutbound
  <2>3. CASE CanSend(s)
    <3>1. /\ UNCHANGED <<open, outStream>>
          /\ \A t \in Streams : pc'[t] = IF t # s THEN pc[t]
                                         ELSE IF HasOutbound(s) THEN "cleared" ELSE "waiting"
      BY <1>0, <1>3, <2>3 DEF AskCredit, Go
    <3> QED
      BY <2>1, <2>3, <3>1 DEF PumpInv, NoLostWakeup, HasOutbound, CanSend
  <2> QED
    BY <2>2, <2>3
<1>4. ASSUME NEW s \in Streams, SendData(s) PROVE PumpInv' /\ NoLostWakeup'
  <2>1. /\ pc[s] = "cleared" /\ sent[s] < Len(Body[s])
        /\ \A t \in Streams : sent'[t] = IF t = s THEN sent[s] + 1 ELSE sent[t]
    BY <1>4, Counters DEF SendData, PumpInv
  <2>2. CASE HasOutbound(s)
    <3>1. /\ \A t \in Streams : /\ pc'[t] = IF t = s THEN "reading" ELSE pc[t]
                                /\ t # s => outStream'[t] = outStream[t]
          /\ outChannel' = outChannel - Size(s, sent[s]) /\ UNCHANGED open
      BY <1>0, <1>4, <2>2, Windows DEF SendData, Go, Spend
    <3>2. Size(s, sent[s]) \in Nat /\ outChannel \in Nat
      BY <2>1, ChunkSizes, Windows
    <3>3. ASSUME NEW t \in Streams, pc'[t] = "waiting" PROVE t \in open' /\ ~HasOutbound(t)'
      <4>1. t # s /\ pc[t] = "waiting" /\ Size(t, sent[t]) \in Nat
        BY <3>1, <3>3, ChunkSizes
      <4>2. t \in open /\ ~HasOutbound(t)
        BY <4>1 DEF NoLostWakeup
      <4> QED
        <5>1. ~(outStream[t] >= Size(t, sent[t]) /\ outChannel >= Size(t, sent[t]))
          BY <4>2 DEF HasOutbound
        <5>2. /\ outStream'[t] = outStream[t] /\ sent'[t] = sent[t]
              /\ outChannel' \in Int /\ outChannel' <= outChannel /\ open' = open
          BY <2>1, <3>1, <3>2, <4>1
        <5>3. ~(outStream'[t] >= Size(t, sent'[t]) /\ outChannel' >= Size(t, sent'[t]))
          BY <3>2, <4>1, <5>1, <5>2
        <5> QED
          BY <4>2, <5>2, <5>3 DEF HasOutbound, Size
    <3> QED
      BY <1>b, <2>1, <3>1, <3>3 DEF PumpInv, NoLostWakeup
  <2>3. CASE ~HasOutbound(s)
    <3>1. UNCHANGED outChannel /\ PumpFails(s)
      BY <1>4, <2>3 DEF SendData
    <3>2. CASE CanSend(s)
      <4>1. /\ open' \subseteq open
            /\ \A t \in Streams : pc'[t] = IF t = s THEN "aborting" ELSE Woken[t]
        BY <3>1, <3>2, EndingTypes DEF PumpFails, CleanUp
      <4> QED
        BY <1>b, <1>w, <2>1, <4>1 DEF PumpInv, NoLostWakeup
    <3>3. CASE ~CanSend(s)
      <4>1. /\ UNCHANGED <<open, outStream>>
            /\ \A t \in Streams : pc'[t] = IF t = s THEN "gone" ELSE pc[t]
        BY <1>0, <3>1, <3>3 DEF PumpFails, Go
      <4> QED
        BY <1>b, <2>1, <3>1, <4>1 DEF PumpInv, NoLostWakeup, HasOutbound, Size
    <3> QED
      BY <3>2, <3>3
  <2> QED
    BY <2>2, <2>3
<1>5. ASSUME NEW s \in Streams, BodyRead(s) \/ SendEnd(s) \/ SendAbort(s)
      PROVE  PumpInv' /\ NoLostWakeup'
  <2>1. /\ UNCHANGED <<open, sent, outStream, outChannel>>
        /\ \A t \in Streams : t # s => pc'[t] = pc[t]
        /\ pc'[s] = "gone" \/ (pc'[s] = "ending" /\ sent[s] = Len(Body[s]))
    <3>1. CASE BodyRead(s)
      BY <1>0, <3>1 DEF BodyRead, Go
    <3>2. CASE SendEnd(s)
      <4>1. pc' = [pc EXCEPT ![s] = "gone"] /\ UNCHANGED <<open, sent, outStream, outChannel>>
        BY <3>2 DEF SendEnd, Go
      <4> QED
        BY <1>0, <4>1
    <3>3. CASE SendAbort(s)
      <4>1. pc' = [pc EXCEPT ![s] = "gone"] /\ UNCHANGED <<open, sent, outStream, outChannel>>
        BY <3>3 DEF SendAbort, Go
      <4> QED
        BY <1>0, <4>1
    <3> QED
      BY <1>5, <3>1, <3>2, <3>3
  <2> QED
    BY <2>1 DEF PumpInv, NoLostWakeup, HasOutbound
<1>6. ASSUME Ending PROVE PumpInv' /\ NoLostWakeup'
  <2>1. /\ UNCHANGED sent /\ open' \subseteq open
        /\ \A t \in Streams :
              \/ pc'[t] = Woken[t]
              \/ pc[t] = "reading" /\ pc'[t] \in {"aborting", "gone"}
              \/ pc'[t] = pc[t] /\ UNCHANGED <<open, outStream, outChannel>>
    BY <1>6, Endings
  <2>2. PumpInv'
    BY <1>w, <2>1 DEF PumpInv
  <2>3. NoLostWakeup'
    BY <1>w, <2>1 DEF NoLostWakeup, HasOutbound
  <2> QED
    BY <2>2, <2>3
<1> QED
  <2>1. ASSUME NEW s \in Streams, ClientReceives \/ Local(s) PROVE PumpInv' /\ NoLostWakeup'
    BY <1>1, <2>1, ClientSteps DEF server
  <2>2. CASE ClientReceives
    <3>1. UNCHANGED server
      BY <2>2 DEF ClientReceives, IgnoreFrame, ReceiveRequest, ReceiveData, ReceiveEnd, ReceiveAbort
    <3> QED
      BY <1>1, <3>1 DEF server
  <2>3. CASE ServerReceives
    BY <2>3, <1>6 DEF ServerReceives, Ending
  <2>4. CASE \E s \in Streams : \/ PublicRequest(s) \/ Pump(s) \/ BodyFails(s)
                                \/ PublicCancel(s) \/ Timeout(s) \/ Local(s)
    BY <1>2, <1>3, <1>4, <1>5, <1>6, <2>1, <2>4 DEF Pump, Ending
  <2> QED
    BY <2>2, <2>3, <2>4 DEF Next

-----------------------------------------------------------------------------
(* The link and the local request.                                             *)

\* No step takes a pump back to its start or out of its end.
LEMMA OnwardStep ==
    ASSUME IInv, Next
    PROVE  PumpOnward
<1> USE DEF IInv
<1>0. pc \in [Streams -> Place] /\ open \subseteq Streams
  BY DEF TypeInv, TypeOK
<1>w. \A t \in Streams : Woken[t] = IF pc[t] = "waiting" THEN "woken" ELSE pc[t]
  BY DEF Woken
<1>1. ASSUME UNCHANGED pc PROVE PumpOnward
  BY <1>1 DEF PumpOnward
<1>2. ASSUME NEW s \in Streams, NEW place, Go(s, place), pc[s] # "gone", place # "absent"
      PROVE  PumpOnward
  BY <1>0, <1>2 DEF Go, PumpOnward
<1>3. ASSUME NEW s \in Streams, PumpFails(s), pc[s] # "gone" PROVE PumpOnward
  <2>1. CASE CanSend(s)
    <3>1. \A t \in Streams : pc'[t] = IF t = s THEN "aborting" ELSE Woken[t]
      BY <1>3, <2>1, EndingTypes DEF PumpFails
    <3> QED
      BY <1>3, <1>w, <3>1 DEF PumpOnward
  <2>2. CASE ~CanSend(s)
    BY <1>2, <1>3, <2>2 DEF PumpFails
  <2> QED
    BY <2>1, <2>2
<1>4. ASSUME NEW s \in Streams, PublicRequest(s) \/ Pump(s) PROVE PumpOnward
  <2>1. CASE PublicRequest(s)
    BY <1>2, <2>1 DEF PublicRequest
  <2>2. CASE AskCredit(s)
    <3>1. CASE CanSend(s)
      BY <1>2, <2>2, <3>1 DEF AskCredit
    <3>2. CASE ~CanSend(s)
      BY <1>3, <2>2, <3>2 DEF AskCredit
    <3> QED
      BY <3>1, <3>2
  <2>3. CASE SendData(s)
    <3>1. CASE HasOutbound(s)
      BY <1>2, <2>3, <3>1 DEF SendData
    <3>2. CASE ~HasOutbound(s)
      BY <1>3, <2>3, <3>2 DEF SendData
    <3> QED
      BY <3>1, <3>2
  <2>4. CASE BodyRead(s)
    BY <1>2, <2>4 DEF BodyRead
  <2>5. CASE SendEnd(s)
    BY <1>2, <2>5 DEF SendEnd
  <2>6. CASE SendAbort(s)
    BY <1>2, <2>6 DEF SendAbort
  <2> QED
    BY <1>4, <2>1, <2>2, <2>3, <2>4, <2>5, <2>6 DEF Pump
<1>5. ASSUME Ending PROVE PumpOnward
  <2>1. \A t \in Streams :
            \/ pc'[t] = Woken[t]
            \/ pc[t] = "reading" /\ pc'[t] \in {"aborting", "gone"}
            \/ pc'[t] = pc[t]
    BY <1>5, Endings
  <2> QED
    BY <1>w, <2>1 DEF PumpOnward
<1> QED
  <2>1. CASE ClientReceives
    BY <1>1, <2>1 DEF ClientReceives, IgnoreFrame, ReceiveRequest, ReceiveData, ReceiveEnd,
                      ReceiveAbort, server
  <2>2. ASSUME NEW s \in Streams, Local(s) PROVE PumpOnward
    BY <1>1, <2>2, ClientSteps DEF server
  <2> QED
    BY <1>4, <1>5, <2>1, <2>2 DEF Next, ServerReceives, Ending

\* What a step of the pumps leaves alone.
LEMMA ServerSteps ==
    ASSUME NEW s \in Streams,
           PublicRequest(s) \/ Pump(s) \/ BodyFails(s) \/ PublicCancel(s) \/ Timeout(s)
    PROVE  UNCHANGED <<client, origin, fault>>
  BY DEF PublicRequest, Pump, AskCredit, SendData, BodyRead, SendEnd, SendAbort,
         BodyFails, PublicCancel, Timeout

\* What the server reads changes nothing on the client's side.
LEMMA ServerReceiving ==
    ASSUME ServerReceives
    PROVE  UNCHANGED <<client, origin, fault, down, sent>>
  BY DEF ServerReceives, ReceiveStreamCredit, ReceiveChannelCredit, ReceiveStart, ReceiveEndOrAbort

\* Steps of the local side never bring a stream back.
LEMMA LocalOnward ==
    ASSUME TypeInv, NEW s \in Streams, Local(s)
    PROVE  ClientOnward /\ UNCHANGED <<down, next, fault>>
<1>0. writer \in [Streams -> Writer]
  BY DEF TypeInv, TypeOK
<1>1. CASE OriginReads(s)
  BY <1>0, <1>1 DEF OriginReads, AbortResponse, AbortLocal, ClientOnward
<1>2. CASE OriginAnswers(s)
  BY <1>2 DEF OriginAnswers, client, ClientOnward
<1>3. CASE ResponseEnds(s)
  BY <1>3 DEF ResponseEnds, origin, ClientOnward
<1>4. CASE OriginFails(s)
  BY <1>0, <1>4 DEF OriginFails, AbortResponse, AbortLocal, ClientOnward
<1>5. CASE OriginDropsBody(s)
  BY <1>0, <1>5 DEF OriginDropsBody, ClientOnward
<1> QED
  BY <1>1, <1>2, <1>3, <1>4, <1>5 DEF Local

\* Unless it fails the connection, a step keeps the link.
LEMMA LinkStep ==
    ASSUME IInv, Next, fault' = "none"
    PROVE  LinkInv'
<1> USE DEF IInv
<1>0. PumpOnward
  BY OnwardStep
<1>1. ASSUME UNCHANGED <<down, sent, next>>, ClientOnward PROVE LinkInv'
  BY <1>0, <1>1, LinkKept
<1>2. ASSUME UNCHANGED client, UNCHANGED origin PROVE ClientOnward /\ UNCHANGED <<next, live, writer>>
  BY <1>2 DEF client, origin, ClientOnward
<1>3. ASSUME NEW s \in Streams,
             PublicRequest(s) \/ Pump(s) \/ BodyFails(s) \/ PublicCancel(s) \/ Timeout(s)
      PROVE  LinkInv'
  <2>0. ClientOnward /\ UNCHANGED <<next, live, writer>>
    BY <1>2, <1>3, ServerSteps
  <2>1. CASE PublicRequest(s)
    BY <2>0, <2>1, LinkRequest DEF PublicRequest, Go, ToClientSend
  <2>2. CASE AskCredit(s)
    BY <1>1, <2>0, <2>2 DEF AskCredit
  <2>3. CASE SendData(s)
    BY <1>0, <2>0, <2>3, LinkData DEF SendData, ToClientSend
  <2>4. CASE BodyRead(s)
    BY <1>1, <2>0, <2>4 DEF BodyRead
  <2>5. CASE SendEnd(s)
    <3>1. PICK f : f = [type |-> "end", id |-> s, last |-> sent[s] - 1]
      OBVIOUS
    <3>2. sent[s] - 1 \in Int
      BY Counters
    <3>3. f \in DownFrame
      BY <3>1, <3>2, FrameTypes
    <3>4. /\ f.type = "end" /\ f.id = s /\ f.last = sent[s] - 1
          /\ down' = Append(down, f) /\ UNCHANGED sent /\ Go(s, "gone") /\ pc[s] = "ending"
      BY <2>5, <3>1 DEF SendEnd, ToClientSend, LastSentSeq
    <3>5. pc'[s] = "gone" /\ sent[s] = Len(Body[s])
      BY <3>4 DEF Go, PumpInv, TypeInv, TypeOK
    <3> QED
      BY <1>0, <2>0, <3>3, <3>4, <3>5, LinkPushed
  <2>6. CASE SendAbort(s) \/ PublicCancel(s)
    <3>1. PICK f : f = [type |-> "abort", id |-> s]
      OBVIOUS
    <3>2. f \in DownFrame
      BY <3>1, FrameTypes
    <3>3. /\ f.type = "abort" /\ f.id = s /\ down' = Append(down, f) /\ UNCHANGED sent
      BY <2>6, <3>1 DEF SendAbort, PublicCancel, ToClientSend
    <3>4. pc[s] # "absent"
      BY <2>6 DEF SendAbort, PublicCancel, PumpInv, TypeInv, TypeOK
    <3> QED
      BY <1>0, <2>0, <3>2, <3>3, <3>4, LinkPushed
  <2>7. CASE BodyFails(s) \/ Timeout(s)
    BY <1>1, <2>0, <2>7 DEF BodyFails, Timeout
  <2> QED
    BY <1>3, <2>1, <2>2, <2>3, <2>4, <2>5, <2>6, <2>7 DEF Pump
<1>4. CASE ServerReceives
  BY <1>1, <1>2, <1>4, ServerReceiving DEF client
<1>5. ASSUME NEW s \in Streams, Local(s) PROVE LinkInv'
  <2>1. UNCHANGED server
    BY <1>5, ClientSteps
  <2> QED
    BY <1>1, <1>5, <2>1, LocalOnward DEF server
<1>6. CASE ClientReceives
  <2>0. UNCHANGED <<sent, pc>>
    BY <1>6 DEF ClientReceives, IgnoreFrame, ReceiveRequest, ReceiveData, ReceiveEnd,
                ReceiveAbort, server
  <2>a. writer \in [Streams -> Writer]
    BY DEF TypeInv, TypeOK
  <2>b. ASSUME NEW s \in Streams, s \in live, AbortLocal(s) PROVE ClientOnward
    BY <2>a, <2>b DEF AbortLocal, ClientOnward
  <2>1. CASE IgnoreFrame
    BY <2>0, <2>1, LinkPopped DEF IgnoreFrame, Turn, client, origin, ClientOnward
  <2>2. CASE ReceiveRequest
    BY <2>0, <2>2, LinkStarts, HeadOfDown DEF ReceiveRequest, Turn
  <2>3. CASE ReceiveData
    <3> DEFINE s == Head(down).id
    <3>1. /\ down # <<>> /\ down' = Tail(down) /\ Head(down).type = "data" /\ s \in live
          /\ s \in Streams
      BY <2>3, HeadOfDown DEF ReceiveData, Turn
    <3>2. TakeChunk(s, Size(s, Head(down).seq))
      BY <2>3 DEF ReceiveData, Fail
    <3>3. next' = [next EXCEPT ![s] = @ + 1] /\ ClientOnward
      BY <2>b, <3>1, <3>2 DEF TakeChunk, AbortResponse, ClientOnward
    <3> QED
      BY <2>0, <3>1, <3>3, LinkTaken
  <2>4. CASE ReceiveEnd
    <3> DEFINE s == Head(down).id
    <3>1. /\ down # <<>> /\ down' = Tail(down) /\ Head(down).type = "end" /\ s \in live
          /\ s \in Streams
      BY <2>4, HeadOfDown DEF ReceiveEnd, Turn
    <3>2. EndsInSequence(s, Head(down).last)
      BY <3>1, HeadInSequence
    <3>3. UNCHANGED next /\ ClientOnward
      <4>1. CASE writer[s] = "errored"
        BY <2>4, <2>b, <3>1, <3>2, <4>1 DEF ReceiveEnd, AbortResponse
      <4>2. CASE writer[s] # "errored"
        BY <2>4, <2>a, <3>1, <3>2, <4>2 DEF ReceiveEnd, client, ClientOnward
      <4> QED
        BY <4>1, <4>2
    <3> QED
      BY <2>0, <3>1, <3>3, LinkPopped
  <2>5. CASE ReceiveAbort
    <3>1. /\ down # <<>> /\ down' = Tail(down) /\ Head(down).type = "abort"
          /\ Head(down).id \in live /\ Head(down).id \in Streams /\ UNCHANGED next
      BY <2>5, HeadOfDown DEF ReceiveAbort, Turn
    <3> QED
      BY <2>0, <2>5, <2>b, <3>1, LinkPopped DEF ReceiveAbort
  <2> QED
    BY <1>6, <2>1, <2>2, <2>3, <2>4, <2>5 DEF ClientReceives
<1> QED
  BY <1>3, <1>4, <1>5, <1>6 DEF Next

\* The frames are in sequence, so no step finds them otherwise.
LEMMA FaultStep ==
    ASSUME IInv, Next
    PROVE  NoProtocolError'
<1> USE DEF IInv
<1>1. CASE UNCHANGED fault
  BY <1>1 DEF NoProtocolError
<1>2. CASE ReceiveData
  <2> DEFINE s == Head(down).id
  <2>1. down # <<>> /\ Head(down).type = "data" /\ s \in live
    BY <1>2 DEF ReceiveData, Turn
  <2>2. InSequence(s, Head(down).seq)
    BY <2>1, HeadInSequence
  <2> QED
    BY <1>1, <1>2, <2>2 DEF ReceiveData, Fail, TakeChunk, NoProtocolError
<1>3. CASE ReceiveEnd
  <2> DEFINE s == Head(down).id
  <2>1. down # <<>> /\ Head(down).type = "end" /\ s \in live
    BY <1>3 DEF ReceiveEnd, Turn
  <2>2. EndsInSequence(s, Head(down).last)
    BY <2>1, HeadInSequence
  <2> QED
    BY <1>1, <1>3, <2>2 DEF ReceiveEnd
<1>4. CASE ServerReceives
  BY <1>1, <1>4, ServerReceiving
<1>5. CASE IgnoreFrame \/ ReceiveRequest \/ ReceiveAbort
  BY <1>1, <1>5 DEF IgnoreFrame, ReceiveRequest, ReceiveAbort
<1>6. ASSUME NEW s \in Streams, Local(s) PROVE NoProtocolError'
  BY <1>1, <1>6, LocalOnward
<1>7. ASSUME NEW s \in Streams,
             PublicRequest(s) \/ Pump(s) \/ BodyFails(s) \/ PublicCancel(s) \/ Timeout(s)
      PROVE  NoProtocolError'
  BY <1>1, <1>7, ServerSteps
<1> QED
  BY <1>2, <1>3, <1>4, <1>5, <1>6, <1>7 DEF Next, ClientReceives

-----------------------------------------------------------------------------
(* The local request.                                                          *)

\* One more chunk, in order.
LEMMA Counted ==
    ASSUME NEW r \in Seq(Nat), r = [n \in 1..Len(r) |-> n - 1]
    PROVE  /\ Append(r, Len(r)) = [n \in 1..Len(Append(r, Len(r))) |-> n - 1]
           /\ Len(Append(r, Len(r))) = Len(r) + 1
<1> DEFINE k == Len(r)
<1>1. k \in Nat /\ r = [n \in 1..k |-> n - 1]
  OBVIOUS
<1>2. PICK q : q = Append(r, k)
  OBVIOUS
<1>3. /\ q \in Seq(Nat) /\ Len(q) = k + 1 /\ q[k + 1] = k
      /\ \A n \in 1..k : q[n] = r[n]
  BY <1>1, <1>2
<1>4. DOMAIN q = 1..k + 1 /\ q = [n \in DOMAIN q |-> q[n]]
  <2>1. q = [n \in 1..Len(q) |-> q[n]]
    BY <1>3, Z3
  <2> QED
    BY <1>1, <1>3, <2>1
<1>5. \A n \in 1..k + 1 : q[n] = n - 1
  <2>1. \A n \in 1..k : r[n] = n - 1
    BY <1>1
  <2>2. q[k + 1] = (k + 1) - 1
    BY <1>1, <1>3
  <2> HIDE DEF k
  <2> QED
    BY <1>1, <1>3, <2>1, <2>2
<1>6. q = [n \in 1..k + 1 |-> n - 1]
  BY <1>4, <1>5
<1> QED
  BY <1>2, <1>3, <1>6

\* Steps that at most break the local request of some streams.
LEMMA WriteKept ==
    ASSUME TypeInv, WriteInv, UNCHANGED <<read, next>>, live' \subseteq live,
           \A t \in Streams : writer'[t] \in {writer[t], "errored"},
           busy' \in {busy, NoStream},
           busy' # NoStream => writer'[busy] = writer[busy],
           busy' # busy => writer'[busy] = "errored"
    PROVE  WriteInv'
<1>1. NoStream \notin Streams /\ live \subseteq Streams
  BY NoStreamAssumption DEF TypeInv, TypeOK
<1>2. ASSUME NEW s \in Streams PROVE WriteOf(s)'
  BY <1>1, <1>2 DEF WriteInv, WriteOf
<1> QED
  BY <1>1, <1>2 DEF WriteInv

\* The client takes a chunk for the local request.
LEMMA WriteTaken ==
    ASSUME IInv, busy = NoStream, down # <<>>, Head(down).type = "data", Head(down).id \in live,
           TakeChunk(Head(down).id, Size(Head(down).id, Head(down).seq))
    PROVE  WriteInv'
<1> DEFINE s == Head(down).id
<1> USE DEF IInv
<1>1. /\ s \in Streams /\ s \in live /\ NoStream \notin Streams
      /\ live \subseteq Streams /\ busy = NoStream
  BY NoStreamAssumption DEF TypeInv, TypeOK
<1>2. /\ next' = [next EXCEPT ![s] = @ + 1] /\ UNCHANGED read
      /\ next \in [Streams -> Nat] /\ writer \in [Streams -> Writer]
      /\ read \in [Streams -> Seq(Nat)]
  BY DEF TakeChunk, TypeInv, TypeOK
<1>3. next[s] < Len(Body[s])
  BY <1>1, HeadInSequence, Counters, BodyAssumption DEF PumpInv
<1>4. writer[s] \in {"open", "errored"}
  <2>1. writer[s] # "none"
    BY <1>1 DEF WriteInv
  <2>2. writer[s] # "closed"
    <3>1. next[s] # Len(Body[s])
      BY <1>3, Counters, <1>1, BodyAssumption
    <3> QED
      BY <1>1, <3>1 DEF WriteInv, WriteOf
  <2> QED
    BY <1>1, <1>2, <2>1, <2>2 DEF Writer
<1>5. CASE writer[s] = "errored"
  <2>1. busy' = NoStream /\ live' \subseteq live /\ writer' = [writer EXCEPT ![s] = "errored"]
    BY <1>1, <1>2, <1>5 DEF TakeChunk, AbortResponse, AbortLocal
  <2>2. ASSUME NEW t \in Streams PROVE WriteOf(t)'
    BY <1>1, <1>2, <1>5, <2>1, <2>2 DEF WriteInv, WriteOf
  <2> QED
    BY <1>1, <1>2, <2>1, <2>2 DEF WriteInv
<1>6. CASE writer[s] = "open"
  <2>1. busy' = s /\ UNCHANGED <<live, writer>>
    BY <1>6 DEF TakeChunk
  <2>2. ASSUME NEW t \in Streams PROVE WriteOf(t)'
    <3>1. CASE t = s
      BY <1>1, <1>2, <1>6, <2>1, <3>1 DEF WriteInv, WriteOf
    <3>2. CASE t # s
      BY <1>1, <1>2, <2>1, <2>2, <3>2 DEF WriteInv, WriteOf
    <3> QED
      BY <3>1, <3>2
  <2> QED
    BY <1>6, <2>1, <2>2 DEF WriteInv
<1> QED
  BY <1>4, <1>5, <1>6

\* The origin reads the chunk that is being written.
LEMMA WriteRead ==
    ASSUME IInv, NEW s \in Streams, OriginReads(s)
    PROVE  WriteInv'
<1> USE DEF IInv
<1>1. /\ busy = s /\ busy' = NoStream /\ NoStream \notin Streams /\ UNCHANGED next
      /\ live \subseteq Streams /\ live' \subseteq live
      /\ next \in [Streams -> Nat] /\ writer \in [Streams -> Writer]
      /\ read \in [Streams -> Seq(Nat)]
  BY NoStreamAssumption DEF OriginReads, AbortResponse, AbortLocal, TypeInv, TypeOK
<1>2. writer[s] = "open" /\ next[s] = Len(read[s]) + 1
  BY <1>1 DEF WriteInv, WriteOf
<1>3. read' = [read EXCEPT ![s] = Append(read[s], Len(read[s]))]
  <2>1. next[s] - 1 = Len(read[s])
    BY <1>1, <1>2
  <2> QED
    BY <2>1 DEF OriginReads
<1>4. \A t \in Streams : t # s => writer'[t] = writer[t]
  BY <1>1 DEF OriginReads, AbortResponse, AbortLocal
<1>5. writer'[s] \in {"open", "errored"}
  BY <1>1, <1>2 DEF OriginReads, AbortResponse, AbortLocal
<1>6. ASSUME NEW t \in Streams PROVE WriteOf(t)'
  <2>1. CASE t = s
    <3>1. read'[s] = Append(read[s], Len(read[s]))
      BY <1>1, <1>3
    <3>2. /\ read'[s] = [n \in 1..Len(read'[s]) |-> n - 1]
          /\ Len(read'[s]) = Len(read[s]) + 1
      BY <1>1, <3>1, Counted DEF WriteInv, WriteOf
    <3> QED
      BY <1>1, <1>2, <1>5, <2>1, <3>2 DEF WriteOf
  <2>2. CASE t # s
    <3>1. read'[t] = read[t]
      BY <1>1, <1>3, <2>2
    <3> QED
      BY <1>1, <1>4, <2>2, <3>1 DEF WriteInv, WriteOf
  <2> QED
    BY <2>1, <2>2
<1>7. \A t \in live' : writer'[t] # "none"
  BY <1>1, <1>4, <1>5 DEF WriteInv
<1> QED
  BY <1>1, <1>6, <1>7 DEF WriteInv

\* Every step keeps what the origin read.
LEMMA WriteStep ==
    ASSUME IInv, Next
    PROVE  WriteInv'
<1> USE DEF IInv
<1>0. /\ NoStream \notin Streams /\ live \subseteq Streams
      /\ writer \in [Streams -> Writer] /\ next \in [Streams -> Nat]
      /\ read \in [Streams -> Seq(Nat)]
  BY NoStreamAssumption DEF TypeInv, TypeOK
<1>1. ASSUME UNCHANGED <<client, origin>> PROVE WriteInv'
  BY <1>1 DEF client, origin, WriteInv, WriteOf
<1>2. ASSUME NEW s \in Streams,
             PublicRequest(s) \/ Pump(s) \/ BodyFails(s) \/ PublicCancel(s) \/ Timeout(s)
      PROVE  WriteInv'
  BY <1>1, <1>2, ServerSteps
<1>3. CASE ServerReceives
  BY <1>1, <1>3, ServerReceiving
<1>4. CASE IgnoreFrame
  BY <1>1, <1>4 DEF IgnoreFrame
<1>5. CASE ReceiveRequest
  <2> DEFINE s == Head(down).id
  <2>1. /\ down # <<>> /\ down' = Tail(down) /\ Head(down).type = "request" /\ s \in Streams
        /\ busy = NoStream /\ UNCHANGED <<busy, next, read>>
        /\ live' = live \cup {s} /\ writer' = [writer EXCEPT ![s] = "open"]
    BY <1>5, HeadOfDown DEF ReceiveRequest, Turn
  <2>2. UNCHANGED <<sent, pc>>
    BY <1>5 DEF ReceiveRequest, server
  <2>3. Untouched(s)
    BY <2>1, <2>2, LinkStarts
  <2>4. read[s] = <<>> /\ next[s] = 0
    BY <2>1, <2>3 DEF WriteInv, WriteOf, Untouched
  <2>5. ASSUME NEW t \in Streams PROVE WriteOf(t)'
    <3>1. CASE t = s
      BY <1>0, <2>1, <2>4, <3>1 DEF WriteInv, WriteOf
    <3>2. CASE t # s
      BY <1>0, <2>1, <3>2 DEF WriteInv, WriteOf
    <3> QED
      BY <3>1, <3>2
  <2> QED
    BY <1>0, <2>1, <2>5 DEF WriteInv
<1>6. CASE ReceiveData
  <2> DEFINE s == Head(down).id
  <2>1. busy = NoStream /\ down # <<>> /\ Head(down).type = "data" /\ s \in live
    BY <1>6 DEF ReceiveData, Turn
  <2>2. CASE UNCHANGED <<client, origin>>
    BY <1>1, <2>2
  <2>3. CASE TakeChunk(s, Size(s, Head(down).seq))
    BY <2>1, <2>3, WriteTaken
  <2> QED
    BY <1>6, <2>2, <2>3 DEF ReceiveData, Fail
<1>7. CASE ReceiveEnd
  <2> DEFINE s == Head(down).id
  <2>1. /\ busy = NoStream /\ down # <<>> /\ Head(down).type = "end" /\ s \in live
        /\ s \in Streams
    BY <1>0, <1>7 DEF ReceiveEnd, Turn
  <2>2. EndsInSequence(s, Head(down).last) /\ next[s] = sent[s]
    BY <2>1, HeadInSequence
  <2>3. sent[s] = Len(Body[s])
    <3>1. 1 \in DOMAIN down /\ Is(1, "end", s)
      BY <2>1, Popped DEF TypeInv, Is
    <3> QED
      BY <2>1, <3>1 DEF LinkInv, EndInv
  <2>4. CASE writer[s] = "errored"
    <3>1. AbortResponse(s) /\ UNCHANGED <<busy, next, read>>
      BY <1>7, <2>2, <2>4 DEF ReceiveEnd
    <3> QED
      BY <1>0, <2>1, <2>4, <3>1, WriteKept DEF AbortResponse, AbortLocal
  <2>5. CASE writer[s] # "errored"
    <3>1. /\ writer' = [writer EXCEPT ![s] = "closed"]
          /\ UNCHANGED <<busy, live, next, read>>
      BY <1>7, <2>2, <2>5 DEF ReceiveEnd, client
    <3>2. writer[s] \in {"open", "closed"}
      BY <1>0, <2>1, <2>5 DEF WriteInv, Writer
    <3>3. next[s] = Len(Body[s]) /\ Len(read[s]) = Len(Body[s])
      BY <1>0, <2>1, <2>2, <2>3, <3>2 DEF WriteInv, WriteOf
    <3>4. ASSUME NEW t \in Streams PROVE WriteOf(t)'
      BY <1>0, <2>1, <3>1, <3>3, <3>4 DEF WriteInv, WriteOf
    <3> QED
      BY <1>0, <2>1, <3>1, <3>4 DEF WriteInv
  <2> QED
    BY <2>4, <2>5
<1>8. CASE ReceiveAbort
  <2>1. /\ busy = NoStream /\ Head(down).id \in live /\ AbortLocal(Head(down).id)
        /\ UNCHANGED <<busy, next, read>>
    BY <1>8 DEF ReceiveAbort, Turn
  <2>2. \A t \in Streams : writer'[t] \in {writer[t], "errored"}
    BY <1>0, <2>1 DEF AbortLocal
  <2>3. live' \subseteq live
    BY <2>1 DEF AbortLocal
  <2> QED
    BY <2>1, <2>2, <2>3, WriteKept
<1>9. ASSUME NEW s \in Streams, Local(s) PROVE WriteInv'
  <2>1. CASE OriginReads(s)
    BY <2>1, WriteRead
  <2>2. CASE OriginAnswers(s) \/ ResponseEnds(s)
    <3>1. UNCHANGED <<read, next, writer, busy>> /\ live' \subseteq live
      BY <2>2 DEF OriginAnswers, ResponseEnds, client, origin
    <3> QED
      BY <3>1, WriteKept
  <2>3. CASE OriginFails(s)
    <3>1. UNCHANGED <<read, next>> /\ busy' = Unblocked(s) /\ AbortLocal(s)
      BY <2>3 DEF OriginFails, AbortResponse
    <3>2. live' \subseteq live /\ \A t \in Streams : writer'[t] \in {writer[t], "errored"}
      BY <1>0, <3>1 DEF AbortLocal
    <3>3. busy = s => writer'[s] = "errored"
      BY <1>0, <3>1 DEF AbortLocal, WriteInv
    <3>4. \A t \in Streams : t # s => writer'[t] = writer[t]
      BY <1>0, <3>1 DEF AbortLocal
    <3>5. busy \in Streams \cup {NoStream}
      BY DEF TypeInv, TypeOK
    <3> QED
      BY <1>0, <3>1, <3>2, <3>3, <3>4, <3>5, WriteKept DEF Unblocked
  <2>4. CASE OriginDropsBody(s)
    <3>1. /\ UNCHANGED <<read, next>> /\ busy' = Unblocked(s)
          /\ writer' = [writer EXCEPT ![s] = "errored"] /\ live' \subseteq live
      BY <2>4 DEF OriginDropsBody
    <3>2. busy \in Streams \cup {NoStream}
      BY DEF TypeInv, TypeOK
    <3> QED
      BY <1>0, <3>1, <3>2, WriteKept DEF Unblocked
  <2> QED
    BY <1>9, <2>1, <2>2, <2>3, <2>4 DEF Local
<1> QED
  BY <1>2, <1>3, <1>4, <1>5, <1>6, <1>7, <1>8, <1>9 DEF Next, ClientReceives

-----------------------------------------------------------------------------
(* The theorems.                                                               *)

\* The invariant holds initially.
LEMMA Initially == Init => Inv
<1> SUFFICES ASSUME Init PROVE Inv
  OBVIOUS
<1> USE DEF Init
<1>1. TypeInv
  <2>1. /\ \A S : <<>> \in Seq(S)
        /\ outChannel \in Nat /\ inChannel \in Nat
    BY LimitsAssumption
  <2>2. /\ pc \in [Streams -> Place] /\ writer \in [Streams -> Writer]
        /\ read \in [Streams -> Seq(Nat)]
    BY <2>1 DEF Place, Writer
  <2> QED
    BY <2>1, <2>2 DEF TypeInv, TypeOK
<1>2. PumpInv
  BY BodyAssumption DEF PumpInv
<1>3. WriteInv
  BY DEF WriteInv, WriteOf
<1>4. RequestInv
  BY DEF RequestInv, Untouched, Is
<1>5. DataInv
  BY DEF DataInv, Coming, Is
<1>6. EndInv
  BY DEF EndInv, Is
<1>7. NoLostWakeup /\ NoProtocolError
  BY DEF NoLostWakeup, NoProtocolError
<1> QED
  BY <1>1, <1>2, <1>3, <1>4, <1>5, <1>6, <1>7 DEF Inv, LinkInv

\* Every step keeps the invariant.
LEMMA Inductive == Inv /\ [Next]_vars => Inv'
<1>1. ASSUME Inv, Next PROVE Inv'
  <2>1. IInv
    BY <1>1 DEF Inv, IInv, Next
  <2> QED
    BY <1>1, <2>1, TypeStep, PumpStep, WriteStep, FaultStep, LinkStep DEF Inv
<1>2. ASSUME Inv, UNCHANGED vars PROVE Inv'
  <2> USE <1>2 DEF vars, server, client, origin
  <2>1. TypeInv' /\ NoProtocolError'
    BY DEF Inv, TypeInv, TypeOK, NoProtocolError
  <2>2. PumpInv' /\ NoLostWakeup'
    BY DEF Inv, PumpInv, NoLostWakeup, HasOutbound
  <2>3. WriteInv'
    BY DEF Inv, WriteInv, WriteOf
  <2>4. LinkInv => LinkInv'
    <3>1. ClientOnward /\ PumpOnward
      BY DEF ClientOnward, PumpOnward
    <3> QED
      BY <3>1, LinkKept
  <2> QED
    BY <2>1, <2>2, <2>3, <2>4 DEF Inv
<1> QED
  BY <1>1, <1>2

\* The invariant holds in every behaviour of the specification.
LEMMA Always == Spec => []Inv
  BY Initially, Inductive, PTL DEF Spec

\* Every variable keeps its type: the credits never get below zero.
THEOREM TypeCorrect == Spec => []TypeOK
<1>1. Inv => TypeOK
  BY DEF Inv, TypeInv
<1> QED
  BY <1>1, Always, PTL

\* A pump sleeps in waitForOutbound only while its stream is registered and its
\* credit is missing: cleanup and every credit frame wake it (wakeWaiters).
THEOREM PumpsAreWoken == Spec => []NoLostWakeup
<1>1. Inv => NoLostWakeup
  BY DEF Inv
<1> QED
  BY <1>1, Always, PTL

\* No frame of a request body is out of sequence for checkReceiveSeq, and none ends
\* it with another count for checkReceiveEndSeq, whoever ends the stream and when.
THEOREM FramesInSequence == Spec => []NoProtocolError
<1>1. Inv => NoProtocolError
  BY DEF Inv
<1> QED
  BY <1>1, Always, PTL

\* The local origin sees a clean end of a request body only when it read the whole
\* of it, in order.
THEOREM CleanEnds == Spec => []CleanEndIsWhole
<1>1. Inv => CleanEndIsWhole
  <2> SUFFICES ASSUME Inv, NEW s \in Streams, writer[s] = "closed"
               PROVE  read[s] = [n \in 1..Len(Body[s]) |-> n - 1]
    BY DEF CleanEndIsWhole
  <2>1. WriteOf(s)
    BY DEF Inv, WriteInv
  <2> QED
    BY <2>1 DEF WriteOf
<1> QED
  BY <1>1, Always, PTL

-----------------------------------------------------------------------------
(* The windows of the streams. Every quantity of bytes is a difference of two   *)
(* prefix sums of the body, so that a chunk that moves on changes two by its size. *)

\* Bytes of the first n chunks of s.
Prefix(s, n) == SumFunctionOnSet(Body[s], 1..n)
Taken(s) == Len(read[s])

\* How much of its body the pump may have sent.
Granted(s) == StreamCredit + Prefix(s, Taken(s))

ReadInv(s) ==
    /\ Taken(s) <= next[s]
    /\ s \in live => next[s] = IF busy = s THEN Taken(s) + 1 ELSE Taken(s)
WindowInv(s) == s \in live => inStream[s] = StreamCredit - BeingWritten(s)
FlowInv(s) == Coming(s) => DataInFlight(s) + Prefix(s, next[s]) = Prefix(s, sent[s])
CreditInv(s) ==
    /\ CreditInFlight(s) <= Prefix(s, Taken(s)) /\ Prefix(s, sent[s]) <= Granted(s)
    /\ s \in open => outStream[s] + Prefix(s, sent[s]) + CreditInFlight(s) = Granted(s)
    /\ pc[s] = "cleared" => Prefix(s, sent[s] + 1) <= Granted(s)
Account(s) == ReadInv(s) /\ WindowInv(s) /\ FlowInv(s) /\ CreditInv(s)
AccountInv == \A s \in Streams : Account(s)

\* What the bytes of the first chunks are, one chunk after the other.
LEMMA PrefixFacts ==
    ASSUME NEW s \in Streams
    PROVE  /\ Prefix(s, 0) = 0
           /\ \A n \in 0..Len(Body[s]) : Prefix(s, n) \in Nat
           /\ \A n \in Nat : n < Len(Body[s]) =>
                  /\ Prefix(s, n + 1) = Prefix(s, n) + Size(s, n)
                  /\ Prefix(s, n) \in Nat /\ Prefix(s, n + 1) \in Nat /\ Size(s, n) \in Nat
<1>1. PICK b : b = Body[s] /\ b \in Seq(Nat) /\ Len(b) \in Nat
  BY BodyAssumption
<1>2. \A n \in Nat : n < Len(b) => n \in 0..Len(b) /\ n + 1 \in 0..Len(b)
  BY <1>1
<1> QED
  BY <1>1, <1>2, SumPrefixes, SizeType DEF Prefix, Size

\* The data frames of the program carry chunks that are there.
ChunkFrame == {f \in DownFrame : f.type = "data" => f.seq < Len(Body[f.id])}

Carried(s) == [f \in ChunkFrame |-> IF f.type = "data" /\ f.id = s THEN Size(s, f.seq) ELSE 0]
Paid(s) == [f \in UpFrame |-> IF f.type = "stream.credit" /\ f.id = s THEN f.bytes ELSE 0]

\* What a frame weighs in the bytes of a stream, and in its credit.
LEMMA FrameWeights ==
    ASSUME NEW s \in Streams
    PROVE  /\ Carried(s) \in [ChunkFrame -> Nat] /\ Paid(s) \in [UpFrame -> Nat]
           /\ \A f \in ChunkFrame : ~(f.type = "data" /\ f.id = s) => Carried(s)[f] = 0
           /\ \A f \in ChunkFrame : f.type = "data" /\ f.id = s => Carried(s)[f] = Size(s, f.seq)
           /\ \A f \in UpFrame : ~(f.type = "stream.credit" /\ f.id = s) => Paid(s)[f] = 0
           /\ \A f \in UpFrame : f.type = "stream.credit" /\ f.id = s => Paid(s)[f] = f.bytes
<1>1. \A f \in ChunkFrame : f.type = "data" => f.seq \in Nat /\ f.seq < Len(Body[f.id])
  BY DEF ChunkFrame, DownFrame
<1>2. \A f \in ChunkFrame : (IF f.type = "data" /\ f.id = s THEN Size(s, f.seq) ELSE 0) \in Nat
  BY <1>1, SizeType
<1>3. \A f \in UpFrame : (IF f.type = "stream.credit" /\ f.id = s THEN f.bytes ELSE 0) \in Nat
  BY DEF UpFrame
<1> QED
  BY <1>2, <1>3 DEF Carried, Paid

\* The quantities of the invariant are weights of the links.
LEMMA LinkWeighs ==
    ASSUME NEW s \in Streams, NEW l \in Seq(ChunkFrame), NEW m \in Seq(UpFrame)
    PROVE  /\ SumFunction([i \in DOMAIN l |-> IF l[i].type = "data" /\ l[i].id = s
                                              THEN Size(s, l[i].seq) ELSE 0]) = Weigh(l, Carried(s))
           /\ SumFunction([i \in DOMAIN m |-> IF m[i].type = "stream.credit" /\ m[i].id = s
                                              THEN m[i].bytes ELSE 0]) = Weigh(m, Paid(s))
           /\ Weigh(l, Carried(s)) \in Nat /\ Weigh(m, Paid(s)) \in Nat
<1>1. \A i \in DOMAIN l : l[i] \in ChunkFrame
  OBVIOUS
<1>2. [i \in DOMAIN l |-> IF l[i].type = "data" /\ l[i].id = s THEN Size(s, l[i].seq) ELSE 0]
          = [i \in DOMAIN l |-> Carried(s)[l[i]]]
  BY <1>1 DEF Carried
<1>3. \A i \in DOMAIN m : m[i] \in UpFrame
  OBVIOUS
<1>4. [i \in DOMAIN m |-> IF m[i].type = "stream.credit" /\ m[i].id = s THEN m[i].bytes ELSE 0]
          = [i \in DOMAIN m |-> Paid(s)[m[i]]]
  BY <1>3 DEF Paid
<1>5. Weigh(l, Carried(s)) \in Nat /\ Weigh(m, Paid(s)) \in Nat
  BY FrameWeights, WeighType
<1> QED
  BY <1>2, <1>4, <1>5 DEF Weigh

\* Only chunks that are there are on their way.
LEMMA ChunksOnly ==
    ASSUME IInv
    PROVE  down \in Seq(ChunkFrame)
<1>1. /\ down \in Seq(DownFrame) /\ DOMAIN down = 1..Len(down) /\ Len(down) \in Nat
      /\ \A i \in DOMAIN down : down[i] \in DownFrame
  BY DEF IInv, TypeInv
<1>2. ASSUME NEW i \in DOMAIN down, down[i].type = "data"
      PROVE  down[i].seq < Len(Body[down[i].id])
  <2>1. PICK s : s = down[i].id
    OBVIOUS
  <2>2. s \in Streams /\ down[i].seq \in Nat /\ Is(i, "data", s)
    BY <1>1, <1>2, <2>1 DEF DownFrame, Is
  <2>3. down[i].seq < sent[s] /\ sent[s] <= Len(Body[s]) /\ sent[s] \in Nat /\ Len(Body[s]) \in Nat
    BY <2>2, Counters, BodyAssumption DEF IInv, LinkInv, DataInv, PumpInv
  <2> QED
    BY <2>1, <2>2, <2>3
<1>3. \A i \in 1..Len(down) : down[i] \in ChunkFrame
  BY <1>1, <1>2 DEF ChunkFrame
<1> QED
  BY <1>1, <1>3

\* How frames that join the link to the client, or leave it, change what is in flight.
LEMMA DownWeighs ==
    ASSUME IInv, NEW s \in Streams
    PROVE  /\ DataInFlight(s) \in Nat
           /\ (\A f \in DOMAIN down : down[f].id # s) => DataInFlight(s) = 0
           /\ \A f \in ChunkFrame : down' = Append(down, f) =>
                  DataInFlight(s)' = DataInFlight(s) + Carried(s)[f]
           /\ down # <<>> /\ down' = Tail(down) =>
                  /\ DataInFlight(s)' \in Nat /\ Head(down) \in ChunkFrame
                  /\ DataInFlight(s) = Carried(s)[Head(down)] + DataInFlight(s)'
<1>1. down \in Seq(ChunkFrame)
  BY ChunksOnly
<1>2. ASSUME down' \in Seq(ChunkFrame)
      PROVE  DataInFlight(s)' = Weigh(down', Carried(s)) /\ DataInFlight(s)' \in Nat
  <2>1. <<>> \in Seq(UpFrame)
    OBVIOUS
  <2> QED
    BY <1>2, <2>1, LinkWeighs DEF DataInFlight
<1>3. DataInFlight(s) = Weigh(down, Carried(s)) /\ DataInFlight(s) \in Nat
  <2>1. <<>> \in Seq(UpFrame)
    OBVIOUS
  <2> QED
    BY <1>1, <2>1, LinkWeighs DEF DataInFlight
<1>4. Carried(s) \in [ChunkFrame -> Nat]
  BY FrameWeights
<1>5. ASSUME \A i \in DOMAIN down : down[i].id # s
      PROVE  DataInFlight(s) = 0
  <2>1. \A f \in Range(down) : f \in ChunkFrame /\ f.id # s
    BY <1>1, <1>5 DEF Range
  <2>2. \A f \in Range(down) : Carried(s)[f] = 0
    BY <2>1, FrameWeights
  <2> QED
    BY <1>1, <1>3, <1>4, <2>2, Weightless
<1>6. ASSUME NEW f \in ChunkFrame, down' = Append(down, f)
      PROVE  DataInFlight(s)' = DataInFlight(s) + Carried(s)[f]
  <2>1. Append(down, f) \in Seq(ChunkFrame)
    BY <1>1
  <2> QED
    BY <1>1, <1>2, <1>3, <1>4, <1>6, <2>1, WeighAppended
<1>7. ASSUME down # <<>>, down' = Tail(down)
      PROVE  /\ DataInFlight(s)' \in Nat /\ Head(down) \in ChunkFrame
             /\ DataInFlight(s) = Carried(s)[Head(down)] + DataInFlight(s)'
  <2>1. Tail(down) \in Seq(ChunkFrame) /\ Head(down) \in ChunkFrame
    BY <1>1, <1>7
  <2> QED
    BY <1>1, <1>2, <1>3, <1>4, <1>7, <2>1, WeighPopped
<1> QED
  BY <1>3, <1>5, <1>6, <1>7

\* The same for the link to the server.
LEMMA UpWeighs ==
    ASSUME TypeInv, NEW s \in Streams
    PROVE  /\ CreditInFlight(s) \in Nat
           /\ \A more \in Seq(UpFrame) :
                  up' = up \o more /\ (\A f \in Range(more) : f.type # "stream.credit") =>
                      CreditInFlight(s)' = CreditInFlight(s)
           /\ \A t \in Streams, n \in Nat : up' = up \o Credits(t, n) =>
                  CreditInFlight(s)' = CreditInFlight(s) + (IF t = s THEN n ELSE 0)
           /\ up # <<>> /\ up' = Tail(up) =>
                  /\ CreditInFlight(s)' \in Nat /\ Head(up) \in UpFrame
                  /\ CreditInFlight(s) = Paid(s)[Head(up)] + CreditInFlight(s)'
<1>1. up \in Seq(UpFrame) /\ <<>> \in Seq(ChunkFrame)
  BY DEF TypeInv
<1>2. ASSUME up' \in Seq(UpFrame)
      PROVE  CreditInFlight(s)' = Weigh(up', Paid(s)) /\ CreditInFlight(s)' \in Nat
  BY <1>1, <1>2, LinkWeighs DEF CreditInFlight
<1>3. CreditInFlight(s) = Weigh(up, Paid(s)) /\ CreditInFlight(s) \in Nat
  BY <1>1, LinkWeighs DEF CreditInFlight
<1>4. Paid(s) \in [UpFrame -> Nat]
  BY FrameWeights
<1>5. ASSUME NEW more \in Seq(UpFrame), up' = up \o more
      PROVE  CreditInFlight(s)' = CreditInFlight(s) + Weigh(more, Paid(s))
  <2>1. up \o more \in Seq(UpFrame)
    BY <1>1
  <2> QED
    BY <1>1, <1>2, <1>3, <1>4, <1>5, <2>1, WeighJoined
<1>6. ASSUME NEW more \in Seq(UpFrame), up' = up \o more,
             \A f \in Range(more) : f.type # "stream.credit"
      PROVE  CreditInFlight(s)' = CreditInFlight(s)
  <2>1. \A f \in Range(more) : f \in UpFrame
    BY DEF Range
  <2>2. \A f \in Range(more) : Paid(s)[f] = 0
    BY <1>6, <2>1, FrameWeights
  <2>3. Weigh(more, Paid(s)) = 0
    BY <1>4, <2>2, Weightless
  <2>4. CreditInFlight(s)' = CreditInFlight(s) + Weigh(more, Paid(s))
    BY <1>5, <1>6
  <2> QED
    BY <1>3, <2>3, <2>4
<1>7. ASSUME NEW t \in Streams, NEW n \in Nat, up' = up \o Credits(t, n)
      PROVE  CreditInFlight(s)' = CreditInFlight(s) + (IF t = s THEN n ELSE 0)
  <2>1. PICK f, g : f = [type |-> "stream.credit", id |-> t, bytes |-> n]
                    /\ g = [type |-> "channel.credit", bytes |-> n]
    OBVIOUS
  <2>2. f \in UpFrame /\ g \in UpFrame
    BY <2>1 DEF UpFrame
  <2>3. Paid(s)[f] = IF t = s THEN n ELSE 0
    BY <2>1, <2>2, FrameWeights
  <2>4. Paid(s)[g] = 0
    BY <2>1, <2>2, FrameWeights
  <2>5. PICK one : one = <<f>>
    OBVIOUS
  <2>6. one \in Seq(UpFrame) /\ Weigh(one, Paid(s)) = Paid(s)[f]
    BY <1>4, <2>2, <2>5, WeighOne
  <2>7. Credits(t, n) = Append(one, g)
    BY <2>1, <2>5 DEF Credits
  <2>8. Append(one, g) \in Seq(UpFrame)
    BY <2>2, <2>6
  <2>9. Weigh(Append(one, g), Paid(s)) = Paid(s)[f] + 0
    BY <1>4, <2>2, <2>4, <2>6, WeighAppended
  <2>10. Weigh(Credits(t, n), Paid(s)) = IF t = s THEN n ELSE 0
    BY <2>3, <2>7, <2>9
  <2> QED
    BY <1>5, <1>7, <2>7, <2>8, <2>10
<1>8. ASSUME up # <<>>, up' = Tail(up)
      PROVE  /\ CreditInFlight(s)' \in Nat /\ Head(up) \in UpFrame
             /\ CreditInFlight(s) = Paid(s)[Head(up)] + CreditInFlight(s)'
  <2>1. Tail(up) \in Seq(UpFrame) /\ Head(up) \in UpFrame
    BY <1>1, <1>8
  <2> QED
    BY <1>1, <1>2, <1>3, <1>4, <1>8, <2>1, WeighPopped
<1> QED
  BY <1>3, <1>6, <1>7, <1>8

\* Where a stream stands, in chunks and in bytes.
LEMMA Standing ==
    ASSUME IInv, NEW s \in Streams, Account(s)
    PROVE  /\ Taken(s) \in Nat /\ next[s] \in Nat /\ sent[s] \in Nat /\ Len(Body[s]) \in Nat
           /\ Taken(s) <= next[s] /\ next[s] <= sent[s] /\ sent[s] <= Len(Body[s])
           /\ Prefix(s, Taken(s)) \in Nat /\ Prefix(s, next[s]) \in Nat /\ Prefix(s, sent[s]) \in Nat
           /\ Granted(s) \in Nat /\ outStream[s] \in Nat /\ StreamCredit \in Nat
           /\ CreditInFlight(s) \in Nat /\ DataInFlight(s) \in Nat
<1>1. /\ next[s] \in Nat /\ sent[s] \in Nat /\ outStream[s] \in Nat /\ read[s] \in Seq(Nat)
  BY DEF IInv, TypeInv, TypeOK
<1>2. Len(Body[s]) \in Nat /\ StreamCredit \in Nat
  BY BodyAssumption, LimitsAssumption
<1>3. Taken(s) <= next[s] /\ next[s] <= sent[s] /\ sent[s] <= Len(Body[s])
  BY DEF IInv, LinkInv, DataInv, PumpInv, Account, ReadInv
<1>4. Taken(s) \in Nat
  BY <1>1 DEF Taken
<1>5. /\ Taken(s) \in 0..Len(Body[s]) /\ next[s] \in 0..Len(Body[s])
      /\ sent[s] \in 0..Len(Body[s])
  BY <1>1, <1>2, <1>3, <1>4
<1>6. /\ Prefix(s, Taken(s)) \in Nat /\ Prefix(s, next[s]) \in Nat /\ Prefix(s, sent[s]) \in Nat
  BY <1>5, PrefixFacts
<1>7. Granted(s) \in Nat
  BY <1>2, <1>6 DEF Granted
<1>8. CreditInFlight(s) \in Nat /\ DataInFlight(s) \in Nat
  BY UpWeighs, DownWeighs DEF IInv
<1> QED
  BY <1>1, <1>2, <1>3, <1>4, <1>6, <1>7, <1>8

\* The server does not touch the credit of s, but may take some from the link, ...
CreditQuiet(s) ==
    /\ CreditInFlight(s)' <= CreditInFlight(s)
    /\ s \in open' => s \in open /\ outStream'[s] + CreditInFlight(s)'
                                        = outStream[s] + CreditInFlight(s)
    /\ pc'[s] = "cleared" =>
           pc[s] = "cleared" \/ (s \in open /\ HasOutbound(s) /\ sent[s] < Len(Body[s]))

\* ... the link to the client keeps the chunks of s, while somebody will take them, ...
LinkQuiet(s) == Coming(s)' => Coming(s) /\ DataInFlight(s)' = DataInFlight(s)

\* ... and the client does not touch its window or the write.
WriteQuiet(s) ==
    s \in live' => s \in live /\ inStream'[s] = inStream[s] /\ (busy' = s <=> busy = s)

\* A stream that is not touched in this sense keeps its accounts.
LEMMA AccountKept ==
    ASSUME IInv, NEW s \in Streams, Account(s), CreditInFlight(s)' \in Nat, outStream'[s] \in Nat,
           read'[s] = read[s], sent'[s] = sent[s], next'[s] = next[s],
           CreditQuiet(s), LinkQuiet(s), WriteQuiet(s)
    PROVE  Account(s)'
<1>1. ReadInv(s) /\ WindowInv(s) /\ FlowInv(s) /\ CreditInv(s)
  BY DEF Account
<1>2. Taken(s)' = Taken(s) /\ Granted(s)' = Granted(s)
  BY DEF Taken, Granted, Prefix
<1>3. ReadInv(s)'
  BY <1>1, <1>2 DEF ReadInv, WriteQuiet
<1>4. WindowInv(s)'
  BY <1>1 DEF WindowInv, BeingWritten, WriteQuiet, Size
<1>5. FlowInv(s)'
  BY <1>1 DEF FlowInv, LinkQuiet, Prefix
<1>6. CreditInv(s)'
  <2>1. PICK g, p, o, q, c, d, z :
            /\ g = Granted(s) /\ p = Prefix(s, Taken(s)) /\ o = outStream[s]
            /\ q = Prefix(s, sent[s]) /\ c = CreditInFlight(s) /\ d = CreditInFlight(s)'
            /\ z = Size(s, sent[s])
    OBVIOUS
  <2>2. /\ g \in Nat /\ p \in Nat /\ o \in Nat /\ q \in Nat /\ c \in Nat /\ d \in Nat
    BY <2>1, Standing
  <2>3. c <= p /\ q <= g /\ d <= c /\ (s \in open => o + q + c = g)
    BY <1>1, <2>1 DEF CreditInv, CreditQuiet
  <2>4. /\ Prefix(s, sent[s])' = q /\ Prefix(s, Taken(s))' = p
        /\ Prefix(s, sent[s] + 1)' = Prefix(s, sent[s] + 1)
    BY <1>2, <2>1 DEF Prefix
  <2>5. CreditInFlight(s)' <= Prefix(s, Taken(s))' /\ Prefix(s, sent[s])' <= Granted(s)'
    BY <1>2, <2>1, <2>2, <2>3, <2>4
  <2>6. ASSUME s \in open' PROVE outStream'[s] + Prefix(s, sent[s])' + CreditInFlight(s)' = Granted(s)'
    <3>1. PICK o2 : o2 = outStream'[s]
      OBVIOUS
    <3>2. o2 + d = o + c /\ o + q + c = g
      BY <2>1, <2>3, <2>6, <3>1 DEF CreditQuiet
    <3>3. o2 + q + d = g
      <4>1. o2 \in Nat
        BY <3>1
      <4> QED
        BY <2>2, <3>2, <4>1
    <3> QED
      BY <1>2, <2>1, <2>4, <3>1, <3>3
  <2>7. ASSUME pc'[s] = "cleared" PROVE Prefix(s, sent[s] + 1)' <= Granted(s)'
    <3>1. CASE pc[s] = "cleared"
      BY <1>1, <1>2, <2>4, <3>1 DEF CreditInv
    <3>2. CASE s \in open /\ HasOutbound(s) /\ sent[s] < Len(Body[s])
      <4>1. o >= z /\ o + q + c = g
        BY <2>1, <2>3, <3>2 DEF HasOutbound
      <4>2. Prefix(s, sent[s] + 1) = q + z /\ z \in Nat
        BY <2>1, <3>2, PrefixFacts, Standing
      <4>3. q + z <= g
        BY <2>2, <4>1, <4>2
      <4> QED
        BY <1>2, <2>1, <2>4, <4>2, <4>3
    <3> QED
      BY <2>7, <3>1, <3>2 DEF CreditQuiet
  <2> QED
    BY <2>5, <2>6, <2>7 DEF CreditInv
<1> QED
  BY <1>3, <1>4, <1>5, <1>6 DEF Account

\* Types that the steps of the accounts use.
LEMMA NextTypes ==
    ASSUME TypeInv', NEW t \in Streams
    PROVE  CreditInFlight(t)' \in Nat /\ outStream'[t] \in Nat
<1>1. up' \in Seq(UpFrame) /\ outStream' \in [Streams -> Nat]
  BY DEF TypeInv, TypeOK
<1>2. <<>> \in Seq(ChunkFrame)
  OBVIOUS
<1>3. CreditInFlight(t)' \in Nat
  BY <1>1, <1>2, LinkWeighs DEF CreditInFlight
<1> QED
  BY <1>1, <1>3

\* A frame leaves the link that is no chunk of t, or one that nobody waits for.
LEMMA LinkQuietPopped ==
    ASSUME IInv, NEW t \in Streams, t \in live' => t \in live, down # <<>>, down' = Tail(down),
           Head(down).type = "data" /\ Head(down).id = t => t \notin live
    PROVE  LinkQuiet(t)
<1>0. RequestInv /\ down \in Seq(DownFrame)
  BY DEF IInv, LinkInv, TypeInv
<1>1. /\ DOMAIN down' = 1..Len(down) - 1 /\ DOMAIN down = 1..Len(down)
      /\ Len(down) \in Nat \ {0} /\ Head(down) = down[1]
      /\ \A i \in DOMAIN down' : down'[i] = down[i + 1]
  BY <1>0, Popped
<1>2. /\ \A i \in DOMAIN down' : i + 1 \in DOMAIN down /\ down'[i] = down[i + 1]
      /\ \A i \in DOMAIN down : i # 1 => 1 < i
      /\ 1 \in DOMAIN down
  BY <1>1
<1>3. Coming(t)' => Coming(t)
  BY <1>2 DEF Coming, Is
<1>4. ASSUME Head(down).type = "data" /\ Head(down).id = t PROVE ~Coming(t)
  <2>1. down[1].id = t /\ down[1].type = "data" /\ t \notin live
    BY <1>1, <1>4
  <2>2. ASSUME NEW i \in DOMAIN down, Is(i, "request", t) PROVE FALSE
    <3>1. i # 1
      BY <2>1, <2>2 DEF Is
    <3>2. 1 < i
      BY <1>2, <3>1
    <3> QED
      BY <1>0, <1>2, <2>1, <2>2, <3>2 DEF RequestInv
  <2> QED
    BY <2>1, <2>2 DEF Coming
<1>5. ASSUME Coming(t) PROVE DataInFlight(t)' = DataInFlight(t)
  <2>1. /\ DataInFlight(t)' \in Nat /\ Head(down) \in ChunkFrame
        /\ DataInFlight(t) = Carried(t)[Head(down)] + DataInFlight(t)'
    BY DownWeighs
  <2>2. Carried(t)[Head(down)] = 0
    BY <1>4, <1>5, <2>1, FrameWeights
  <2> QED
    BY <2>1, <2>2
<1> QED
  BY <1>3, <1>5 DEF LinkQuiet

\* One joins it that is neither a chunk of t nor its request.
LEMMA LinkQuietPushed ==
    ASSUME IInv, NEW t \in Streams, t \in live' => t \in live,
           NEW f \in ChunkFrame, f.id # t \/ f.type \notin {"request", "data"},
           down' = Append(down, f)
    PROVE  LinkQuiet(t)
<1>0. down \in Seq(DownFrame) /\ f \in DownFrame
  BY DEF IInv, TypeInv, ChunkFrame
<1> PICK last : last = Len(down) + 1
  OBVIOUS
<1>1. /\ DOMAIN down' = 1..last /\ DOMAIN down = 1..Len(down) /\ Len(down) \in Nat
      /\ down'[last] = f /\ \A i \in DOMAIN down : down'[i] = down[i]
  BY <1>0, Pushed
<1>2. \A i \in DOMAIN down' : i = last \/ i \in DOMAIN down
  BY <1>1
<1>3. \A i \in DOMAIN down' : down'[i].type = "request" /\ down'[i].id = t =>
          i \in DOMAIN down /\ down[i].type = "request" /\ down[i].id = t
  BY <1>1, <1>2
<1>4. Coming(t)' => Coming(t)
  BY <1>3 DEF Coming, Is
<1>5. Carried(t)[f] = 0
  BY FrameWeights
<1>6. DataInFlight(t)' = DataInFlight(t)
  <2>1. DataInFlight(t)' = DataInFlight(t) + Carried(t)[f] /\ DataInFlight(t) \in Nat
    BY DownWeighs
  <2> QED
    BY <1>5, <2>1
<1> QED
  BY <1>4, <1>6 DEF LinkQuiet

\* The link is not touched.
LEMMA LinkQuietKept ==
    ASSUME NEW t \in Streams, t \in live' => t \in live, UNCHANGED down
    PROVE  LinkQuiet(t)
<1>1. DataInFlight(t)' = DataInFlight(t)
  BY DEF DataInFlight, Size
<1>2. Coming(t)' => Coming(t)
  BY DEF Coming, Is
<1> QED
  BY <1>1, <1>2 DEF LinkQuiet

\* Frames that carry no chunk.
LEMMA Controls ==
    ASSUME NEW s \in Streams
    PROVE  /\ [type |-> "request", id |-> s] \in ChunkFrame
           /\ [type |-> "abort", id |-> s] \in ChunkFrame
           /\ \A n \in Int : [type |-> "end", id |-> s, last |-> n] \in ChunkFrame
  BY DEF ChunkFrame, DownFrame

\* How the server ends streams, wakes pumps and lets them go.
LEMMA CreditQuiets ==
    ASSUME IInv, NEW s \in Streams, UNCHANGED up,
           \/ CleanUp(s) /\ pc' = Woken
           \/ PumpFails(s)
           \/ UNCHANGED <<open, outStream>> /\ \E place \in Place \ {"cleared"} : Go(s, place)
    PROVE  \A t \in Streams : CreditQuiet(t)
<1>0. /\ pc \in [Streams -> Place] /\ outStream \in [Streams -> Nat] /\ open \subseteq Streams
  BY DEF IInv, TypeInv, TypeOK
<1>1. \A t \in Streams : CreditInFlight(t)' = CreditInFlight(t) /\ CreditInFlight(t) \in Nat
  BY UpWeighs DEF IInv, CreditInFlight
<1>2. \A t \in Streams : t \in open' => t \in open /\ outStream'[t] = outStream[t]
  BY <1>0 DEF CleanUp, PumpFails
<1>3. Woken \in [Streams -> Place] /\ \A t \in Streams : Woken[t] = "cleared" => pc[t] = "cleared"
  BY <1>0 DEF Woken, Place
<1>4. \A t \in Streams : pc'[t] = "cleared" => pc[t] = "cleared"
  BY <1>0, <1>3 DEF PumpFails, Go
<1> QED
  BY <1>1, <1>2, <1>4 DEF CreditQuiet

\* The server's own steps, but for the ones that send a request or a chunk.
ServerQuietly(s) ==
    \/ AskCredit(s) \/ BodyRead(s) \/ SendEnd(s) \/ SendAbort(s) \/ BodyFails(s)
    \/ PublicCancel(s) \/ Timeout(s)

\* The server's steps that move neither bytes nor credit keep the accounts.
LEMMA ServerKeeps ==
    ASSUME IInv, AccountInv, TypeInv', NEW s \in Streams, ServerQuietly(s)
    PROVE  AccountInv'
<1>0. UNCHANGED <<client, origin, fault>>
  BY ServerSteps DEF ServerQuietly, Pump
<1>1. UNCHANGED <<up, sent, live, read, next, inStream, busy>>
  BY <1>0 DEF ServerQuietly, AskCredit, BodyRead, SendEnd, SendAbort, BodyFails, PublicCancel,
              Timeout, client, origin
<1>2. \A t \in Streams : LinkQuiet(t)
  <2>1. CASE UNCHANGED down
    BY <1>1, <2>1, LinkQuietKept
  <2>2. ASSUME NEW f \in ChunkFrame, f.type \notin {"request", "data"}, ToClientSend(f)
        PROVE  \A t \in Streams : LinkQuiet(t)
    BY <1>1, <2>2, LinkQuietPushed DEF ToClientSend
  <2>3. CASE PublicCancel(s) \/ SendAbort(s)
    <3>1. ToClientSend([type |-> "abort", id |-> s])
      BY <2>3 DEF PublicCancel, SendAbort
    <3> QED
      BY <2>2, <3>1, Controls
  <2>4. CASE SendEnd(s)
    <3>1. sent[s] - 1 \in Int
      BY Counters DEF IInv
    <3>2. ToClientSend([type |-> "end", id |-> s, last |-> sent[s] - 1])
      BY <2>4 DEF SendEnd, LastSentSeq
    <3> QED
      BY <2>2, <3>1, <3>2, Controls
  <2> QED
    BY <2>1, <2>3, <2>4 DEF ServerQuietly, AskCredit, BodyRead, BodyFails, Timeout
<1>3. \A t \in Streams : CreditQuiet(t)
  <2>1. CASE PublicCancel(s) \/ Timeout(s)
    <3>1. CleanUp(s) /\ pc' = Woken
      BY <2>1 DEF PublicCancel, Timeout
    <3> QED
      BY <1>1, <3>1, CreditQuiets
  <2>2. CASE PumpFails(s)
    BY <1>1, <2>2, CreditQuiets
  <2>3. CASE BodyRead(s) \/ SendEnd(s) \/ SendAbort(s)
    <3>1. /\ UNCHANGED <<open, outStream>>
          /\ \E place \in Place \ {"cleared"} : Go(s, place)
      BY <2>3 DEF BodyRead, SendEnd, SendAbort, Place
    <3> QED
      BY <1>1, <3>1, CreditQuiets
  <2>4. CASE AskCredit(s) /\ ~PumpFails(s)
    <3>1. /\ CanSend(s) /\ Go(s, IF HasOutbound(s) THEN "cleared" ELSE "waiting")
          /\ UNCHANGED <<open, outStream>> /\ (pc[s] = "woken" \/ sent[s] < Len(Body[s]))
      BY <2>4 DEF AskCredit
    <3>2. sent[s] < Len(Body[s])
      BY <3>1 DEF IInv, PumpInv
    <3>3. pc \in [Streams -> Place]
      BY DEF IInv, TypeInv, TypeOK
    <3>4. \A t \in Streams : pc'[t] = "cleared" =>
              pc[t] = "cleared" \/ (t = s /\ HasOutbound(s) /\ s \in open)
      BY <3>1, <3>3 DEF Go, CanSend
    <3>5. \A t \in Streams : CreditInFlight(t)' = CreditInFlight(t) /\ CreditInFlight(t) \in Nat
      BY <1>1, UpWeighs DEF IInv, CreditInFlight
    <3> QED
      BY <3>1, <3>2, <3>4, <3>5 DEF CreditQuiet
  <2> QED
    BY <2>1, <2>2, <2>3, <2>4 DEF ServerQuietly, BodyFails
<1>4. \A t \in Streams : WriteQuiet(t)
  BY <1>1 DEF WriteQuiet
<1> QED
  BY <1>1, <1>2, <1>3, <1>4, AccountKept, NextTypes DEF AccountInv

\* A request opens the window of its stream.
LEMMA RequestAccount ==
    ASSUME IInv, AccountInv, TypeInv', NEW s \in Streams, PublicRequest(s)
    PROVE  AccountInv'
<1>0. /\ UNCHANGED <<client, origin, fault, up, sent>> /\ pc[s] = "absent"
      /\ pc' = [pc EXCEPT ![s] = "reading"] /\ open' = open \cup {s}
      /\ outStream' = [outStream EXCEPT ![s] = StreamCredit]
      /\ ToClientSend([type |-> "request", id |-> s])
  BY DEF PublicRequest, Go
<1>1. /\ pc \in [Streams -> Place] /\ outStream \in [Streams -> Nat]
      /\ UNCHANGED <<live, read, next, inStream, busy>>
  BY <1>0 DEF IInv, TypeInv, TypeOK, client, origin
<1>2. \A t \in Streams : CreditInFlight(t)' = CreditInFlight(t) /\ CreditInFlight(t) \in Nat
  BY <1>0, UpWeighs DEF IInv, CreditInFlight
<1>3. \A t \in Streams : WriteQuiet(t)
  BY <1>1 DEF WriteQuiet
<1>4. PICK f : f = [type |-> "request", id |-> s]
  OBVIOUS
<1>5. f \in ChunkFrame /\ f.id = s /\ f.type = "request" /\ down' = Append(down, f)
  BY <1>0, <1>4, Controls DEF ToClientSend
<1>6. ASSUME NEW t \in Streams, t # s PROVE Account(t)'
  <2>1. LinkQuiet(t)
    BY <1>1, <1>5, <1>6, LinkQuietPushed
  <2>2. CreditQuiet(t)
    BY <1>0, <1>1, <1>2, <1>6 DEF CreditQuiet
  <2> QED
    BY <1>0, <1>1, <1>3, <2>1, <2>2, AccountKept, NextTypes DEF AccountInv
<1>7. Account(s)'
  <2>1. /\ sent[s] = 0 /\ next[s] = 0 /\ s \notin live /\ read[s] = <<>>
        /\ \A i \in DOMAIN down : down[i].id # s
    BY <1>0 DEF IInv, PumpInv, LinkInv, RequestInv, Untouched, WriteInv, WriteOf
  <2>2. Taken(s) = 0 /\ Prefix(s, 0) = 0 /\ StreamCredit \in Nat
    BY <2>1, PrefixFacts, LimitsAssumption DEF Taken
  <2>3. DataInFlight(s)' = 0
    <3>1. DataInFlight(s) = 0 /\ DataInFlight(s)' = DataInFlight(s) + Carried(s)[f]
      BY <1>5, <2>1, DownWeighs
    <3>2. Carried(s)[f] = 0
      BY <1>5, FrameWeights
    <3> QED
      BY <3>1, <3>2
  <2>4. CreditInFlight(s)' = 0
    <3>1. CreditInFlight(s) <= 0
      BY <2>2 DEF AccountInv, Account, CreditInv
    <3> QED
      BY <1>2, <3>1
  <2>5. /\ sent'[s] = 0 /\ next'[s] = 0 /\ s \notin live' /\ Taken(s)' = 0
        /\ outStream'[s] = StreamCredit /\ pc'[s] # "cleared"
    BY <1>0, <1>1, <2>1, <2>2 DEF Taken
  <2>6. Prefix(s, 0)' = 0
    BY <2>2 DEF Prefix
  <2>7. ReadInv(s)' /\ WindowInv(s)'
    BY <2>5 DEF ReadInv, WindowInv
  <2>8. FlowInv(s)'
    BY <2>3, <2>5, <2>6 DEF FlowInv, Prefix
  <2>9. CreditInv(s)'
    <3>1. Prefix(s, sent[s])' = 0 /\ Prefix(s, Taken(s))' = 0
      BY <2>5, <2>6 DEF Prefix
    <3>2. Granted(s)' = StreamCredit
      BY <2>2, <3>1 DEF Granted
    <3> QED
      BY <2>2, <2>4, <2>5, <3>1, <3>2 DEF CreditInv
  <2> QED
    BY <2>7, <2>8, <2>9 DEF Account
<1> QED
  BY <1>6, <1>7 DEF AccountInv

\* A chunk moves from the window to the link.
LEMMA DataAccount ==
    ASSUME IInv, AccountInv, TypeInv', NEW s \in Streams, SendData(s)
    PROVE  AccountInv'
<1>0. /\ pc[s] = "cleared" /\ UNCHANGED <<client, origin, fault, up>>
      /\ down' = Append(down, [type |-> "data", id |-> s, seq |-> sent[s]])
      /\ sent' = [sent EXCEPT ![s] = @ + 1]
  BY DEF SendData, ToClientSend
<1>1. /\ pc \in [Streams -> Place] /\ outStream \in [Streams -> Nat] /\ sent \in [Streams -> Nat]
      /\ UNCHANGED <<live, read, next, inStream, busy>>
  BY <1>0 DEF IInv, TypeInv, TypeOK, client, origin
<1>2. \A t \in Streams : CreditInFlight(t)' = CreditInFlight(t) /\ CreditInFlight(t) \in Nat
  BY <1>0, UpWeighs DEF IInv, CreditInFlight
<1>3. \A t \in Streams : WriteQuiet(t)
  BY <1>1 DEF WriteQuiet
<1>4. PICK f : f = [type |-> "data", id |-> s, seq |-> sent[s]]
  OBVIOUS
<1>5. sent[s] < Len(Body[s]) /\ sent[s] \in Nat
  BY <1>0, <1>1 DEF IInv, PumpInv
<1>6. f \in ChunkFrame /\ f.id = s /\ f.type = "data" /\ f.seq = sent[s] /\ down' = Append(down, f)
  BY <1>0, <1>4, <1>5 DEF ChunkFrame, DownFrame
<1>7. \/ /\ HasOutbound(s) /\ pc' = [pc EXCEPT ![s] = "reading"]
         /\ outStream' = [outStream EXCEPT ![s] = @ - Size(s, sent[s])] /\ open' = open
      \/ PumpFails(s)
  BY DEF SendData, Spend, Go
<1>8. ASSUME NEW t \in Streams, t # s PROVE Account(t)'
  <2>1. LinkQuiet(t)
    BY <1>1, <1>6, <1>8, LinkQuietPushed
  <2>2. CreditQuiet(t)
    <3>1. CASE PumpFails(s)
      BY <1>0, <3>1, CreditQuiets
    <3>2. CASE ~PumpFails(s)
      BY <1>1, <1>2, <1>7, <1>8, <3>2 DEF CreditQuiet
    <3> QED
      BY <3>1, <3>2
  <2> QED
    BY <1>0, <1>1, <1>3, <1>8, <2>1, <2>2, AccountKept, NextTypes DEF AccountInv
<1>9. Account(s)'
  <2>1. ReadInv(s) /\ WindowInv(s) /\ FlowInv(s) /\ CreditInv(s)
    BY DEF AccountInv, Account
  <2>2. Taken(s)' = Taken(s) /\ Granted(s)' = Granted(s)
    BY <1>1 DEF Taken, Granted, Prefix
  <2>3. PICK g, p, o, q, c, d, z, n :
            /\ g = Granted(s) /\ p = Prefix(s, Taken(s)) /\ o = outStream[s]
            /\ q = Prefix(s, sent[s]) /\ c = CreditInFlight(s) /\ d = DataInFlight(s)
            /\ z = Size(s, sent[s]) /\ n = Prefix(s, next[s])
    OBVIOUS
  <2>4. /\ g \in Nat /\ p \in Nat /\ o \in Nat /\ q \in Nat /\ c \in Nat /\ d \in Nat /\ n \in Nat
    BY <2>3, Standing DEF AccountInv
  <2>5. z \in Nat /\ Prefix(s, sent[s] + 1) = q + z
    BY <1>5, <2>3, PrefixFacts
  <2>6. q + z <= g /\ c <= p /\ (s \in open => o + q + c = g) /\ (Coming(s) => d + n = q)
    BY <1>0, <2>1, <2>3, <2>5 DEF CreditInv, FlowInv
  <2>7. sent'[s] = sent[s] + 1 /\ Prefix(s, sent[s])' = q + z
    BY <1>0, <1>1, <2>5 DEF Prefix
  <2>8. ReadInv(s)' /\ WindowInv(s)'
    BY <1>1, <2>1, <2>2 DEF ReadInv, WindowInv, BeingWritten, Size
  <2>9. FlowInv(s)'
    <3>1. DataInFlight(s)' = d + z
      <4>1. Carried(s)[f] = Size(s, f.seq)
        BY <1>6, FrameWeights
      <4>2. DataInFlight(s)' = DataInFlight(s) + Carried(s)[f]
        BY <1>6, DownWeighs
      <4>3. Size(s, f.seq) = z
        BY <1>6, <2>3
      <4> QED
        BY <2>3, <4>1, <4>2, <4>3
    <3>2. Coming(s)' => Coming(s)
      <4> PICK last : last = Len(down) + 1
        OBVIOUS
      <4>1. down \in Seq(DownFrame) /\ f \in DownFrame
        BY <1>6 DEF IInv, TypeInv, ChunkFrame
      <4>2. /\ DOMAIN down' = 1..last /\ DOMAIN down = 1..Len(down) /\ Len(down) \in Nat
            /\ down'[last] = f /\ \A i \in DOMAIN down : down'[i] = down[i]
        BY <1>6, <4>1, Pushed
      <4>3. \A i \in DOMAIN down' : i = last \/ i \in DOMAIN down
        BY <4>2
      <4>4. \A i \in DOMAIN down' : down'[i].type = "request" /\ down'[i].id = s =>
                i \in DOMAIN down /\ down[i].type = "request" /\ down[i].id = s
        BY <1>6, <4>2, <4>3
      <4> QED
        BY <1>1, <4>4 DEF Coming, Is
    <3>3. Prefix(s, next[s])' = n
      BY <1>1, <2>3 DEF Prefix
    <3>4. Coming(s)' => (d + z) + n = q + z
      BY <2>4, <2>5, <2>6, <3>2
    <3> QED
      BY <2>7, <3>1, <3>3, <3>4 DEF FlowInv
  <2>10. CreditInv(s)'
    <3>1. CreditInFlight(s)' = c /\ Prefix(s, Taken(s))' = p
      BY <1>2, <2>2, <2>3 DEF Prefix
    <3>2. pc'[s] # "cleared"
      <4>1. Woken[s] = pc[s] /\ Woken \in [Streams -> Place]
        BY <1>0, <1>1 DEF Woken, Place
      <4> QED
        BY <1>1, <1>7, <4>1 DEF PumpFails, Go
    <3>3. ASSUME s \in open' PROVE outStream'[s] + (q + z) + c = g
      <4>1. HasOutbound(s) /\ outStream'[s] = o - z /\ s \in open
        BY <1>1, <1>7, <2>3, <3>3 DEF PumpFails, CleanUp, CanSend
      <4> QED
        BY <2>4, <2>5, <2>6, <4>1
    <3> QED
      BY <2>2, <2>3, <2>6, <2>7, <3>1, <3>2, <3>3 DEF CreditInv
  <2> QED
    BY <2>8, <2>9, <2>10 DEF Account
<1> QED
  BY <1>8, <1>9 DEF AccountInv

\* What the server hears changes its credit by what leaves the link.
LEMMA ServerHears ==
    ASSUME IInv, AccountInv, TypeInv', ServerReceives
    PROVE  AccountInv'
<1>0. UNCHANGED <<client, origin, fault, down, sent>> /\ up # <<>> /\ up' = Tail(up)
  BY ServerReceiving DEF ServerReceives, ReceiveStreamCredit, ReceiveChannelCredit, ReceiveStart,
     ReceiveEndOrAbort, ToServer
<1>1. UNCHANGED <<live, read, next, inStream, busy>>
  BY <1>0 DEF client, origin
<1>2. /\ pc \in [Streams -> Place] /\ outStream \in [Streams -> Nat] /\ open \subseteq Streams
  BY DEF IInv, TypeInv, TypeOK
<1>3. \A t \in Streams : LinkQuiet(t) /\ WriteQuiet(t)
  BY <1>0, <1>1, LinkQuietKept DEF WriteQuiet
<1>4. Woken \in [Streams -> Place] /\ \A t \in Streams : Woken[t] = "cleared" => pc[t] = "cleared"
  BY <1>2 DEF Woken, Place
<1>5. \A t \in Streams : pc'[t] = "cleared" => pc[t] = "cleared"
  BY <1>4 DEF ServerReceives, ReceiveStreamCredit, ReceiveChannelCredit, ReceiveStart,
     ReceiveEndOrAbort
<1>6. ASSUME NEW t \in Streams PROVE CreditQuiet(t)
  <2>1. PICK c, d, w, h : /\ c = CreditInFlight(t) /\ d = CreditInFlight(t)' /\ h = Head(up)
                          /\ w = Paid(t)[Head(up)]
    OBVIOUS
  <2>2. c \in Nat /\ d \in Nat /\ h \in UpFrame /\ c = w + d
    BY <1>0, <2>1, UpWeighs DEF IInv
  <2>3. w = IF h.type = "stream.credit" /\ h.id = t THEN h.bytes ELSE 0
    BY <2>1, <2>2 DEF Paid
  <2>4. w \in Nat
    BY <2>1, <2>2, FrameWeights
  <2>5. d <= c
    BY <2>2, <2>4
  <2>6. CASE ReceiveStreamCredit
    <3>1. /\ h.type = "stream.credit" /\ open' = open /\ h.id \in Streams /\ h.bytes \in Nat
          /\ outStream' = [outStream EXCEPT ![h.id] = @ + h.bytes]
      BY <2>1, <2>2, <2>6 DEF ReceiveStreamCredit, ToServer, UpFrame
    <3>2. outStream'[t] = outStream[t] + w
      BY <1>2, <2>3, <3>1
    <3>3. outStream'[t] + d = outStream[t] + c
      <4>1. PICK o : o = outStream[t] /\ o \in Nat
        BY <1>2
      <4> QED
        BY <2>2, <2>4, <3>2, <4>1
    <3> QED
      BY <1>5, <2>1, <2>5, <3>1, <3>3 DEF CreditQuiet
  <2>7. CASE ReceiveChannelCredit \/ ReceiveStart \/ ReceiveEndOrAbort
    <3>1. h.type # "stream.credit"
      BY <2>1, <2>7 DEF ReceiveChannelCredit, ReceiveStart, ReceiveEndOrAbort, ToServer
    <3>2. d = c
      BY <2>2, <2>3, <2>4, <3>1
    <3>3. t \in open' => t \in open /\ outStream'[t] = outStream[t]
      <4>1. CASE UNCHANGED <<open, outStream>>
        BY <4>1
      <4>2. ASSUME NEW s, CleanUp(s) PROVE t \in open' => t \in open /\ outStream'[t] = outStream[t]
        BY <1>2, <4>2 DEF CleanUp
      <4> QED
        BY <2>7, <4>1, <4>2 DEF ReceiveChannelCredit, ReceiveStart, ReceiveEndOrAbort
    <3> QED
      BY <1>5, <2>1, <2>5, <3>2, <3>3 DEF CreditQuiet
  <2> QED
    BY <2>6, <2>7 DEF ServerReceives
<1> QED
  BY <1>0, <1>1, <1>3, <1>6, AccountKept, NextTypes DEF AccountInv

\* The server's credit is not touched by what the client does ...
LEMMA ClientCredit ==
    ASSUME IInv, UNCHANGED server, NEW t \in Streams, CreditInFlight(t)' = CreditInFlight(t)
    PROVE  CreditQuiet(t)
<1>1. CreditInFlight(t) \in Nat
  BY UpWeighs DEF IInv
<1> QED
  BY <1>1 DEF CreditQuiet, server

\* ... while the frames it sends are no credit.
LEMMA NoCredit ==
    ASSUME TypeInv, NEW t \in Streams,
           \/ UNCHANGED up
           \/ \E s \in Streams, type \in {"start", "end", "abort"} :
                  ToServerSend(<<[type |-> type, id |-> s]>>)
           \/ \E s \in Streams : AbortResponse(s)
    PROVE  CreditInFlight(t)' = CreditInFlight(t)
<1>1. CASE UNCHANGED up
  BY <1>1 DEF CreditInFlight
<1>2. ASSUME NEW s \in Streams, NEW type \in {"start", "end", "abort"},
             ToServerSend(<<[type |-> type, id |-> s]>>)
      PROVE  CreditInFlight(t)' = CreditInFlight(t)
  <2>1. PICK f : f = [type |-> type, id |-> s]
    OBVIOUS
  <2>2. f \in UpFrame /\ f.type # "stream.credit"
    BY <2>1 DEF UpFrame
  <2>3. <<f>> \in Seq(UpFrame) /\ Range(<<f>>) = {f}
    BY <2>2, FrameWeights, WeighOne
  <2>4. up' = up \o <<f>>
    BY <1>2, <2>1 DEF ToServerSend
  <2> QED
    BY <2>2, <2>3, <2>4, UpWeighs
<1>3. ASSUME NEW s \in Streams, AbortResponse(s)
      PROVE  CreditInFlight(t)' = CreditInFlight(t)
  <2>1. CASE s \in live
    <3>1. ToServerSend(<<[type |-> "abort", id |-> s]>>)
      BY <1>3, <2>1 DEF AbortResponse
    <3> QED
      BY <1>2, <3>1
  <2>2. CASE s \notin live
    <3>1. up' = up \o <<>> /\ up \in Seq(UpFrame)
      BY <1>3, <2>2 DEF AbortResponse, ToServerSend, TypeInv
    <3>2. up' = up
      BY <3>1
    <3> QED
      BY <1>1, <3>2
  <2> QED
    BY <2>1, <2>2
<1> QED
  BY <1>1, <1>2, <1>3

\* What the client and the origin do without taking a chunk or reading one.
ClientQuietly ==
    \/ IgnoreFrame \/ ReceiveEnd \/ ReceiveAbort
    \/ \E s \in Streams : OriginAnswers(s) \/ ResponseEnds(s) \/ OriginFails(s) \/ OriginDropsBody(s)

\* The client's steps that move neither bytes nor credit keep the accounts.
LEMMA ClientKeeps ==
    ASSUME IInv, AccountInv, TypeInv', ClientQuietly, fault' = "none"
    PROVE  AccountInv'
<1>0. UNCHANGED <<server, next, read>>
  BY DEF ClientQuietly, IgnoreFrame, ReceiveEnd, ReceiveAbort, OriginAnswers, ResponseEnds,
         OriginFails, OriginDropsBody, Fail, client, origin
<1>1. /\ live \subseteq Streams /\ inStream \in [Streams -> Nat] /\ NoStream \notin Streams
      /\ sent' = sent
  BY <1>0, NoStreamAssumption DEF IInv, TypeInv, TypeOK, server
<1>2. \A t \in Streams : WriteQuiet(t)
  <2>1. CASE UNCHANGED <<live, inStream, busy>>
    BY <2>1 DEF WriteQuiet
  <2>2. ASSUME NEW s \in Streams, live' = live \ {s}, inStream' = [inStream EXCEPT ![s] = 0],
               busy' = busy \/ busy' = Unblocked(s)
        PROVE  \A t \in Streams : WriteQuiet(t)
    BY <1>1, <2>2 DEF WriteQuiet, Unblocked
  <2>3. ASSUME NEW s \in Streams, AbortLocal(s), busy' = busy \/ busy' = Unblocked(s)
        PROVE  \A t \in Streams : WriteQuiet(t)
    BY <2>2, <2>3 DEF AbortLocal
  <2>4. CASE IgnoreFrame
    BY <2>1, <2>4 DEF IgnoreFrame, client
  <2>5. CASE ReceiveEnd \/ ReceiveAbort
    <3>1. Head(down).id \in Streams
      BY <1>1, <2>5 DEF ReceiveEnd, ReceiveAbort
    <3> QED
      BY <2>1, <2>3, <2>5, <3>1 DEF ReceiveEnd, ReceiveAbort, Fail, AbortResponse, client
  <2>6. ASSUME NEW s \in Streams, OriginAnswers(s) \/ ResponseEnds(s) \/ OriginFails(s)
        PROVE  \A t \in Streams : WriteQuiet(t)
    BY <2>1, <2>2, <2>3, <2>6 DEF OriginAnswers, ResponseEnds, OriginFails, AbortResponse, client
  <2>7. ASSUME NEW s \in Streams, OriginDropsBody(s)
        PROVE  \A t \in Streams : WriteQuiet(t)
    <3>1. CASE busy = s /\ s \in live
      BY <2>2, <2>7, <3>1 DEF OriginDropsBody
    <3>2. CASE ~(busy = s /\ s \in live)
      <4>1. UNCHANGED <<live, inStream>> /\ busy' = Unblocked(s)
        BY <2>7, <3>2 DEF OriginDropsBody
      <4> QED
        BY <1>1, <3>2, <4>1 DEF WriteQuiet, Unblocked
    <3> QED
      BY <3>1, <3>2
  <2> QED
    BY <2>4, <2>5, <2>6, <2>7 DEF ClientQuietly
<1>3. \A t \in Streams : t \in live' => t \in live
  BY <1>2 DEF WriteQuiet
<1>4. \A t \in Streams : LinkQuiet(t)
  <2>1. CASE UNCHANGED down
    BY <1>3, <2>1, LinkQuietKept
  <2>2. ASSUME down # <<>>, down' = Tail(down), Head(down).type = "data" => Head(down).id \notin live
        PROVE  \A t \in Streams : LinkQuiet(t)
    BY <1>3, <2>2, LinkQuietPopped
  <2>3. CASE IgnoreFrame \/ ReceiveEnd \/ ReceiveAbort
    <3>1. /\ down # <<>> /\ down' = Tail(down)
          /\ Head(down).type = "data" => Head(down).id \notin live
      BY <2>3 DEF IgnoreFrame, ReceiveEnd, ReceiveAbort, Turn
    <3> QED
      BY <2>2, <3>1
  <2> QED
    BY <2>1, <2>3 DEF ClientQuietly, OriginAnswers, ResponseEnds, OriginFails, OriginDropsBody
<1>5. \A t \in Streams : CreditInFlight(t)' = CreditInFlight(t)
  <2>1. \/ UNCHANGED up
        \/ \E s \in Streams, type \in {"start", "end", "abort"} :
               ToServerSend(<<[type |-> type, id |-> s]>>)
        \/ \E s \in Streams : AbortResponse(s)
    <3>1. CASE IgnoreFrame \/ ReceiveAbort
      BY <3>1 DEF IgnoreFrame, ReceiveAbort
    <3>2. CASE ReceiveEnd
      <4>1. Head(down).id \in Streams
        BY <1>1, <3>2 DEF ReceiveEnd
      <4>2. UNCHANGED up \/ AbortResponse(Head(down).id)
        BY <3>2 DEF ReceiveEnd, Fail
      <4> QED
        BY <4>1, <4>2
    <3>3. ASSUME NEW s \in Streams, OriginAnswers(s)
          PROVE  ToServerSend(<<[type |-> "start", id |-> s]>>)
      BY <3>3 DEF OriginAnswers
    <3>4. ASSUME NEW s \in Streams, ResponseEnds(s)
          PROVE  ToServerSend(<<[type |-> "end", id |-> s]>>)
      BY <3>4 DEF ResponseEnds
    <3>5. ASSUME NEW s \in Streams, OriginFails(s)
          PROVE  AbortResponse(s)
      BY <3>5 DEF OriginFails
    <3>6. ASSUME NEW s \in Streams, OriginDropsBody(s)
          PROVE  UNCHANGED up \/ ToServerSend(<<[type |-> "abort", id |-> s]>>)
      BY <3>6 DEF OriginDropsBody
    <3> QED
      BY <3>1, <3>2, <3>3, <3>4, <3>5, <3>6 DEF ClientQuietly
  <2> QED
    BY <2>1, NoCredit DEF IInv
<1> QED
  BY <1>0, <1>1, <1>2, <1>4, <1>5, ClientCredit, AccountKept, NextTypes DEF AccountInv

\* The client's window of a stream is full when its request comes.
LEMMA StartAccount ==
    ASSUME IInv, AccountInv, TypeInv', ReceiveRequest
    PROVE  AccountInv'
<1> PICK s : s = Head(down).id
  OBVIOUS
<1>0. /\ UNCHANGED <<server, up, busy, next, read>> /\ busy = NoStream
      /\ down # <<>> /\ down' = Tail(down) /\ Head(down).type = "request"
      /\ live' = live \cup {s} /\ inStream' = [inStream EXCEPT ![s] = StreamCredit]
      /\ writer' = [writer EXCEPT ![s] = "open"]
  BY DEF ReceiveRequest, Turn, Seed
<1>1. /\ inStream \in [Streams -> Nat] /\ s \in Streams /\ NoStream \notin Streams
      /\ UNCHANGED <<sent, pc, open, outStream>>
  BY <1>0, HeadOfDown, NoStreamAssumption DEF IInv, TypeInv, TypeOK, server
<1>2. \A t \in Streams : CreditQuiet(t)
  BY <1>0, NoCredit, ClientCredit DEF IInv
<1>3. ASSUME NEW t \in Streams, t # s PROVE Account(t)'
  <2>1. t \in live' => t \in live
    BY <1>0, <1>3
  <2>2. LinkQuiet(t)
    BY <1>0, <2>1, LinkQuietPopped
  <2>3. WriteQuiet(t)
    BY <1>0, <1>1, <1>3 DEF WriteQuiet
  <2> QED
    BY <1>0, <1>1, <1>2, <2>2, <2>3, AccountKept, NextTypes DEF AccountInv
<1>4. Account(s)'
  <2>1. Untouched(s) /\ read[s] = <<>>
    <3>1. LinkInv /\ TypeInv /\ PumpInv /\ WriteOf(s)
      BY <1>1 DEF IInv, WriteInv
    <3>2. Head(down).id = s /\ UNCHANGED <<sent, next, pc>>
      BY <1>0, <1>1
    <3>3. Untouched(s)
      BY <1>0, <1>1, <3>1, <3>2, LinkStarts
    <3> QED
      BY <3>1, <3>3 DEF WriteOf, Untouched
  <2>2. Taken(s) = 0 /\ Taken(s)' = 0 /\ next'[s] = 0
    BY <1>0, <2>1 DEF Taken, Untouched
  <2>3. ReadInv(s)'
    BY <1>0, <1>1, <2>2 DEF ReadInv
  <2>4. WindowInv(s)'
    <3>1. BeingWritten(s)' = 0 /\ inStream'[s] = StreamCredit /\ StreamCredit \in Nat
      BY <1>0, <1>1, LimitsAssumption DEF BeingWritten
    <3> QED
      BY <3>1 DEF WindowInv
  <2>5. FlowInv(s)'
    <3>1. /\ DataInFlight(s)' \in Nat /\ Head(down) \in ChunkFrame
          /\ DataInFlight(s) = Carried(s)[Head(down)] + DataInFlight(s)'
      BY <1>0, <1>1, DownWeighs
    <3>2. Carried(s)[Head(down)] = 0
      BY <1>0, <1>1, <3>1, FrameWeights
    <3>3. Coming(s)
      <4>1. down \in Seq(DownFrame)
        BY DEF IInv, TypeInv
      <4>2. 1 \in DOMAIN down /\ Head(down) = down[1]
        BY <1>0, <4>1, Popped
      <4> QED
        BY <1>0, <4>2 DEF Coming, Is
    <3>4. DataInFlight(s) + Prefix(s, next[s]) = Prefix(s, sent[s])
      BY <1>1, <3>3 DEF AccountInv, Account, FlowInv
    <3>5. DataInFlight(s)' = DataInFlight(s)
      BY <3>1, <3>2
    <3> QED
      BY <1>0, <1>1, <3>4, <3>5 DEF FlowInv, Prefix
  <2>6. CreditInv(s)'
    <3>1. CreditInFlight(s)' = CreditInFlight(s) /\ CreditInv(s)
      BY <1>0, <1>1, NoCredit DEF IInv, AccountInv, Account
    <3>2. Taken(s)' = Taken(s) /\ Granted(s)' = Granted(s)
      BY <1>0 DEF Taken, Granted, Prefix
    <3> QED
      BY <1>1, <3>1, <3>2 DEF CreditInv, Prefix
  <2> QED
    BY <2>3, <2>4, <2>5, <2>6 DEF Account
<1> QED
  BY <1>3, <1>4 DEF AccountInv

\* A chunk leaves the link and the client's window, into the write.
LEMMA TakenAccount ==
    ASSUME IInv, AccountInv, TypeInv', ReceiveData, fault' = "none"
    PROVE  AccountInv'
<1> PICK s, z : s = Head(down).id /\ z = Size(s, Head(down).seq)
  OBVIOUS
<1>0. /\ UNCHANGED <<server, read>> /\ busy = NoStream /\ s \in live
      /\ down # <<>> /\ down' = Tail(down) /\ Head(down).type = "data"
      /\ TakeChunk(s, z) /\ InSequence(s, Head(down).seq)
  BY DEF ReceiveData, Turn, Fail, TakeChunk
<1>1. /\ live \subseteq Streams /\ inStream \in [Streams -> Nat] /\ NoStream \notin Streams
      /\ next \in [Streams -> Nat] /\ UNCHANGED <<sent, pc, open, outStream>>
  BY <1>0, NoStreamAssumption DEF IInv, TypeInv, TypeOK, server
<1>2. s \in Streams
  BY <1>0, <1>1
<1>3. \A t \in Streams : CreditInFlight(t)' = CreditInFlight(t)
  BY <1>0, <1>2, NoCredit DEF IInv, TakeChunk
<1>4. /\ next' = [next EXCEPT ![s] = @ + 1]
      /\ \/ live' = live \ {s} /\ inStream' = [inStream EXCEPT ![s] = 0] /\ busy' = busy
         \/ live' = live /\ inStream' = [inStream EXCEPT ![s] = @ - z] /\ busy' = s
  BY <1>0 DEF TakeChunk, AbortResponse, AbortLocal
<1>5. ASSUME NEW t \in Streams, t # s PROVE Account(t)'
  <2>1. t \in live' => t \in live
    BY <1>4
  <2>2. LinkQuiet(t)
    BY <1>0, <1>5, <2>1, LinkQuietPopped
  <2>3. WriteQuiet(t)
    BY <1>0, <1>1, <1>4, <1>5 DEF WriteQuiet
  <2>4. next'[t] = next[t]
    BY <1>1, <1>4, <1>5
  <2> QED
    BY <1>0, <1>1, <1>3, <2>2, <2>3, <2>4, ClientCredit, AccountKept, NextTypes DEF AccountInv
<1>6. Account(s)'
  <2>1. ReadInv(s) /\ WindowInv(s) /\ FlowInv(s) /\ CreditInv(s)
    BY <1>2 DEF AccountInv, Account
  <2>2. Taken(s)' = Taken(s) /\ Granted(s)' = Granted(s)
    BY <1>0 DEF Taken, Granted, Prefix
  <2>3. PICK m, k : m = next[s] /\ k = Taken(s)
    OBVIOUS
  <2>4. m = k /\ m \in Nat
    BY <1>0, <1>1, <1>2, <2>1, <2>3 DEF ReadInv
  <2>5. Head(down).seq = m /\ m < sent[s] /\ sent[s] <= Len(Body[s]) /\ sent[s] \in Nat
        /\ Len(Body[s]) \in Nat
    BY <1>0, <1>2, <2>3, HeadInSequence, Counters, BodyAssumption DEF IInv, InSequence, PumpInv
  <2>6. m < Len(Body[s])
    BY <2>4, <2>5
  <2>7. z = Size(s, m) /\ z \in Nat /\ Prefix(s, m) \in Nat /\ Prefix(s, m + 1) = Prefix(s, m) + z
    BY <1>2, <2>4, <2>5, <2>6, PrefixFacts
  <2>8. next'[s] = m + 1
    BY <1>1, <1>2, <1>4, <2>3
  <2>9. ReadInv(s)'
    <3>1. k <= m + 1
      BY <2>4
    <3>2. s \in live' => busy' = s
      BY <1>0, <1>4
    <3> QED
      BY <2>2, <2>3, <2>4, <2>8, <3>1, <3>2 DEF ReadInv
  <2>10. WindowInv(s)'
    <3>1. ASSUME s \in live' PROVE inStream'[s] = StreamCredit - BeingWritten(s)'
      <4>1. busy' = s /\ inStream'[s] = inStream[s] - z
        BY <1>0, <1>1, <1>2, <1>4, <3>1
      <4>2. inStream[s] = StreamCredit - 0 /\ StreamCredit \in Nat
        BY <1>0, <1>1, <1>2, <2>1, LimitsAssumption DEF WindowInv, BeingWritten
      <4>3. BeingWritten(s)' = z
        <5>1. (m + 1) - 1 = m
          BY <2>4
        <5> QED
          BY <2>7, <2>8, <4>1, <5>1 DEF BeingWritten, Size
      <4> QED
        BY <2>7, <4>1, <4>2, <4>3
    <3> QED
      BY <3>1 DEF WindowInv
  <2>11. FlowInv(s)'
    <3>1. /\ DataInFlight(s)' \in Nat /\ Head(down) \in ChunkFrame
          /\ DataInFlight(s) = Carried(s)[Head(down)] + DataInFlight(s)'
      BY <1>0, <1>2, DownWeighs
    <3>2. Carried(s)[Head(down)] = z
      BY <1>0, <1>2, <2>5, <2>7, <3>1, FrameWeights
    <3>3. DataInFlight(s) + Prefix(s, m) = Prefix(s, sent[s])
      BY <1>0, <2>1, <2>3 DEF FlowInv, Coming
    <3>4. DataInFlight(s)' + Prefix(s, m + 1) = Prefix(s, sent[s])
      <4>1. PICK d, e, p : d = DataInFlight(s) /\ e = DataInFlight(s)' /\ p = Prefix(s, m)
        OBVIOUS
      <4>2. d = z + e /\ e \in Nat /\ p \in Nat /\ z \in Nat
        BY <2>7, <3>1, <3>2, <4>1
      <4>3. e + (p + z) = d + p
        BY <4>2
      <4> QED
        BY <2>7, <3>3, <4>1, <4>3
    <3> QED
      BY <1>1, <2>8, <3>4 DEF FlowInv, Prefix
  <2>12. CreditInv(s)'
    BY <1>1, <1>2, <1>3, <2>1, <2>2 DEF CreditInv, Prefix
  <2> QED
    BY <2>9, <2>10, <2>11, <2>12 DEF Account
<1> QED
  BY <1>5, <1>6 DEF AccountInv

\* The origin reads the chunk: its bytes go back as credit.
LEMMA ReadAccount ==
    ASSUME IInv, AccountInv, TypeInv', NEW s \in Streams, OriginReads(s)
    PROVE  AccountInv'
<1>0. /\ UNCHANGED <<server, down, next>> /\ busy = s /\ busy' = NoStream
      /\ read' = [read EXCEPT ![s] = Append(@, next[s] - 1)]
  BY DEF OriginReads
<1>1. /\ live \subseteq Streams /\ inStream \in [Streams -> Nat] /\ NoStream \notin Streams
      /\ next \in [Streams -> Nat] /\ read \in [Streams -> Seq(Nat)]
      /\ UNCHANGED <<sent, pc, open, outStream>>
  BY <1>0, NoStreamAssumption DEF IInv, TypeInv, TypeOK, server
<1>2. PICK k, z : k = Taken(s) /\ z = Size(s, next[s] - 1)
  OBVIOUS
<1>3. /\ k \in Nat /\ next[s] = k + 1 /\ k < Len(Body[s])
  <2>1. writer[s] = "open" /\ next[s] = Len(read[s]) + 1
    BY <1>0, <1>1 DEF IInv, WriteInv, WriteOf
  <2>2. PICK m, n, l : m = next[s] /\ n = sent[s] /\ l = Len(Body[s])
    OBVIOUS
  <2>3. k \in Nat /\ m = k + 1 /\ m <= n /\ n <= l /\ n \in Nat /\ l \in Nat
    BY <1>2, <2>1, <2>2, Standing DEF AccountInv, Taken
  <2> QED
    BY <2>2, <2>3
<1>4. z = Size(s, k) /\ z \in Nat /\ Prefix(s, k) \in Nat /\ Prefix(s, k + 1) = Prefix(s, k) + z
  <2>1. (k + 1) - 1 = k
    BY <1>3
  <2> QED
    BY <1>2, <1>3, <2>1, PrefixFacts
<1>5. \/ /\ z > 0 /\ inStream' = [inStream EXCEPT ![s] = @ + z] /\ live' = live
         /\ up' = up \o Credits(s, z)
      \/ /\ z = 0 /\ s \in live /\ AbortResponse(s)
      \/ /\ z = 0 /\ s \notin live /\ UNCHANGED <<inStream, up, live>>
  BY <1>2, <1>4 DEF OriginReads, Grant, ToServerSend
<1>6. \A t \in Streams : CreditInFlight(t)' = CreditInFlight(t) + (IF t = s THEN z ELSE 0)
  <2> TAKE t \in Streams
  <2>1. CreditInFlight(t) \in Nat
    BY UpWeighs DEF IInv
  <2>2. CASE up' = up \o Credits(s, z)
    <3>1. CreditInFlight(t)' = CreditInFlight(t) + (IF s = t THEN z ELSE 0)
      BY <1>4, <2>2, UpWeighs DEF IInv
    <3> QED
      BY <3>1
  <2>3. CASE z = 0 /\ (AbortResponse(s) \/ UNCHANGED up)
    <3>1. CreditInFlight(t)' = CreditInFlight(t)
      BY <2>3, NoCredit DEF IInv
    <3> QED
      BY <2>1, <2>3, <3>1
  <2> QED
    BY <1>5, <2>2, <2>3
<1>7. /\ live' \subseteq live /\ (s \in live' => z > 0)
      /\ \A t \in Streams : t # s => inStream'[t] = inStream[t] /\ (t \in live' <=> t \in live)
  BY <1>1, <1>5 DEF AbortResponse, AbortLocal
<1>8. ASSUME NEW t \in Streams, t # s PROVE Account(t)'
  <2>1. LinkQuiet(t)
    BY <1>0, <1>7, <1>8, LinkQuietKept
  <2>2. WriteQuiet(t)
    BY <1>0, <1>1, <1>7, <1>8 DEF WriteQuiet
  <2>3. CreditQuiet(t)
    <3>1. CreditInFlight(t) \in Nat /\ CreditInFlight(t)' = CreditInFlight(t) + 0
      BY <1>6, <1>8, UpWeighs DEF IInv
    <3>2. CreditInFlight(t)' = CreditInFlight(t)
      BY <3>1
    <3> QED
      BY <1>0, <3>2, ClientCredit
  <2>4. read'[t] = read[t]
    BY <1>0, <1>1, <1>8
  <2> QED
    BY <1>0, <1>1, <2>1, <2>2, <2>3, <2>4, AccountKept, NextTypes DEF AccountInv
<1>9. Account(s)'
  <2>1. ReadInv(s) /\ WindowInv(s) /\ FlowInv(s) /\ CreditInv(s)
    BY DEF AccountInv, Account
  <2>2. Taken(s)' = k + 1
    <3>1. read'[s] = Append(read[s], next[s] - 1) /\ read[s] \in Seq(Nat) /\ next[s] - 1 \in Nat
      BY <1>0, <1>1, <1>3
    <3> QED
      BY <1>2, <3>1 DEF Taken
  <2>3. ReadInv(s)'
    BY <1>0, <1>1, <1>3, <2>2 DEF ReadInv
  <2>4. WindowInv(s)'
    <3>1. ASSUME s \in live' PROVE inStream'[s] = StreamCredit /\ BeingWritten(s)' = 0
      <4>1. inStream'[s] = inStream[s] + z /\ inStream[s] = StreamCredit - z /\ StreamCredit \in Nat
        BY <1>0, <1>1, <1>2, <1>5, <1>7, <2>1, <3>1, LimitsAssumption DEF WindowInv, BeingWritten
      <4>2. inStream'[s] = StreamCredit
        BY <1>4, <4>1
      <4> QED
        BY <1>0, <1>1, <4>2 DEF BeingWritten
    <3>2. StreamCredit \in Nat
      BY LimitsAssumption
    <3> QED
      BY <3>1, <3>2 DEF WindowInv
  <2>5. FlowInv(s)'
    <3>1. LinkQuiet(s)
      BY <1>0, <1>7, LinkQuietKept
    <3> QED
      BY <1>0, <1>1, <2>1, <3>1 DEF FlowInv, LinkQuiet, Prefix
  <2>6. CreditInv(s)'
    <3>1. PICK c, p, q, o, g : /\ c = CreditInFlight(s) /\ p = Prefix(s, k) /\ q = Prefix(s, sent[s])
                               /\ o = outStream[s] /\ g = Granted(s)
      OBVIOUS
    <3>2. /\ c \in Nat /\ p \in Nat /\ q \in Nat /\ o \in Nat /\ g \in Nat /\ z \in Nat
          /\ StreamCredit \in Nat /\ g = StreamCredit + p
      BY <1>2, <1>4, <3>1, Standing DEF AccountInv, Granted
    <3>3. /\ CreditInFlight(s)' = c + z /\ Prefix(s, Taken(s))' = p + z
          /\ Granted(s)' = StreamCredit + (p + z)
      BY <1>4, <1>6, <2>2, <3>1 DEF Granted, Prefix
    <3>4. Granted(s)' = g + z
      BY <3>2, <3>3
    <3>5. /\ c <= p /\ q <= g /\ (s \in open => o + q + c = g)
      BY <1>2, <2>1, <3>1 DEF CreditInv
    <3>6. c + z <= p + z /\ q <= g + z /\ (s \in open => o + q + (c + z) = g + z)
      BY <3>2, <3>5
    <3>7. ASSUME pc[s] = "cleared" PROVE Prefix(s, sent[s] + 1) <= g + z
      <4>1. Prefix(s, sent[s] + 1) <= g
        BY <2>1, <3>1, <3>7 DEF CreditInv
      <4>2. sent[s] \in Nat /\ sent[s] < Len(Body[s])
        BY <3>7, Counters DEF IInv, PumpInv
      <4>3. Prefix(s, sent[s] + 1) \in Nat
        BY <4>2, PrefixFacts
      <4> QED
        BY <3>2, <4>1, <4>3
    <3>8. /\ Prefix(s, sent[s])' = q /\ Prefix(s, sent[s] + 1)' = Prefix(s, sent[s] + 1)
          /\ UNCHANGED <<sent, pc, open, outStream>>
      BY <1>1, <3>1 DEF Prefix
    <3> QED
      BY <3>1, <3>3, <3>4, <3>6, <3>7, <3>8 DEF CreditInv
  <2> QED
    BY <2>3, <2>4, <2>5, <2>6 DEF Account
<1> QED
  BY <1>8, <1>9 DEF AccountInv

\* The accounts are right at first, ...
LEMMA AccountStart == Init => AccountInv
<1> SUFFICES ASSUME Init, NEW s \in Streams PROVE Account(s)
  BY DEF AccountInv
<1>1. /\ up = <<>> /\ down = <<>> /\ live = {} /\ open = {} /\ pc[s] = "absent"
      /\ sent[s] = 0 /\ next[s] = 0 /\ read[s] = <<>>
  BY DEF Init
<1>2. Taken(s) = 0 /\ Prefix(s, 0) = 0 /\ StreamCredit \in Nat
  BY <1>1, PrefixFacts, LimitsAssumption DEF Taken
<1>3. CreditInFlight(s) = 0
  <2>1. up \in Seq(UpFrame) /\ Range(up) = {} /\ <<>> \in Seq(ChunkFrame)
    BY <1>1 DEF Range
  <2>2. Weigh(up, Paid(s)) = 0
    BY <2>1, FrameWeights, Weightless
  <2> QED
    BY <2>1, <2>2, LinkWeighs DEF CreditInFlight
<1>4. ~Coming(s)
  BY <1>1 DEF Coming, Is
<1>5. CreditInv(s)
  BY <1>1, <1>2, <1>3 DEF CreditInv, Granted
<1>6. ReadInv(s) /\ WindowInv(s) /\ FlowInv(s)
  BY <1>1, <1>2, <1>4 DEF ReadInv, WindowInv, FlowInv
<1> QED
  BY <1>5, <1>6 DEF Account

\* ... and every step keeps them, but one that fails the connection.
LEMMA AccountNext ==
    ASSUME IInv, AccountInv, TypeInv', Next, fault' = "none"
    PROVE  AccountInv'
<1>1. CASE ClientReceives
  BY <1>1, ClientKeeps, StartAccount, TakenAccount DEF ClientReceives, ClientQuietly
<1>2. ASSUME NEW s \in Streams, Pump(s) \/ BodyFails(s) \/ PublicCancel(s) \/ Timeout(s)
      PROVE  AccountInv'
  BY <1>2, DataAccount, ServerKeeps DEF Pump, ServerQuietly
<1>3. ASSUME NEW s \in Streams, Local(s) PROVE AccountInv'
  BY <1>3, ReadAccount, ClientKeeps DEF Local, ClientQuietly
<1> QED
  BY <1>1, <1>2, <1>3, ServerHears, RequestAccount DEF Next

\* The inductive invariant with the accounts.
WholeInv == Inv /\ (fault = "none" => AccountInv)

\* Every step keeps the invariant together with the accounts.
LEMMA WholeStep == WholeInv /\ [Next]_vars => WholeInv'
<1>1. ASSUME WholeInv, Next PROVE WholeInv'
  <2>1. Inv' /\ IInv /\ AccountInv
    BY <1>1, Inductive DEF WholeInv, Inv, IInv, Next
  <2>2. TypeInv'
    BY <2>1 DEF Inv
  <2> QED
    BY <1>1, <2>1, <2>2, AccountNext DEF WholeInv
<1>2. ASSUME WholeInv, UNCHANGED vars PROVE WholeInv'
  <2>1. Inv'
    BY <1>2, Inductive DEF WholeInv
  <2>2. AccountInv => AccountInv'
    BY <1>2 DEF AccountInv, Account, ReadInv, WindowInv, FlowInv, CreditInv, Granted, Taken, Prefix,
                Coming, Is, BeingWritten, Size, DataInFlight, CreditInFlight,
                vars, server, client, origin
  <2> QED
    BY <1>2, <2>1, <2>2 DEF WholeInv, vars
<1> QED
  BY <1>1, <1>2

\* Both hold in every behaviour of the specification.
LEMMA AlwaysWhole == Spec => []WholeInv
<1>1. Init => WholeInv
  BY Initially, AccountStart DEF WholeInv
<1> QED
  BY <1>1, WholeStep, PTL DEF Spec

\* While the connection is up and a stream is registered on both sides, every byte
\* of its window is in one place: the pump's credit, a data frame, the blocked write
\* or a stream.credit frame.
THEOREM UploadWindowsConserved == Spec => []StreamCreditConserved
<1>1. ASSUME WholeInv PROVE StreamCreditConserved
  <2> SUFFICES ASSUME fault = "none", NEW s \in live, s \in open
               PROVE  /\ outStream[s] + DataInFlight(s) + BeingWritten(s) + CreditInFlight(s)
                             = StreamCredit
                      /\ inStream[s] = StreamCredit - BeingWritten(s)
    BY DEF StreamCreditConserved
  <2>1. IInv /\ AccountInv
    BY <1>1 DEF WholeInv, Inv, IInv
  <2>2. s \in Streams /\ NoStream \notin Streams
    BY <2>1, NoStreamAssumption DEF IInv, TypeInv, TypeOK
  <2>3. ReadInv(s) /\ WindowInv(s) /\ FlowInv(s) /\ CreditInv(s) /\ Coming(s)
    BY <2>1, <2>2 DEF AccountInv, Account, Coming
  <2>4. PICK k, m : k = Taken(s) /\ m = next[s]
    OBVIOUS
  <2>5. PICK p, n, q, o, c, d, b :
            /\ p = Prefix(s, k) /\ n = Prefix(s, m) /\ q = Prefix(s, sent[s]) /\ o = outStream[s]
            /\ c = CreditInFlight(s) /\ d = DataInFlight(s) /\ b = BeingWritten(s)
    OBVIOUS
  <2>6. /\ p \in Nat /\ n \in Nat /\ q \in Nat /\ o \in Nat /\ c \in Nat /\ d \in Nat
        /\ StreamCredit \in Nat /\ Granted(s) = StreamCredit + p
    BY <2>1, <2>2, <2>4, <2>5, Standing DEF AccountInv, Granted
  <2>7. b \in Nat /\ n = p + b
    <3>1. CASE busy = s
      <4>1. k \in Nat /\ m = k + 1 /\ m <= sent[s] /\ sent[s] <= Len(Body[s])
            /\ sent[s] \in Nat /\ Len(Body[s]) \in Nat
        BY <2>1, <2>2, <2>3, <2>4, <3>1, Standing DEF AccountInv, ReadInv
      <4>2. k < Len(Body[s]) /\ m - 1 = k
        BY <4>1
      <4>3. b = Size(s, k)
        BY <2>4, <2>5, <3>1, <4>2 DEF BeingWritten
      <4> QED
        BY <2>2, <2>5, <4>1, <4>2, <4>3, PrefixFacts
    <3>2. CASE busy # s
      <4>1. m = k /\ b = 0
        BY <2>3, <2>4, <2>5, <3>2 DEF ReadInv, BeingWritten
      <4> QED
        BY <2>5, <2>6, <4>1
    <3> QED
      BY <3>1, <3>2
  <2>8. d + n = q
    BY <2>3, <2>4, <2>5 DEF FlowInv
  <2>9. o + q + c = StreamCredit + p
    BY <2>3, <2>5, <2>6 DEF CreditInv
  <2>10. o + d + b + c = StreamCredit
    BY <2>6, <2>7, <2>8, <2>9
  <2>11. inStream[s] = StreamCredit - b
    BY <2>3, <2>5 DEF WindowInv
  <2> QED
    BY <2>5, <2>10, <2>11
<1> QED
  BY <1>1, AlwaysWhole, PTL

\* Seen from the origin a request body is a byte stream: chunks in order, each within
\* the window, none after the end.
THEOREM ImplementsUploads == Spec => ImplementsByteStream
<1>1. ASSUME Init PROVE Bytestream!Init
  <2>1. {s \in Streams : writer[s] \in {"closed", "errored"}} = {}
    BY <1>1 DEF Init
  <2> QED
    BY <1>1, <2>1 DEF Init, Bytestream!Init
<1>2. ASSUME WholeInv, [Next]_vars PROVE [Bytestream!Next]_(Bytestream!vars)
  <2> DEFINE Ended == {s \in Streams : writer[s] \in {"closed", "errored"}}
             Goal == [Bytestream!Next]_(Bytestream!vars)
  <2>1. ASSUME UNCHANGED <<sent, read>>, Ended \subseteq Ended' PROVE Goal
    <3>1. PICK S : S = Ended' /\ S \in SUBSET Streams
      OBVIOUS
    <3>2. Ended' = Ended \cup S
      BY <2>1, <3>1
    <3>3. Bytestream!End(S)
      BY <2>1, <3>2 DEF Bytestream!End
    <3> QED
      BY <3>1, <3>3 DEF Bytestream!Next
  <2>2. CASE UNCHANGED vars
    BY <2>1, <2>2 DEF vars, server, client, origin
  <2>3. CASE Next
    <3>1. IInv /\ AccountInv
      BY <1>2, <2>3 DEF WholeInv, Inv, IInv, Next
    <3>2. /\ writer \in [Streams -> Writer] /\ read \in [Streams -> Seq(Nat)] /\ live \subseteq Streams
          /\ sent \in [Streams -> Nat] /\ NoStream \notin Streams
      BY <3>1, NoStreamAssumption DEF IInv, TypeInv, TypeOK
    <3>3. ASSUME NEW s \in Streams, SendData(s) PROVE Goal
      <4>1. /\ CreditInv(s) /\ pc[s] = "cleared" /\ sent' = [sent EXCEPT ![s] = @ + 1]
            /\ UNCHANGED <<read, writer>>
        BY <3>1, <3>3 DEF AccountInv, Account, SendData, origin
      <4>2. sent[s] \in Nat /\ sent[s] < Len(Body[s])
        BY <3>1, <3>2, <4>1 DEF IInv, PumpInv
      <4>3. PICK p, r : p = Prefix(s, Taken(s)) /\ r = Prefix(s, sent[s] + 1)
        OBVIOUS
      <4>4. p \in Nat /\ StreamCredit \in Nat /\ r <= StreamCredit + p /\ r \in Nat
        BY <3>1, <4>1, <4>2, <4>3, PrefixFacts, Standing DEF AccountInv, CreditInv, Granted
      <4>5. r - p <= StreamCredit
        BY <4>4
      <4>6. Bytestream!Prefix(s, sent[s] + 1) - Bytestream!Prefix(s, Len(read[s])) <= StreamCredit
        <5>1. \A n : Bytestream!Prefix(s, n) = Prefix(s, n)
          BY DEF Bytestream!Prefix, Prefix, Bytestream!SumFunctionOnSet, SumFunctionOnSet,
                 Bytestream!FoldFunctionOnSet, FoldFunctionOnSet,
                 Bytestream!MapThenFoldSet, MapThenFoldSet
        <5>2. /\ Bytestream!Prefix(s, sent[s] + 1) = r
              /\ Bytestream!Prefix(s, Len(read[s])) = p
          BY <4>3, <5>1, Zenon DEF Taken
        <5> QED
          BY <4>5, <5>2
      <4>7. Bytestream!Send(s)
        BY <4>1, <4>2, <4>6 DEF Bytestream!Send
      <4> QED
        BY <4>7 DEF Bytestream!Next
    <3>4. ASSUME NEW s \in Streams, OriginReads(s) PROVE Goal
      <4>1. /\ busy = s /\ sent' = sent
            /\ read' = [read EXCEPT ![s] = Append(@, next[s] - 1)]
            /\ writer' = writer \/ writer' = [writer EXCEPT ![s] = "errored"]
        BY <3>2, <3>4 DEF OriginReads, AbortResponse, AbortLocal, server, IInv, WriteInv
      <4>2. writer[s] = "open" /\ next[s] = Len(read[s]) + 1
        BY <3>1, <3>2, <4>1 DEF IInv, WriteInv, WriteOf
      <4>3. PICK k, m, l : k = Taken(s) /\ m = sent[s] /\ l = Len(Body[s])
        OBVIOUS
      <4>4. k \in Nat /\ m \in Nat /\ l \in Nat /\ k + 1 <= m /\ m <= l /\ next[s] - 1 = k
        <5>1. PICK x : x = next[s]
          OBVIOUS
        <5>2. k \in Nat /\ m \in Nat /\ l \in Nat /\ x = k + 1 /\ x <= m /\ m <= l
          BY <3>1, <4>2, <4>3, <5>1, Standing DEF AccountInv, Taken
        <5> QED
          BY <5>1, <5>2
      <4>5. 1 \in 1..m - k /\ 1 \in 1..l
        BY <4>4
      <4>6. s \notin Ended /\ Ended' \in {Ended, Ended \cup {s}}
        BY <3>2, <4>1, <4>2
      <4>7. read' = [read EXCEPT ![s] = @ \o [i \in 1..1 |-> Len(@) + i - 1]]
        <5>1. read[s] \in Seq(Nat) /\ Len(read[s]) = k
          BY <3>2, <4>3 DEF Taken
        <5>2. [i \in 1..1 |-> k + i - 1] = <<k>>
          BY <4>4
        <5>3. Append(read[s], k) = read[s] \o [i \in 1..1 |-> k + i - 1]
          BY <5>1, <5>2
        <5> QED
          BY <3>2, <4>1, <4>4, <5>1, <5>3
      <4>8. Bytestream!Accept(s, 1)
        BY <4>1, <4>3, <4>5, <4>6, <4>7 DEF Bytestream!Accept, Taken
      <4> QED
        BY <4>3, <4>5, <4>8 DEF Bytestream!Next
    <3>5. ASSUME UNCHANGED <<sent, read>>, \A t \in Streams : writer[t] \in {"closed", "errored"}
                                               => writer'[t] \in {"closed", "errored"}
          PROVE  Goal
      BY <2>1, <3>5
    <3>6. CASE ServerReceives
      BY <3>5, <3>6, ServerReceiving DEF origin
    <3>7. ASSUME NEW s \in Streams,
                 PublicRequest(s) \/ Pump(s) \/ BodyFails(s) \/ PublicCancel(s) \/ Timeout(s)
          PROVE  Goal
      <4>1. UNCHANGED origin
        BY <3>7, ServerSteps
      <4>2. CASE SendData(s)
        BY <3>3, <4>2
      <4>3. CASE ~SendData(s)
        <5>1. UNCHANGED sent
          BY <3>7, <4>3 DEF PublicRequest, Pump, AskCredit, BodyRead, SendEnd, SendAbort, BodyFails,
                            PublicCancel, Timeout
        <5> QED
          BY <3>5, <4>1, <5>1 DEF origin
      <4> QED
        BY <4>2, <4>3
    <3>8. ASSUME NEW s \in Streams, Local(s) PROVE Goal
      <4>1. CASE OriginReads(s)
        BY <3>4, <4>1
      <4>2. CASE ~OriginReads(s)
        <5>1. UNCHANGED <<sent, read>>
          BY <3>8, <4>2 DEF Local, OriginAnswers, ResponseEnds, OriginFails, OriginDropsBody, server,
                            origin
        <5>2. writer' = writer \/ AbortLocal(s) \/ writer' = [writer EXCEPT ![s] = "errored"]
          BY <3>8, <4>2 DEF Local, OriginAnswers, ResponseEnds, OriginFails, OriginDropsBody,
                            AbortResponse, origin
        <5>3. \A t \in Streams : writer[t] \in {"closed", "errored"}
                                     => writer'[t] \in {"closed", "errored"}
          BY <3>2, <5>2 DEF AbortLocal
        <5> QED
          BY <3>5, <5>1, <5>3
      <4> QED
        BY <4>1, <4>2
    <3>9. CASE ClientReceives
      <4>1. UNCHANGED <<sent, read>>
        BY <3>9 DEF ClientReceives, IgnoreFrame, ReceiveRequest, ReceiveData, ReceiveEnd,
                    ReceiveAbort, Fail, TakeChunk, server, origin
      <4>2. CASE UNCHANGED writer
        BY <3>5, <4>1, <4>2
      <4>3. ASSUME NEW t \in Streams, AbortLocal(t) \/ writer' = [writer EXCEPT ![t] = "closed"]
            PROVE  Goal
        <5>1. \A u \in Streams : writer[u] \in {"closed", "errored"}
                                     => writer'[u] \in {"closed", "errored"}
          BY <3>2, <4>3 DEF AbortLocal
        <5> QED
          BY <3>5, <4>1, <5>1
      <4>4. CASE IgnoreFrame
        BY <4>2, <4>4 DEF IgnoreFrame, origin
      <4>5. CASE ReceiveRequest
        <5>1. PICK s : s = Head(down).id
          OBVIOUS
        <5>2. /\ Head(down).type = "request" /\ down # <<>> /\ down' = Tail(down)
              /\ live' = live \cup {s} /\ writer' = [writer EXCEPT ![s] = "open"]
              /\ UNCHANGED <<next, server>>
          BY <4>5, <5>1 DEF ReceiveRequest, Turn
        <5>3. s \in Streams /\ UNCHANGED <<sent, pc>>
          BY <3>1, <5>1, <5>2, HeadOfDown DEF IInv, server
        <5>4. Untouched(s)
          BY <3>1, <5>1, <5>2, <5>3, LinkStarts DEF IInv
        <5>5. \A u \in Streams : writer[u] \in {"closed", "errored"}
                                     => writer'[u] \in {"closed", "errored"}
          BY <3>2, <5>2, <5>4 DEF Untouched
        <5> QED
          BY <3>5, <4>1, <5>5
      <4>6. CASE ReceiveData \/ ReceiveEnd \/ ReceiveAbort
        <5>1. Head(down).id \in Streams
          BY <3>2, <4>6 DEF ReceiveData, ReceiveEnd, ReceiveAbort
        <5>2. \/ UNCHANGED writer \/ AbortLocal(Head(down).id)
              \/ writer' = [writer EXCEPT ![Head(down).id] = "closed"]
          BY <4>6 DEF ReceiveData, ReceiveEnd, ReceiveAbort, Fail, TakeChunk, AbortResponse, origin
        <5> QED
          BY <4>2, <4>3, <5>1, <5>2
      <4> QED
        BY <3>9, <4>4, <4>5, <4>6 DEF ClientReceives
    <3> QED
      BY <2>3, <3>6, <3>7, <3>8, <3>9 DEF Next
  <2> QED
    BY <1>2, <2>2, <2>3
<1> QED
  BY <1>1, <1>2, AlwaysWhole, PTL DEF Spec, ImplementsByteStream, Bytestream!Spec

=============================================================================
