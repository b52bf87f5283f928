------------------------ MODULE WebSocketStreamProofs ------------------------
(* Theorems about WebSocketStream, for every bound, message size and window: a   *)
(* sender that sleeps is woken, no data frame is out of sequence, each endpoint  *)
(* hears the messages of the other in order, without a hole, and no credit is    *)
(* lost or spent twice: nothing but an end fails the connection.                 *)
(*                                                                               *)
(* For one direction, the messages are in three places, one after the other: those *)
(* that were heard, those in data frames, and those in the send chain (FlowInv).  *)
(* While the receiver listens and the sender may send, none is missing but what  *)
(* was too big. When one of them stops, messages are lost, but only behind all   *)
(* that can still be heard.                                                      *)
(*                                                                               *)
(* The bytes of one direction are in four places too (AccountInv): left to the   *)
(* sender, in data frames, held for a public socket that is not open, and in     *)
(* credit frames on the way back.                                                *)
EXTENDS WebSocketStream, SumTheorems

Frame == [type : {"data"}, seq : Nat, msg : Nat] \cup [type : {"end"}, last : Int]
    \cup [type : {"credit"}, bytes : Nat] \cup [type : {"request", "start", "abort"}]

TypeInv == TypeOK /\ down \in Seq(Frame) /\ up \in Seq(Frame)

-----------------------------------------------------------------------------
(* A link.                                                                     *)

Has(link, type) == \E i \in DOMAIN link : link[i].type = type

\* Its data frames, which are in the order of their seqs.
Frames(link) == {f \in Frame : f.type = "data" /\ \E i \in DOMAIN link : link[i] = f}
Sorted(link) == \A i, j \in DOMAIN link :
    i < j /\ link[i].type = "data" /\ link[j].type = "data" => link[i].seq < link[j].seq

\* There is at most one request, in front.
RequestFirst(link) == \A i \in DOMAIN link : link[i].type = "request" => i = 1

\* Frames at the end of a link.
LEMMA Concatenated ==
    ASSUME NEW link \in Seq(Frame), NEW more \in Seq(Frame)
    PROVE  /\ link \o more \in Seq(Frame)
           /\ DOMAIN link = 1..Len(link) /\ DOMAIN more = 1..Len(more)
           /\ Len(link) \in Nat /\ Len(more) \in Nat
           /\ DOMAIN (link \o more) = 1..Len(link) + Len(more)
           /\ \A i \in DOMAIN link : (link \o more)[i] = link[i]
           /\ \A i \in DOMAIN (link \o more) :
                 i \notin DOMAIN link => i - Len(link) \in DOMAIN more
                                         /\ (link \o more)[i] = more[i - Len(link)]
<1>1. /\ link \o more \in Seq(Frame)
      /\ DOMAIN link = 1..Len(link) /\ DOMAIN more = 1..Len(more)
      /\ Len(link) \in Nat /\ Len(more) \in Nat
      /\ DOMAIN (link \o more) = 1..Len(link) + Len(more)
  OBVIOUS
<1>2. ASSUME NEW i \in DOMAIN link PROVE (link \o more)[i] = link[i]
  OBVIOUS
<1>3. ASSUME NEW i \in DOMAIN (link \o more), i \notin DOMAIN link
      PROVE  i - Len(link) \in DOMAIN more /\ (link \o more)[i] = more[i - Len(link)]
  <2>1. i \in 1..Len(link) + Len(more) /\ ~(i <= Len(link))
    BY <1>1, <1>3
  <2> QED
    BY <1>1, <2>1
<1> QED
  BY <1>1, <1>2, <1>3

\* What a link holds after more frames were sent.
LEMMA Joins ==
    ASSUME NEW link \in Seq(Frame), NEW more \in Seq(Frame)
    PROVE  /\ link \o more \in Seq(Frame)
           /\ \A type : Has(link \o more, type) => Has(link, type) \/ Has(more, type)
           /\ RequestFirst(link) /\ ~Has(more, "request") => RequestFirst(link \o more)
           /\ ~Has(more, "data") => /\ Frames(link \o more) = Frames(link)
                                    /\ Sorted(link) => Sorted(link \o more)
<1> DEFINE all == link \o more
<1>1. /\ all \in Seq(Frame) /\ DOMAIN link \subseteq DOMAIN all
      /\ \A i \in DOMAIN link : all[i] = link[i]
      /\ \A i \in DOMAIN all : i \notin DOMAIN link =>
            i - Len(link) \in DOMAIN more /\ all[i] = more[i - Len(link)]
  <2>1. DOMAIN link \subseteq DOMAIN all
    <3>1. \A a, b \in Nat : 1..a \subseteq 1..a + b
      OBVIOUS
    <3> QED
      BY <3>1, Concatenated
  <2> QED
    BY <2>1, Concatenated
<1>2. \A i \in DOMAIN all : (i \in DOMAIN link /\ all[i] = link[i]) \/ Has(more, all[i].type)
  BY <1>1 DEF Has
<1> HIDE DEF all
<1>3. \A type : Has(all, type) => Has(link, type) \/ Has(more, type)
  BY <1>2 DEF Has
<1>4. RequestFirst(link) /\ ~Has(more, "request") => RequestFirst(all)
  BY <1>2 DEF RequestFirst
<1>5. ~Has(more, "data") => Frames(all) = Frames(link)
  BY <1>1, <1>2 DEF Frames
<1>6. ~Has(more, "data") /\ Sorted(link) => Sorted(all)
  BY <1>2 DEF Sorted
<1> QED
  BY <1>1, <1>3, <1>4, <1>5, <1>6 DEF all

\* A data frame at the end of a link.
LEMMA JoinsData ==
    ASSUME NEW link \in Seq(Frame), NEW f \in Frame, f.type = "data", Sorted(link),
           \A g \in Frames(link) : g.seq < f.seq
    PROVE  Frames(link \o <<f>>) = Frames(link) \cup {f} /\ Sorted(link \o <<f>>)
<1> DEFINE all == link \o <<f>>
<1>1. /\ all \in Seq(Frame) /\ Len(link) \in Nat /\ DOMAIN link = 1..Len(link)
      /\ DOMAIN all = 1..Len(link) + 1
      /\ \A i \in DOMAIN link : all[i] = link[i] /\ link[i] \in Frame
      /\ all[Len(link) + 1] = f
  <2>1. all = Append(link, f)
    OBVIOUS
  <2>2. /\ Append(link, f) \in Seq(Frame) /\ Len(link) \in Nat /\ DOMAIN link = 1..Len(link)
        /\ DOMAIN Append(link, f) = 1..Len(link) + 1
        /\ Append(link, f)[Len(link) + 1] = f
    OBVIOUS
  <2>3. \A i \in DOMAIN link : Append(link, f)[i] = link[i] /\ link[i] \in Frame
    OBVIOUS
  <2> QED
    BY <2>1, <2>2, <2>3
<1> HIDE DEF all
<1>2. /\ Len(link) + 1 \in DOMAIN all
      /\ \A i \in DOMAIN all : i = Len(link) + 1 \/ (i \in DOMAIN link /\ i < Len(link) + 1)
      /\ \A i \in DOMAIN link : i \in DOMAIN all
  <2>1. ASSUME NEW n \in Nat
        PROVE  /\ n + 1 \in 1..n + 1
               /\ \A i \in 1..n + 1 : i = n + 1 \/ (i \in 1..n /\ i < n + 1)
               /\ \A i \in 1..n : i \in 1..n + 1
    OBVIOUS
  <2> QED
    BY <1>1, <2>1
<1>3. Frames(all) = Frames(link) \cup {f}
  BY <1>1, <1>2 DEF Frames
<1>4. \A i \in DOMAIN link : link[i].type = "data" => link[i].seq < f.seq
  BY <1>1 DEF Frames
<1>5. Sorted(all)
  <2> SUFFICES ASSUME NEW i \in DOMAIN all, NEW j \in DOMAIN all, i < j,
                      all[i].type = "data", all[j].type = "data"
               PROVE  all[i].seq < all[j].seq
    BY DEF Sorted
  <2>1. i \in DOMAIN link
    BY <1>1, <1>2
  <2>2. CASE j = Len(link) + 1
    BY <1>1, <1>4, <2>1, <2>2
  <2>3. CASE j \in DOMAIN link
    BY <1>1, <2>1, <2>3 DEF Sorted
  <2> QED
    BY <1>2, <2>2, <2>3
<1> QED
  BY <1>3, <1>5 DEF all

\* A link without its head.
LEMMA Leaves ==
    ASSUME NEW link \in Seq(Frame), link # <<>>
    PROVE  /\ Tail(link) \in Seq(Frame) /\ Head(link) \in Frame
           /\ Has(link, Head(link).type)
           /\ \A type : Has(Tail(link), type) => Has(link, type)
           /\ RequestFirst(link) => ~Has(Tail(link), "request") /\ RequestFirst(Tail(link))
           /\ Sorted(link) => Sorted(Tail(link))
           /\ Head(link).type # "data" => Frames(Tail(link)) = Frames(link)
           /\ Head(link).type = "data" /\ Sorted(link) =>
                 /\ Head(link) \in Frames(link)
                 /\ Frames(Tail(link)) = Frames(link) \ {Head(link)}
                 /\ \A f \in Frames(Tail(link)) : Head(link).seq < f.seq
<1> DEFINE rest == Tail(link)
           h == Head(link)
<1>1. /\ rest \in Seq(Frame) /\ h = link[1] /\ h \in Frame
      /\ Len(link) \in Nat \ {0} /\ DOMAIN link = 1..Len(link)
      /\ DOMAIN rest = 1..Len(link) - 1
      /\ \A i \in DOMAIN rest : rest[i] = link[i + 1]
  <2>1. /\ rest \in Seq(Frame) /\ h = link[1] /\ h \in Frame
        /\ Len(link) \in Nat \ {0} /\ DOMAIN link = 1..Len(link)
        /\ DOMAIN rest = 1..Len(link) - 1
    OBVIOUS
  <2>2. \A i \in DOMAIN rest : rest[i] = link[i + 1]
    OBVIOUS
  <2> QED
    BY <2>1, <2>2
<1> HIDE DEF rest, h
<1>2. /\ 1 \in DOMAIN link
      /\ \A i \in DOMAIN rest : i + 1 \in DOMAIN link /\ 1 < i + 1 /\ i \in Nat
      /\ \A i \in DOMAIN link : i = 1 \/ (i - 1 \in DOMAIN rest /\ rest[i - 1] = link[i])
  <2>1. \A n \in Nat \ {0} :
           /\ 1 \in 1..n
           /\ \A i \in 1..n - 1 : i + 1 \in 1..n /\ 1 < i + 1 /\ i \in Nat
           /\ \A i \in 1..n : i = 1 \/ (i - 1 \in 1..n - 1 /\ (i - 1) + 1 = i)
    OBVIOUS
  <2>2. /\ 1 \in DOMAIN link
        /\ \A i \in DOMAIN rest : i + 1 \in DOMAIN link /\ 1 < i + 1 /\ i \in Nat
        /\ \A i \in DOMAIN link : i = 1 \/ (i - 1 \in DOMAIN rest /\ (i - 1) + 1 = i)
    BY <1>1, <2>1, Zenon
  <2>3. ASSUME NEW i \in DOMAIN link, i # 1 PROVE i - 1 \in DOMAIN rest /\ rest[i - 1] = link[i]
    <3>1. i - 1 \in DOMAIN rest /\ (i - 1) + 1 = i
      BY <2>2, <2>3
    <3>2. rest[i - 1] = link[(i - 1) + 1]
      BY <1>1, <3>1
    <3> QED
      BY <3>1, <3>2
  <2> QED
    BY <2>2, <2>3
<1>3. Has(link, h.type)
  BY <1>1, <1>2 DEF Has
<1>4. \A type : Has(rest, type) => Has(link, type)
  BY <1>1, <1>2 DEF Has
<1>5. RequestFirst(link) => ~Has(rest, "request") /\ RequestFirst(rest)
  BY <1>1, <1>2 DEF Has, RequestFirst
<1>6. Sorted(link) => Sorted(rest)
  <2>1. \A i, j \in DOMAIN rest : i < j => i + 1 < j + 1
    BY <1>1
  <2> QED
    BY <1>1, <1>2, <2>1 DEF Sorted
<1>7. h.type # "data" => Frames(rest) = Frames(link)
  <2>1. ASSUME NEW f, f.type = "data", h.type # "data"
        PROVE  (\E i \in DOMAIN rest : rest[i] = f) <=> (\E i \in DOMAIN link : link[i] = f)
    <3>1. ASSUME NEW i \in DOMAIN rest, rest[i] = f PROVE \E j \in DOMAIN link : link[j] = f
      BY <1>1, <1>2, <3>1
    <3>2. ASSUME NEW i \in DOMAIN link, link[i] = f PROVE \E j \in DOMAIN rest : rest[j] = f
      BY <1>1, <1>2, <2>1, <3>2
    <3> QED
      BY <3>1, <3>2
  <2> QED
    BY <2>1 DEF Frames
<1>8. ASSUME h.type = "data", Sorted(link)
      PROVE  /\ h \in Frames(link) /\ Frames(rest) = Frames(link) \ {h}
             /\ \A f \in Frames(rest) : h.seq < f.seq
  <2>1. h \in Frames(link)
    BY <1>1, <1>2, <1>8 DEF Frames
  <2>2. \A f \in Frames(rest) : h.seq < f.seq
    BY <1>1, <1>2, <1>8 DEF Frames, Sorted
  <2>3. h.seq \in Nat
    BY <1>1, <1>8 DEF Frame
  <2>4. h \notin Frames(rest)
    <3>1. ~(h.seq < h.seq)
      BY <2>3
    <3> QED
      BY <2>2, <3>1
  <2>5. Frames(rest) \cup {h} = Frames(link)
    BY <1>1, <1>2, <2>1 DEF Frames
  <2> QED
    BY <2>1, <2>2, <2>4, <2>5
<1> QED
  BY <1>1, <1>3, <1>4, <1>5, <1>6, <1>7, <1>8 DEF rest, h

\* What the program puts into a link at once.
LEMMA Single ==
    ASSUME NEW f \in Frame
    PROVE  /\ <<f>> \in Seq(Frame) /\ \A type : Has(<<f>>, type) <=> f.type = type
           /\ \A link \in Seq(Frame) : Append(link, f) = link \o <<f>>
<1>1. DOMAIN <<f>> = {1} /\ <<f>>[1] = f /\ <<f>> \in Seq(Frame)
  OBVIOUS
<1>2. ASSUME NEW link \in Seq(Frame) PROVE Append(link, f) = link \o <<f>>
  OBVIOUS
<1>3. \A type : Has(<<f>>, type) <=> f.type = type
  BY <1>1 DEF Has
<1> QED
  BY <1>1, <1>2, <1>3

\* `Credit` sends credit frames only, or nothing.
LEMMA CreditFrames ==
    ASSUME NEW bytes \in Nat
    PROVE  /\ Credit(bytes) \in Seq(Frame)
           /\ \A type : Has(Credit(bytes), type) => type = "credit"
<1>1. CASE bytes > 0
  <2>1. PICK f : f = [type |-> "credit", bytes |-> bytes]
    OBVIOUS
  <2>2. f \in Frame /\ f.type = "credit"
    BY <2>1 DEF Frame
  <2> QED
    BY <1>1, <2>1, <2>2, Single DEF Credit
<1>2. CASE ~(bytes > 0)
  BY <1>2 DEF Credit, Has
<1> QED
  BY <1>1, <1>2

-----------------------------------------------------------------------------
(* The invariant.                                                              *)

Link(k) == IF k = "ws.client" THEN down ELSE up

\* The beginning: the client hears of the stream by its request, the public socket is
\* accepted after response.start, and nothing is said or sent before.
CallInv ==
    /\ srv = "absent" => cli = "absent" /\ down = <<>>
    /\ RequestFirst(down) /\ (Has(down, "request") => cli = "absent")
    /\ loc = "connecting" <=> cli = "opening"
    /\ loc = "none" <=> cli = "absent"
    /\ pub # "none" => cli \in {"open", "gone"} /\ srv \notin {"absent", "connecting"}
    /\ srv = "open" => pub # "none"
    /\ Has(up, "start") => cli \in {"open", "gone"}
    /\ Has(down, "data") \/ Has(down, "end") \/ Has(down, "abort") => pub # "none"
    /\ ends["ws.client"] # <<>> => pub # "none"
    /\ ends["ws.server"] # <<>> => cli \in {"open", "gone"}
    /\ pub = "none" => said["ws.client"] = <<>> /\ chain["ws.client"] = <<>>
    /\ cli \in {"absent", "opening", "starting"} =>
           chain["ws.server"] = <<>> /\ got["ws.server"] = <<>> /\ ~Has(up, "data")

\* A sender is at work when there is a message.
StageInv == \A k \in Kinds : stage[k] # "idle" => chain[k] # <<>>

\* The receiver of k knows the stream.
Hears(k) == IF k = "ws.client" THEN cli # "gone" ELSE srv \notin {"gone", "forgotten"}

\* A message that reaches the receiver of k gets to its endpoint.
Listening(k) ==
    IF k = "ws.client" THEN cli # "gone" /\ loc \in {"none", "connecting", "open"}
    ELSE srv \in {"absent", "connecting"} \/ (srv = "open" /\ pub = "open")

\* Data frames are the seqs from receiveNextSeq up to sendNextSeq.
Sequenced(link, last) == Sorted(link) /\ \A f \in Frames(link) : f.seq < last
Gapless(F, first, last) ==
    /\ \A f \in F : first <= f.seq
    /\ \A n \in Nat : first <= n /\ n < last => \E f \in F : f.seq = n
SeqInv(k) == /\ Sequenced(Link(k), sent[k]) /\ next[k] <= sent[k]
             /\ Hears(k) => Gapless(Frames(Link(k)), next[k], sent[k])

\* What is heard (g) comes before what travels (F), and that before what waits (c).
Ordered(top, F, g, c) ==
    /\ \A f \in F : f.msg \in 1..top
    /\ \A i \in DOMAIN c : c[i] \in 1..top
    /\ \A i \in DOMAIN g : g[i] \in 1..top
    /\ \A i, j \in DOMAIN g : i < j => g[i] < g[j]
    /\ \A f, h \in F : f.seq < h.seq => f.msg < h.msg
    /\ \A i, j \in DOMAIN c : i < j => c[i] < c[j]
    /\ \A i \in DOMAIN g, f \in F : g[i] < f.msg
    /\ \A i \in DOMAIN g, j \in DOMAIN c : g[i] < c[j]
    /\ \A f \in F, j \in DOMAIN c : f.msg < c[j]
OrderInv(k) == Ordered(Len(said[k]), Frames(Link(k)), got[k], chain[k])

\* The messages that were heard, travel, or are going to.
All(c) == {c[i] : i \in DOMAIN c}
Going(k) == IF CanSend(k) THEN All(chain[k])
            ELSE IF stage[k] = "cleared" THEN {Head(chain[k])} ELSE {}
Present(F, g, W) == {f.msg : f \in F} \cup All(g) \cup W
PresentOf(k) == Present(Frames(Link(k)), got[k], Going(k))

\* Messages that should be among them. The local server may have said something before
\* the client listened.
Missing(k, s, P) == {m \in 1..Len(s) : /\ ~(s[m] > MaxMessage) /\ m \notin P
                                       /\ k = "ws.client" \/ \E y \in P : y < m}

\* There is no hole before a message that can still be heard.
NoHole(k, s, P, can) == /\ \A x \in P, m \in Missing(k, s, P) : x < m
                        /\ can => Missing(k, s, P) = {}
HoleInv(k) == Listening(k) => NoHole(k, said[k], PresentOf(k), CanSend(k))

FlowInv(k) == SeqInv(k) /\ OrderInv(k) /\ HoleInv(k)
InOrderOf(k) ==
    \A i \in DOMAIN got[k] :
        LET before == IF i > 1 THEN got[k][i - 1] ELSE IF k = "ws.client" THEN 0
                                                  ELSE got[k][i] - 1
        IN /\ before < got[k][i]
           /\ \A m \in before + 1 .. got[k][i] - 1 : said[k][m] > MaxMessage

NoSeqFault == fault # "seq.discontinuity"
IInv == /\ TypeInv /\ CallInv /\ StageInv /\ NoLostWakeup /\ NoSeqFault
        /\ \A k \in Kinds : FlowInv(k) /\ InOrderOf(k)
\* The frame that fails the connection is gone from the link.
Inv == /\ TypeInv /\ CallInv /\ StageInv /\ NoLostWakeup /\ NoSeqFault
       /\ \A k \in Kinds : InOrderOf(k)
       /\ fault = "none" => \A k \in Kinds : FlowInv(k)

-----------------------------------------------------------------------------
(* Types.                                                                      *)

\* A function with one value replaced.
LEMMA Updated ==
    ASSUME NEW S, NEW T, NEW f \in [S -> T], NEW x \in S, NEW v \in T
    PROVE  [f EXCEPT ![x] = v] \in [S -> T]
  OBVIOUS

\* Appending to and taking from a queue stay within its type.
LEMMA Queued ==
    ASSUME NEW T, NEW q \in Seq(T), NEW v \in T
    PROVE  /\ Append(q, v) \in Seq(T) /\ q # <<>> => Tail(q) \in Seq(T) /\ Head(q) \in T
           /\ <<>> \in Seq(T) /\ Append(q, v) # <<>>
  OBVIOUS

\* The two kinds of streams.
LEMMA TwoKinds == "ws.client" \in Kinds /\ "ws.server" \in Kinds
  BY DEF Kinds

\* The variables one at a time.
LEMMA Typed ==
    TypeInv =>
    /\ said \in [Kinds -> Seq(Nat)] /\ got \in [Kinds -> Seq(Nat)]
    /\ chain \in [Kinds -> Seq(Nat)] /\ stage \in [Kinds -> Stage]
    /\ ends \in [Kinds -> Seq(Int)] /\ sent \in [Kinds -> Nat]
    /\ out \in [Kinds -> Nat] /\ next \in [Kinds -> Nat] /\ in \in [Kinds -> Nat]
  BY DEF TypeInv, TypeOK

\* The parts of the type invariant that are no functions of the kind.
LEMMA TypedRest ==
    TypeInv => /\ pub \in Public /\ loc \in Local /\ srv \in Server /\ cli \in Client
               /\ held \in Seq(Nat) /\ down \in Seq(Frame) /\ up \in Seq(Frame)
  BY DEF TypeInv, TypeOK

\* The counters of a kind are numbers.
LEMMA Numbers ==
    ASSUME TypeInv, NEW k \in Kinds
    PROVE  out[k] \in Nat /\ in[k] \in Nat /\ next[k] \in Nat /\ sent[k] \in Nat
  BY Typed

\* What ends, seeds or wakes keeps the types.
LEMMA CreditTypes ==
    ASSUME TypeInv, NEW k \in Kinds
    PROVE  /\ Woken(k) \in [Kinds -> Stage]
           /\ Seeded(k) => out' \in [Kinds -> Nat] /\ in' \in [Kinds -> Nat]
           /\ CreditsGo(k) => /\ out' \in [Kinds -> Nat] /\ in' \in [Kinds -> Nat]
                              /\ stage' \in [Kinds -> Stage]
<1>1. Woken(k) \in [Kinds -> Stage]
  BY Typed, Updated DEF Woken, Stage
<1>2. Seeded(k) => out' \in [Kinds -> Nat] /\ in' \in [Kinds -> Nat]
  BY Typed, Updated, LimitsAssumption DEF Seeded
<1>3. CreditsGo(k) => /\ out' \in [Kinds -> Nat] /\ in' \in [Kinds -> Nat]
                      /\ stage' \in [Kinds -> Stage]
  BY <1>1, Typed, Updated DEF CreditsGo
<1> QED
  BY <1>1, <1>2, <1>3

\* The values that the helpers of the two sockets return.
LEMMA SocketTypes ==
    TypeInv => PublicClosing \in Public /\ LocalClosing \in Local /\ Awake \in Public
  BY TypedRest DEF PublicClosing, LocalClosing, Awake, Public, Local

\* What a speaker adds keeps the types of messages and chain.
LEMMA SayTypes ==
    ASSUME TypeInv, NEW k \in Kinds, NEW bytes \in Nat, Speaks(k, bytes)
    PROVE  /\ said' \in [Kinds -> Seq(Nat)]
           /\ Enqueue(k) => chain' \in [Kinds -> Seq(Nat)]
<1>1. said[k] \in Seq(Nat) /\ chain[k] \in Seq(Nat) /\ Len(said[k]) + 1 \in Nat
  BY Typed
<1>2. Append(said[k], bytes) \in Seq(Nat) /\ Append(chain[k], Len(said[k]) + 1) \in Seq(Nat)
  BY <1>1, Queued
<1> QED
  BY <1>2, Typed, Updated DEF Speaks, Enqueue

\* What the chain has done leaves it a chain.
LEMMA DoneTypes ==
    ASSUME TypeInv, NEW k \in Kinds, chain[k] # <<>>, Done(k)
    PROVE  chain' \in [Kinds -> Seq(Nat)] /\ Head(chain[k]) \in Nat
<1>1. Tail(chain[k]) \in Seq(Nat) /\ Head(chain[k]) \in Nat
  BY Typed, Queued
<1> QED
  BY <1>1, Typed, Updated DEF Done

\* What is declared at an end keeps its type.
LEMMA EndTypes ==
    ASSUME TypeInv, NEW k \in Kinds
    PROVE  /\ DeclareEnd(k) => ends' \in [Kinds -> Seq(Int)]
           /\ ends[k] # <<>> => /\ [ends EXCEPT ![k] = Tail(@)] \in [Kinds -> Seq(Int)]
                                /\ Head(ends[k]) \in Int
<1>1. LastSentSeq(k) \in Int
  BY Typed DEF LastSentSeq
<1>2. Append(ends[k], LastSentSeq(k)) \in Seq(Int)
  BY <1>1, Typed, Queued
<1>3. ends[k] # <<>> => Tail(ends[k]) \in Seq(Int) /\ Head(ends[k]) \in Int
  BY <1>1, Typed, Queued
<1>4. DeclareEnd(k) => ends' \in [Kinds -> Seq(Int)]
  BY <1>2, Typed, Updated DEF DeclareEnd
<1>5. ends[k] # <<>> => [ends EXCEPT ![k] = Tail(@)] \in [Kinds -> Seq(Int)]
  BY <1>3, Typed, Updated
<1> QED
  BY <1>3, <1>4, <1>5

\* The message in a chain or in a data frame is one that was said.
LEMMA MessageTypes ==
    ASSUME IInv, NEW k \in Kinds
    PROVE  /\ chain[k] # <<>> => /\ Head(chain[k]) \in 1..Len(said[k]) /\ Size(k) \in Nat
                                 /\ Head(chain[k]) = chain[k][1] /\ 1 \in DOMAIN chain[k]
           /\ \A f \in Frames(Link(k)) : f.msg \in 1..Len(said[k]) /\ Bytes(k, f) \in Nat
<1>1. /\ said[k] \in Seq(Nat) /\ chain[k] \in Seq(Nat) /\ OrderInv(k)
  BY Typed DEF IInv, FlowInv
<1>2. \A m \in 1..Len(said[k]) : said[k][m] \in Nat
  BY <1>1
<1>3. chain[k] # <<>> => 1 \in DOMAIN chain[k] /\ Head(chain[k]) = chain[k][1]
  BY <1>1
<1>4. chain[k] # <<>> => Head(chain[k]) \in 1..Len(said[k])
  BY <1>1, <1>3 DEF OrderInv, Ordered
<1> QED
  BY <1>1, <1>2, <1>3, <1>4 DEF OrderInv, Ordered, Size, Bytes

-----------------------------------------------------------------------------
(* The beginning of the stream.                                                *)

\* What the frames of the program are.
LEMMA FrameTypes ==
    /\ [type |-> "request"] \in Frame /\ [type |-> "start"] \in Frame
    /\ [type |-> "abort"] \in Frame
    /\ \A n \in Int : [type |-> "end", last |-> n] \in Frame
    /\ \A n, m \in Nat : [type |-> "data", seq |-> n, msg |-> m] \in Frame
<1>1. /\ [type |-> "request"] \in Frame /\ [type |-> "start"] \in Frame
      /\ [type |-> "abort"] \in Frame
  BY DEF Frame
<1>2. \A n \in Int : [type |-> "end", last |-> n] \in Frame
  BY DEF Frame
<1>3. \A n, m \in Nat : [type |-> "data", seq |-> n, msg |-> m] \in Frame
  BY DEF Frame
<1> QED
  BY <1>1, <1>2, <1>3

\* One frame more at the end of a link.
LEMMA Pushes ==
    ASSUME NEW link \in Seq(Frame), NEW f \in Frame
    PROVE  /\ link \o <<f>> \in Seq(Frame) /\ Append(link, f) = link \o <<f>>
           /\ \A type : Has(link \o <<f>>, type) => Has(link, type) \/ f.type = type
           /\ RequestFirst(link) /\ f.type # "request" => RequestFirst(link \o <<f>>)
           /\ f.type # "data" => /\ Frames(link \o <<f>>) = Frames(link)
                                 /\ Sorted(link) => Sorted(link \o <<f>>)
<1>1. PICK more : more = <<f>>
  OBVIOUS
<1>2. /\ more \in Seq(Frame) /\ Append(link, f) = link \o more
      /\ \A type : Has(more, type) <=> f.type = type
  BY <1>1, Single
<1>3. /\ link \o more \in Seq(Frame)
      /\ \A type : Has(link \o more, type) => Has(link, type) \/ f.type = type
      /\ RequestFirst(link) /\ f.type # "request" => RequestFirst(link \o more)
      /\ f.type # "data" => /\ Frames(link \o more) = Frames(link)
                            /\ Sorted(link) => Sorted(link \o more)
  BY <1>2, Joins
<1> QED
  BY <1>1, <1>2, <1>3

\* The end of a direction that waits for room is not there before the stream is.
LEMMA CallServer ==
    ASSUME TypeInv, CallInv, StageInv,
           \/ SendRequestEnd \/ AskCredit("ws.client") \/ SendData("ws.client") \/ PublicClosed
    PROVE  CallInv'
<1>0. /\ pub \in Public /\ srv \in Server /\ cli \in Client /\ down \in Seq(Frame)
      /\ chain \in [Kinds -> Seq(Nat)] /\ ends \in [Kinds -> Seq(Int)] /\ sent \in [Kinds -> Nat]
  BY Typed, TypedRest
<1>1. CASE SendRequestEnd
  <2>1. PICK f : f = [type |-> "end", last |-> Head(ends["ws.client"])]
    OBVIOUS
  <2>2. /\ f \in Frame /\ f.type = "end" /\ down' = down \o <<f>>
    BY <1>1, <2>1, TwoKinds, EndTypes, FrameTypes DEF SendRequestEnd, ToClient
  <2>3. /\ RequestFirst(down) => RequestFirst(down')
        /\ \A type : Has(down', type) => Has(down, type) \/ type = "end"
    BY <1>0, <2>2, Pushes
  <2>4. ends'["ws.server"] = ends["ws.server"] /\ pub # "none" /\ pub' # "none"
    BY <1>0, <1>1, TwoKinds DEF SendRequestEnd, CallInv, PublicClosing
  <2>5. srv' \in {srv, "gone"} /\ UNCHANGED <<loc, said, got, cli, chain, up>>
    BY <1>1 DEF SendRequestEnd, ServerCleansUp, ToClient
  <2> QED
    BY <2>3, <2>4, <2>5 DEF CallInv
<1>2. CASE AskCredit("ws.client")
  <2>1. chain'["ws.server"] = chain["ws.server"]
    BY <1>0, <1>2, TwoKinds DEF AskCredit, Done
  <2>2. pub # "none"
    BY <1>2 DEF AskCredit, CallInv
  <2> QED
    BY <1>2, <2>1, <2>2 DEF AskCredit, CallInv, endpoints, stream, receiver
<1>3. CASE SendData("ws.client")
  <2>1. chain["ws.client"] # <<>>
    BY <1>3, TwoKinds DEF SendData, StageInv
  <2>2. pub # "none" /\ Head(chain["ws.client"]) \in Nat /\ sent["ws.client"] \in Nat
    BY <1>0, <2>1, TwoKinds, Queued DEF CallInv
  <2>3. PICK f : f = [type |-> "data", seq |-> sent["ws.client"], msg |-> Head(chain["ws.client"])]
    OBVIOUS
  <2>4. /\ f \in Frame /\ f.type = "data" /\ down' = down \o <<f>> /\ up' = up
    BY <1>3, <2>2, <2>3, FrameTypes DEF SendData, Send, ToClient
  <2>5. /\ RequestFirst(down) => RequestFirst(down')
        /\ \A type : Has(down', type) => Has(down, type) \/ type = "data"
    BY <1>0, <2>4, Pushes
  <2>6. chain'["ws.server"] = chain["ws.server"]
    BY <1>0, <1>3, TwoKinds DEF SendData, Done
  <2> QED
    BY <1>3, <2>2, <2>4, <2>5, <2>6 DEF SendData, CallInv, endpoints, stream, receiver
<1>4. CASE PublicClosed
  <2>1. ends'["ws.server"] = ends["ws.server"] /\ pub # "none" /\ pub' # "none"
    BY <1>0, <1>4, TwoKinds DEF PublicClosed, DeclareEnd
  <2> QED
    BY <1>4, <2>1 DEF PublicClosed, CallInv, stream, receiver
<1> QED
  BY <1>1, <1>2, <1>3, <1>4

\* The data frame at the head of a link is one of its frames.
LEMMA HeadTypes ==
    ASSUME IInv, NEW k \in Kinds, Heads("data", Link(k))
    PROVE  /\ Head(Link(k)) \in Frames(Link(k)) /\ Bytes(k, Head(Link(k))) \in Nat
           /\ Head(Link(k)).msg \in 1..Len(said[k])
<1>1. Link(k) \in Seq(Frame) /\ Sorted(Link(k))
  BY TypedRest DEF IInv, FlowInv, SeqInv, Sequenced, Link
<1>2. Head(Link(k)) \in Frames(Link(k))
  BY <1>1, Leaves DEF Heads
<1> QED
  BY <1>2, MessageTypes

\* The server takes a frame.
LEMMA CallServerReceives ==
    ASSUME IInv,
           \/ ServerIgnores \/ ServerReceivesStart \/ ServerReceivesData
           \/ ServerReceivesEnd \/ ServerReceivesAbort \/ ServerReceivesCredit
    PROVE  CallInv'
<1> USE DEF IInv
<1>0. /\ pub \in Public /\ srv \in Server /\ cli \in Client
      /\ down \in Seq(Frame) /\ up \in Seq(Frame) /\ got \in [Kinds -> Seq(Nat)]
  BY Typed, TypedRest
<1>1. up # <<>> /\ up' = Tail(up)
  BY DEF ServerIgnores, ServerReceivesStart, ServerReceivesData, ServerReceivesEnd,
         ServerReceivesAbort, ServerReceivesCredit, Heads
<1>2. /\ \A type : Has(up', type) => Has(up, type)
      /\ Has(up, Head(up).type)
  BY <1>0, <1>1, Leaves
<1>p. /\ PublicClosing = "none" <=> pub = "none"
      /\ Awake = "none" <=> pub = "none"
  BY <1>0 DEF PublicClosing, Awake
<1>3. ASSUME UNCHANGED <<loc, said, cli, chain, ends, got, down>>,
             \/ (srv' = srv /\ (pub' = "none" <=> pub = "none"))
             \/ (srv' = "gone" /\ (pub' = "none" <=> pub = "none"))
      PROVE  CallInv'
  BY <1>2, <1>3 DEF CallInv
<1>4. CASE ServerIgnores
  BY <1>3, <1>4, <1>p DEF ServerIgnores, stream, sender
<1>5. CASE ServerReceivesStart
  <2>1. CASE ServerAborts
    BY <1>3, <1>5, <1>p, <2>1 DEF ServerReceivesStart, ServerAborts, ServerCleansUp
  <2>2. CASE srv' = "open" /\ pub' = "open"
    <3>1. cli \in {"open", "gone"}
      BY <1>2, <1>5 DEF ServerReceivesStart, Heads, CallInv
    <3> QED
      BY <1>2, <1>5, <2>2, <3>1 DEF ServerReceivesStart, CallInv
  <2> QED
    BY <1>5, <2>1, <2>2 DEF ServerReceivesStart
<1>6. CASE ServerReceivesEnd
  BY <1>3, <1>6, <1>p DEF ServerReceivesEnd, Fail, ServerCleansUp, endpoints, stream, sender
<1>7. CASE ServerReceivesAbort
  BY <1>3, <1>7, <1>p DEF ServerReceivesAbort, ServerAborts, ServerCleansUp
<1>8. CASE ServerReceivesCredit
  BY <1>3, <1>8, <1>p DEF ServerReceivesCredit, stream
<1>9. CASE ServerReceivesData
  <2> DEFINE frame == Head(up)
  <2>1. pub # "none" /\ cli \in {"open", "gone"} /\ srv = "open"
    BY <1>9 DEF ServerReceivesData, CallInv
  <2>5. Bytes("ws.server", frame) \in Nat
    BY <1>9, HeadTypes, TwoKinds DEF ServerReceivesData, Link
  <2>2. CASE UNCHANGED <<endpoints, stream, sender, down>>
    BY <1>3, <2>2 DEF endpoints, stream, sender
  <2>3. CASE ServerTakes(frame)
    <3>1. /\ UNCHANGED <<pub, loc, said, srv, cli, chain, ends>>
          /\ \/ down' = down
             \/ down' = down \o Credit(Bytes("ws.server", frame))
      BY <2>3 DEF ServerTakes, stream, sender
    <3>2. CASE down' = down
      BY <1>2, <2>1, <3>1, <3>2 DEF CallInv
    <3>3. CASE down' = down \o Credit(Bytes("ws.server", frame))
      <4>1. Credit(Bytes("ws.server", frame)) \in Seq(Frame)
            /\ \A type : Has(Credit(Bytes("ws.server", frame)), type) => type = "credit"
        BY <2>5, CreditFrames
      <4>2. /\ RequestFirst(down) => RequestFirst(down')
            /\ \A type : Has(down', type) => Has(down, type) \/ type = "credit"
        BY <1>0, <3>3, <4>1, Joins
      <4> QED
        BY <1>2, <2>1, <3>1, <4>2 DEF CallInv
    <3> QED
      BY <3>1, <3>2, <3>3
  <2>4. CASE ServerCannotSend(frame)
    <3>1. PICK f : f = [type |-> "abort"]
      OBVIOUS
    <3>2. f \in Frame /\ f.type = "abort" /\ down' = down \o <<f>>
      BY <1>0, <2>4, <3>1, FrameTypes, Pushes DEF ServerCannotSend
    <3>3. /\ RequestFirst(down) => RequestFirst(down')
          /\ \A type : Has(down', type) => Has(down, type) \/ type = "abort"
      BY <1>0, <3>2, Pushes
    <3>4. srv' = "gone" /\ pub' # "none" /\ UNCHANGED <<loc, said, got, cli, chain, ends>>
      BY <1>p, <2>1, <2>4 DEF ServerCannotSend, ServerAborts, ServerCleansUp
    <3> QED
      BY <1>2, <2>1, <3>3, <3>4 DEF CallInv
  <2>6. CASE ServerOverflows(frame)
    BY <1>2, <2>1, <2>6 DEF ServerOverflows, ServerCleansUp, CallInv
  <2> QED
    BY <1>9, <2>2, <2>3, <2>4, <2>6 DEF ServerReceivesData, Fail
<1> QED
  BY <1>4, <1>5, <1>6, <1>7, <1>8, <1>9

\* What the client sends of its own.
LEMMA CallClient ==
    ASSUME IInv,
           \/ SendResponseStart \/ SendResponseEnd
           \/ AskCredit("ws.server") \/ SendData("ws.server")
    PROVE  CallInv'
<1> USE DEF IInv
<1>0. /\ pub \in Public /\ srv \in Server /\ cli \in Client /\ up \in Seq(Frame)
      /\ chain \in [Kinds -> Seq(Nat)] /\ ends \in [Kinds -> Seq(Int)] /\ sent \in [Kinds -> Nat]
  BY Typed, TypedRest
<1>1. CASE SendResponseStart
  <2>1. PICK f : f = [type |-> "start"]
    OBVIOUS
  <2>2. /\ f \in Frame /\ f.type = "start" /\ up' = up \o <<f>> /\ down' = down
    BY <1>1, <2>1, FrameTypes DEF SendResponseStart, ToServer
  <2>3. \A type : Has(up', type) => Has(up, type) \/ type = "start"
    BY <1>0, <2>2, Pushes
  <2> QED
    BY <1>1, <2>2, <2>3 DEF SendResponseStart, CallInv, endpoints, sender, receiver
<1>2. CASE SendResponseEnd
  <2>1. PICK f : f = [type |-> "end", last |-> Head(ends["ws.server"])]
    OBVIOUS
  <2>2. /\ f \in Frame /\ f.type = "end" /\ up' = up \o <<f>> /\ down' = down
    BY <1>2, <2>1, TwoKinds, EndTypes, FrameTypes DEF SendResponseEnd, ToServer
  <2>3. \A type : Has(up', type) => Has(up, type) \/ type = "end"
    BY <1>0, <2>2, Pushes
  <2>4. ends'["ws.client"] = ends["ws.client"] /\ cli \in {"open", "gone"} /\ cli' = "gone"
    BY <1>0, <1>2, TwoKinds DEF SendResponseEnd, CallInv
  <2> QED
    BY <1>2, <2>2, <2>3, <2>4 DEF SendResponseEnd, CallInv, endpoints
<1>3. CASE AskCredit("ws.server")
  <2>1. chain'["ws.client"] = chain["ws.client"]
    BY <1>0, <1>3, TwoKinds DEF AskCredit, Done
  <2>2. cli \notin {"absent", "opening", "starting"}
    BY <1>3 DEF AskCredit, CallInv
  <2> QED
    BY <1>3, <2>1, <2>2 DEF AskCredit, CallInv, endpoints, stream, receiver
<1>4. CASE SendData("ws.server")
  <2>1. chain["ws.server"] # <<>>
    BY <1>4, TwoKinds DEF SendData, StageInv
  <2>2. /\ cli \notin {"absent", "opening", "starting"}
        /\ Head(chain["ws.server"]) \in Nat /\ sent["ws.server"] \in Nat
    <3>1. cli \notin {"absent", "opening", "starting"}
      BY <2>1 DEF CallInv
    <3>2. chain["ws.server"] \in Seq(Nat) /\ sent["ws.server"] \in Nat
      BY <1>0, TwoKinds
    <3> QED
      BY <2>1, <3>1, <3>2
  <2>3. PICK f : f = [type |-> "data", seq |-> sent["ws.server"], msg |-> Head(chain["ws.server"])]
    OBVIOUS
  <2>4. /\ f \in Frame /\ f.type = "data" /\ up' = up \o <<f>> /\ down' = down
    BY <1>4, <2>2, <2>3, FrameTypes DEF SendData, Send, ToServer
  <2>5. \A type : Has(up', type) => Has(up, type) \/ type = "data"
    BY <1>0, <2>4, Pushes
  <2>6. chain'["ws.client"] = chain["ws.client"]
    BY <1>0, <1>4, TwoKinds DEF SendData, Done
  <2> QED
    BY <1>4, <2>2, <2>4, <2>5, <2>6 DEF SendData, CallInv, endpoints, stream, receiver
<1> QED
  BY <1>1, <1>2, <1>3, <1>4

\* The client takes a frame.
LEMMA CallClientReceives ==
    ASSUME IInv,
           \/ ClientReceivesRequest \/ ClientIgnores \/ ClientReceivesData
           \/ ClientReceivesEnd \/ ClientReceivesAbort \/ ClientReceivesCredit
    PROVE  CallInv'
<1> USE DEF IInv
<1>0. /\ pub \in Public /\ srv \in Server /\ cli \in Client /\ loc \in Local
      /\ down \in Seq(Frame) /\ up \in Seq(Frame) /\ got \in [Kinds -> Seq(Nat)]
  BY Typed, TypedRest
<1>1. down # <<>> /\ down' = Tail(down)
  BY DEF ClientReceivesRequest, ClientIgnores, ClientReceivesData, ClientReceivesEnd,
         ClientReceivesAbort, ClientReceivesCredit, Heads
<1>2. /\ \A type : Has(down', type) => Has(down, type)
      /\ Has(down, Head(down).type) /\ RequestFirst(down') /\ ~Has(down', "request")
  BY <1>0, <1>1, Leaves DEF CallInv
<1>3. srv # "absent"
  BY <1>1 DEF CallInv
<1>p. /\ LocalClosing = "none" <=> loc = "none"
      /\ LocalClosing = "connecting" <=> loc = "connecting"
  BY <1>0 DEF LocalClosing, Local
<1>4. CASE ClientReceivesRequest
  <2>1. cli = "absent"
    BY <1>2, <1>4 DEF ClientReceivesRequest, Heads, CallInv
  <2> QED
    BY <1>2, <1>3, <1>4, <2>1 DEF ClientReceivesRequest, CallInv
<1>5. ASSUME UNCHANGED <<pub, srv, said, chain, ends, got, up>>,
             \/ cli' = cli \/ (cli \in {"open", "gone"} /\ cli' = "gone"),
             loc' = "none" <=> loc = "none", loc' = "connecting" <=> loc = "connecting"
      PROVE  CallInv'
  BY <1>2, <1>3, <1>5 DEF CallInv
<1>6. CASE ClientIgnores \/ ClientReceivesCredit
  BY <1>5, <1>6 DEF ClientIgnores, ClientReceivesCredit, endpoints, stream, sender
<1>7. CASE ClientReceivesEnd
  BY <1>5, <1>7, <1>p DEF ClientReceivesEnd, Fail, endpoints, stream, sender
<1>8. CASE ClientReceivesAbort
  <2>1. cli \in {"open", "gone"}
    BY <1>2, <1>8 DEF ClientReceivesAbort, Heads, CallInv
  <2> QED
    BY <1>5, <1>8, <1>p, <2>1 DEF ClientReceivesAbort, ClientAborts
<1>9. CASE ClientReceivesData
  <2> DEFINE frame == Head(down)
  <2>1. cli \in {"open", "gone"}
    BY <1>2, <1>9 DEF ClientReceivesData, Heads, CallInv
  <2>2. CASE UNCHANGED <<endpoints, stream, sender, up>>
    BY <1>5, <2>2 DEF endpoints, stream, sender
  <2>3. CASE ClientTakes(frame)
    <3>1. /\ UNCHANGED <<pub, said, srv, chain, ends>> /\ got'["ws.server"] = got["ws.server"]
      BY <1>0, <2>3, TwoKinds DEF ClientTakes, Delivered
    <3>2. /\ cli' \in {cli, "gone"}
          /\ loc' = "none" <=> loc = "none"
          /\ loc' = "connecting" <=> loc = "connecting"
      BY <1>p, <2>3 DEF ClientTakes, ClientAborts
    <3>3. Bytes("ws.client", frame) \in Nat
      BY <1>9, HeadTypes, TwoKinds DEF ClientReceivesData, Link
    <3>4. \A type : Has(up', type) => Has(up, type) \/ type \in {"credit", "abort"}
      <4>1. CASE Bytes("ws.client", frame) > 0
        <5>1. PICK more : more = Credit(Bytes("ws.client", frame))
          OBVIOUS
        <5>2. more \in Seq(Frame) /\ \A type : Has(more, type) => type = "credit"
          BY <3>3, <5>1, CreditFrames
        <5>3. up' = up \o more
          BY <2>3, <4>1, <5>1 DEF ClientTakes
        <5> QED
          BY <1>0, <5>2, <5>3, Joins
      <4>2. CASE ~(Bytes("ws.client", frame) > 0)
        <5>1. PICK f : f = [type |-> "abort"]
          OBVIOUS
        <5>2. f \in Frame /\ f.type = "abort" /\ up' = up \o <<f>>
          BY <1>0, <2>3, <4>2, <5>1, FrameTypes, Pushes DEF ClientTakes
        <5> QED
          BY <1>0, <5>2, Pushes
      <4> QED
        BY <4>1, <4>2
    <3> QED
      BY <1>2, <1>3, <2>1, <3>1, <3>2, <3>4 DEF CallInv
  <2> QED
    BY <1>9, <2>2, <2>3 DEF ClientReceivesData, Fail
<1> QED
  BY <1>4, <1>6, <1>7, <1>8, <1>9

\* What the endpoints do, and time.
LEMMA CallEndpoints ==
    ASSUME IInv, Endpoints \/ Timeouts
    PROVE  CallInv'
<1> USE DEF IInv
<1>0. /\ pub \in Public /\ srv \in Server /\ cli \in Client /\ loc \in Local
      /\ down \in Seq(Frame) /\ up \in Seq(Frame)
      /\ said \in [Kinds -> Seq(Nat)] /\ chain \in [Kinds -> Seq(Nat)]
      /\ ends \in [Kinds -> Seq(Int)]
  BY Typed, TypedRest
<1>p. /\ PublicClosing = "none" <=> pub = "none"
      /\ Awake = "none" <=> pub = "none"
  BY <1>0 DEF PublicClosing, Awake
<1>1. CASE PublicConnects
  <2>1. PICK f : f = [type |-> "request"]
    OBVIOUS
  <2>2. /\ f \in Frame /\ f.type = "request" /\ down' = down \o <<f>> /\ up' = up /\ down = <<>>
    BY <1>1, <2>1, FrameTypes DEF PublicConnects, ToClient, CallInv
  <2>3. down' = <<f>>
    BY <2>2
  <2>4. RequestFirst(down') /\ \A type : Has(down', type) => type = "request"
    <3>1. DOMAIN <<f>> = {1}
      OBVIOUS
    <3> QED
      BY <2>2, <2>3, <3>1, Single DEF RequestFirst
  <2> QED
    BY <1>1, <2>2, <2>4 DEF PublicConnects, CallInv, endpoints
<1>2. CASE PublicLeaves \/ PublicBreaks \/ OtherEvent
  BY <1>2, <1>p DEF PublicLeaves, PublicBreaks, OtherEvent, CallInv, stream, sender
<1>3. CASE StartTimeout \/ PendingTimeout
  BY <1>3, <1>p DEF StartTimeout, PendingTimeout, ServerAborts, ServerCleansUp, CallInv
<1>4. CASE Hibernate
  BY <1>4 DEF Hibernate, CallInv, endpoints
<1>5. CASE LocalAccepts
  BY <1>5 DEF LocalAccepts, CallInv, sender
<1>6. CASE LocalRefuses
  <2>1. PICK f : f = [type |-> "abort"]
    OBVIOUS
  <2>2. /\ f \in Frame /\ f.type = "abort" /\ up' = up \o <<f>> /\ down' = down
    BY <1>6, <2>1, FrameTypes DEF LocalRefuses, ToServer
  <2>3. \A type : Has(up', type) => Has(up, type) \/ type = "abort"
    BY <1>0, <2>2, Pushes
  <2> QED
    BY <1>6, <2>2, <2>3 DEF LocalRefuses, CallInv
<1>7. CASE LocalCloses
  <2>1. ends'["ws.client"] = ends["ws.client"]
    BY <1>0, <1>7, TwoKinds DEF LocalCloses, DeclareEnd
  <2> QED
    BY <1>7, <2>1 DEF LocalCloses, CallInv, stream
<1>8. ASSUME NEW bytes \in Sizes["ws.client"], PublicSends(bytes) PROVE CallInv'
  <2>1. pub # "none" /\ pub' # "none" /\ UNCHANGED <<loc, got, srv, cli, down, up>>
    BY <1>8, <1>p DEF PublicSends, stream
  <2>2. ends'["ws.server"] = ends["ws.server"] /\ chain'["ws.server"] = chain["ws.server"]
    BY <1>0, <1>8, TwoKinds DEF PublicSends, DeclareEnd, Enqueue
  <2> QED
    BY <2>1, <2>2 DEF CallInv
<1>9. ASSUME NEW bytes \in Sizes["ws.server"], LocalSends(bytes) PROVE CallInv'
  <2>1. /\ UNCHANGED <<pub, got, srv, cli, ends, down, up>>
        /\ loc \in {"open", "closing"} /\ loc' \in {loc, "closing"}
    BY <1>9 DEF LocalSends, stream
  <2>2. said'["ws.client"] = said["ws.client"] /\ chain'["ws.client"] = chain["ws.client"]
    BY <1>0, <1>9, TwoKinds DEF LocalSends, Speaks, Enqueue
  <2>3. cli = "open" \/ UNCHANGED chain
    BY <1>9 DEF LocalSends
  <2> QED
    BY <2>1, <2>2, <2>3 DEF CallInv
<1> QED
  BY <1>1, <1>2, <1>3, <1>4, <1>5, <1>6, <1>7, <1>8, <1>9 DEF Endpoints, Timeouts

-----------------------------------------------------------------------------
(* Every step keeps the types.                                                 *)

\* The server's own steps and those of the public client keep the types.
LEMMA TypeServer ==
    ASSUME IInv,
           \/ SendRequestEnd \/ PublicClosed
           \/ StartTimeout \/ PendingTimeout \/ Hibernate \/ OtherEvent
           \/ PublicConnects \/ PublicLeaves \/ PublicBreaks
    PROVE  TypeInv'
<1> USE TwoKinds DEF IInv
<1>t. /\ said \in [Kinds -> Seq(Nat)] /\ got \in [Kinds -> Seq(Nat)]
      /\ chain \in [Kinds -> Seq(Nat)] /\ stage \in [Kinds -> Stage]
      /\ ends \in [Kinds -> Seq(Int)] /\ sent \in [Kinds -> Nat]
      /\ out \in [Kinds -> Nat] /\ next \in [Kinds -> Nat] /\ in \in [Kinds -> Nat]
      /\ pub \in Public /\ loc \in Local /\ srv \in Server /\ cli \in Client
      /\ held \in Seq(Nat) /\ down \in Seq(Frame) /\ up \in Seq(Frame)
      /\ fault \in {"none", "credit.violation", "seq.discontinuity", "lastSeq.mismatch"}
  BY DEF TypeInv, TypeOK
<1>p. /\ PublicClosing \in Public /\ Awake \in Public /\ "left" \in Public /\ "closed" \in Public
      /\ "gone" \in Server /\ "forgotten" \in Server /\ "connecting" \in Server
      /\ <<>> \in Seq(Nat)
  BY SocketTypes DEF Public, Server
<1>a. ServerCleansUp => /\ out' \in [Kinds -> Nat] /\ in' \in [Kinds -> Nat]
                        /\ stage' \in [Kinds -> Stage] /\ srv' \in Server /\ held' \in Seq(Nat)
  BY <1>p, CreditTypes DEF ServerCleansUp
<1>1. CASE SendRequestEnd
  <2>1. PICK f : f = [type |-> "end", last |-> Head(ends["ws.client"])]
    OBVIOUS
  <2>2. /\ f \in Frame /\ down' = down \o <<f>> /\ up' = up
        /\ ends' = [ends EXCEPT !["ws.client"] = Tail(@)] /\ pub' = PublicClosing
        /\ ends["ws.client"] # <<>>
    BY <1>1, <2>1, EndTypes, FrameTypes DEF SendRequestEnd, ToClient
  <2>3. ends' \in [Kinds -> Seq(Int)] /\ down' \in Seq(Frame)
    BY <1>t, <2>2, EndTypes, Pushes
  <2>4. ServerCleansUp \/ UNCHANGED <<srv, held, out, in, stage>>
    BY <1>1 DEF SendRequestEnd
  <2>5. UNCHANGED <<loc, said, got, cli, chain, sent, next, fault>>
    BY <1>1 DEF SendRequestEnd
  <2> QED
    BY <1>t, <1>p, <1>a, <2>2, <2>3, <2>4, <2>5 DEF TypeInv, TypeOK
<1>2. CASE PublicClosed
  <2>1. ends' \in [Kinds -> Seq(Int)]
    BY <1>t, <1>2, EndTypes DEF PublicClosed
  <2> QED
    BY <1>t, <1>p, <1>2, <2>1 DEF PublicClosed, stream, receiver, TypeInv, TypeOK
<1>3. CASE StartTimeout
  BY <1>t, <1>p, <1>a, <1>3 DEF StartTimeout, ServerAborts, TypeInv, TypeOK
<1>4. CASE PendingTimeout
  BY <1>t, <1>p, <1>a, <1>4 DEF PendingTimeout, ServerAborts, TypeInv, TypeOK
<1>5. CASE Hibernate
  <2>1. /\ out' \in [Kinds -> Nat] /\ in' \in [Kinds -> Nat] /\ stage' \in [Kinds -> Stage]
    BY <1>5, CreditTypes DEF Hibernate
  <2> QED
    BY <1>t, <1>p, <1>5, <2>1 DEF Hibernate, endpoints, TypeInv, TypeOK
<1>6. CASE OtherEvent
  BY <1>t, <1>p, <1>6 DEF OtherEvent, stream, sender, receiver, TypeInv, TypeOK
<1>7. CASE PublicConnects
  <2>1. PICK f : f = [type |-> "request"]
    OBVIOUS
  <2>2. f \in Frame /\ down' = down \o <<f>> /\ up' = up
    BY <1>7, <2>1, FrameTypes DEF PublicConnects, ToClient
  <2>3. out' \in [Kinds -> Nat] /\ in' \in [Kinds -> Nat] /\ down' \in Seq(Frame)
    BY <1>t, <1>7, <2>2, CreditTypes, Pushes DEF PublicConnects
  <2> QED
    BY <1>t, <1>p, <1>7, <2>2, <2>3 DEF PublicConnects, endpoints, TypeInv, TypeOK
<1>8. CASE PublicLeaves
  BY <1>t, <1>p, <1>8 DEF PublicLeaves, stream, sender, receiver, TypeInv, TypeOK
<1>9. CASE PublicBreaks
  BY <1>t, <1>p, <1>9 DEF PublicBreaks, stream, sender, receiver, TypeInv, TypeOK
<1> QED
  BY <1>1, <1>2, <1>3, <1>4, <1>5, <1>6, <1>7, <1>8, <1>9

\* The send chains, on either side.
LEMMA TypeSends ==
    ASSUME IInv, NEW k \in Kinds, Sends(k)
    PROVE  TypeInv'
<1> USE DEF IInv
<1>t. /\ chain \in [Kinds -> Seq(Nat)] /\ stage \in [Kinds -> Stage]
      /\ sent \in [Kinds -> Nat] /\ out \in [Kinds -> Nat]
      /\ down \in Seq(Frame) /\ up \in Seq(Frame)
      /\ "idle" \in Stage /\ "cleared" \in Stage /\ "waiting" \in Stage
  BY Typed, TypedRest DEF Stage
<1>1. CASE AskCredit(k)
  <2>1. chain' \in [Kinds -> Seq(Nat)] /\ stage' \in [Kinds -> Stage]
    <3>1. CASE CanSend(k)
      <4>1. chain' = chain /\ stage' = [stage EXCEPT ![k] =
                                            IF HasOutbound(k) THEN "cleared" ELSE "waiting"]
        BY <1>1, <3>1 DEF AskCredit
      <4> QED
        BY <1>t, <4>1
    <3>2. CASE ~CanSend(k)
      <4>1. chain[k] # <<>> /\ Done(k) /\ stage' = [stage EXCEPT ![k] = "idle"]
        BY <1>1, <3>2 DEF AskCredit
      <4> QED
        BY <1>t, <4>1, DoneTypes, Updated
    <3> QED
      BY <3>1, <3>2
  <2>2. UNCHANGED <<endpoints, stream, ends, sent, out, receiver, down, up, fault>>
    BY <1>1 DEF AskCredit
  <2> QED
    BY <2>1, <2>2 DEF endpoints, stream, receiver, TypeInv, TypeOK
<1>2. CASE SendData(k)
  <2>1. chain[k] # <<>>
    BY <1>2 DEF SendData, StageInv
  <2>2. chain' \in [Kinds -> Seq(Nat)] /\ Head(chain[k]) \in Nat /\ sent[k] \in Nat
    BY <1>t, <1>2, <2>1, DoneTypes DEF SendData
  <2>3. PICK f : f = [type |-> "data", seq |-> sent[k], msg |-> Head(chain[k])]
    OBVIOUS
  <2>4. f \in Frame /\ ((down' = down \o <<f>> /\ up' = up) \/ (up' = up \o <<f>> /\ down' = down))
    BY <1>2, <2>2, <2>3, FrameTypes DEF SendData, Send, ToClient, ToServer
  <2>5. down' \in Seq(Frame) /\ up' \in Seq(Frame)
    BY <1>t, <2>4, Pushes
  <2>6. stage' \in [Kinds -> Stage] /\ sent' \in [Kinds -> Nat]
    <3>1. sent[k] + 1 \in Nat
      BY <2>2
    <3> QED
      BY <1>t, <1>2, <3>1, Updated DEF SendData
  <2>7. out' \in [Kinds -> Nat]
    <3>1. (IF HasOutbound(k) THEN out[k] - Size(k) ELSE out[k]) \in Nat
      <4>1. Size(k) \in Nat /\ out[k] \in Nat
        BY <1>t, <2>1, MessageTypes
      <4> QED
        BY <4>1 DEF HasOutbound
    <3> QED
      BY <1>t, <1>2, <3>1, Updated DEF SendData
  <2>8. UNCHANGED <<endpoints, stream, ends, receiver, fault>>
    BY <1>2 DEF SendData
  <2> QED
    BY <2>2, <2>5, <2>6, <2>7, <2>8 DEF endpoints, stream, receiver, TypeInv, TypeOK
<1> QED
  BY <1>1, <1>2 DEF Sends

\* What the server reads keeps the types.
LEMMA TypeServerReceives ==
    ASSUME IInv,
           \/ ServerIgnores \/ ServerReceivesStart \/ ServerReceivesData
           \/ ServerReceivesEnd \/ ServerReceivesAbort \/ ServerReceivesCredit
    PROVE  TypeInv'
<1> USE TwoKinds DEF IInv
<1>t. /\ said \in [Kinds -> Seq(Nat)] /\ got \in [Kinds -> Seq(Nat)]
      /\ chain \in [Kinds -> Seq(Nat)] /\ stage \in [Kinds -> Stage]
      /\ ends \in [Kinds -> Seq(Int)] /\ sent \in [Kinds -> Nat]
      /\ out \in [Kinds -> Nat] /\ next \in [Kinds -> Nat] /\ in \in [Kinds -> Nat]
      /\ pub \in Public /\ loc \in Local /\ srv \in Server /\ cli \in Client
      /\ held \in Seq(Nat) /\ down \in Seq(Frame) /\ up \in Seq(Frame)
      /\ fault \in {"none", "credit.violation", "seq.discontinuity", "lastSeq.mismatch"}
  BY DEF TypeInv, TypeOK
<1>p. /\ PublicClosing \in Public /\ Awake \in Public /\ "open" \in Public
      /\ "gone" \in Server /\ "open" \in Server /\ <<>> \in Seq(Nat)
  BY SocketTypes DEF Public, Server
<1>a. ServerCleansUp => /\ out' \in [Kinds -> Nat] /\ in' \in [Kinds -> Nat]
                        /\ stage' \in [Kinds -> Stage] /\ srv' \in Server /\ held' \in Seq(Nat)
  BY <1>p, CreditTypes DEF ServerCleansUp
<1>u. up' \in Seq(Frame) /\ up # <<>>
  BY <1>t, Leaves DEF ServerIgnores, ServerReceivesStart, ServerReceivesData, ServerReceivesEnd,
         ServerReceivesAbort, ServerReceivesCredit, Heads
<1>1. CASE ServerIgnores
  BY <1>t, <1>p, <1>u, <1>1 DEF ServerIgnores, stream, sender, receiver, TypeInv, TypeOK
<1>2. CASE ServerReceivesStart
  <2>1. CASE ServerAborts
    BY <1>t, <1>p, <1>a, <1>u, <1>2, <2>1 DEF ServerReceivesStart, ServerAborts, TypeInv, TypeOK
  <2>2. CASE srv' = "open" /\ pub' = "open" /\ UNCHANGED <<out, in, stage, held>>
    BY <1>t, <1>p, <1>u, <1>2, <2>2 DEF ServerReceivesStart, TypeInv, TypeOK
  <2> QED
    BY <1>2, <2>1, <2>2 DEF ServerReceivesStart
<1>f. ASSUME NEW why \in {"credit.violation", "seq.discontinuity", "lastSeq.mismatch"},
             Fail(why), UNCHANGED down
      PROVE  TypeInv'
  BY <1>t, <1>u, <1>f DEF Fail, endpoints, stream, sender, receiver, TypeInv, TypeOK
<1>3. CASE ServerReceivesEnd
  <2>1. CASE ServerCleansUp
    BY <1>t, <1>p, <1>a, <1>u, <1>3, <2>1, <1>f DEF ServerReceivesEnd, TypeInv, TypeOK
  <2> QED
    BY <1>3, <1>f, <2>1 DEF ServerReceivesEnd
<1>4. CASE ServerReceivesAbort
  BY <1>t, <1>p, <1>a, <1>u, <1>4 DEF ServerReceivesAbort, ServerAborts, TypeInv, TypeOK
<1>5. CASE ServerReceivesCredit
  <2>1. Head(up) \in Frame /\ Head(up).type = "credit"
    BY <1>t, <1>u, <1>5, Leaves DEF ServerReceivesCredit, Heads
  <2>2. Head(up).bytes \in Nat
    BY <2>1 DEF Frame
  <2>3. out["ws.client"] + Head(up).bytes \in Nat
    BY <2>2, Numbers
  <2>4. out' \in [Kinds -> Nat] /\ stage' \in [Kinds -> Stage]
    BY <1>t, <1>5, <2>3, Updated, CreditTypes DEF ServerReceivesCredit, Granted
  <2> QED
    BY <1>t, <1>p, <1>u, <1>5, <2>4 DEF ServerReceivesCredit, stream, receiver, TypeInv, TypeOK
<1>6. CASE ServerReceivesData
  <2> DEFINE frame == Head(up)
  <2>1. frame.msg \in Nat /\ Bytes("ws.server", frame) \in Nat
    BY <1>6, HeadTypes DEF ServerReceivesData, Link
  <2>2. next["ws.server"] + 1 \in Nat
    BY Numbers
  <2>3. Consume("ws.server", frame) => next' \in [Kinds -> Nat]
    BY <1>t, <2>2, Updated DEF Consume
  <2>4. CASE ServerTakes(frame) /\ ~(Bytes("ws.server", frame) > in["ws.server"])
    <3>1. UNCHANGED <<pub, loc, said, stream, sender, fault>> /\ next' \in [Kinds -> Nat]
      BY <2>3, <2>4 DEF ServerTakes
    <3>2. CASE pub = "open"
      <4>1. /\ Delivered("ws.server", frame) /\ UNCHANGED <<in, held>>
            /\ down' = down \o Credit(Bytes("ws.server", frame))
        BY <2>4, <3>2 DEF ServerTakes
      <4>2. got' \in [Kinds -> Seq(Nat)]
        <5>1. Append(got["ws.server"], frame.msg) \in Seq(Nat)
          BY <1>t, <2>1, Queued
        <5> QED
          BY <1>t, <4>1, <5>1, Updated DEF Delivered
      <4>3. down' \in Seq(Frame)
        BY <1>t, <2>1, <4>1, CreditFrames, Concatenated
      <4> QED
        BY <1>t, <1>u, <3>1, <4>1, <4>2, <4>3 DEF stream, sender, TypeInv, TypeOK
    <3>3. CASE pub # "open"
      <4>1. /\ held' = Append(held, frame.msg) /\ UNCHANGED <<got, down>>
            /\ in' = [in EXCEPT !["ws.server"] = @ - Bytes("ws.server", frame)]
        BY <2>4, <3>3 DEF ServerTakes
      <4>2. held' \in Seq(Nat)
        BY <1>t, <2>1, <4>1, Queued
      <4>3. in' \in [Kinds -> Nat]
        <5>1. in["ws.server"] - Bytes("ws.server", frame) \in Nat
          BY <2>1, <2>4, Numbers
        <5> QED
          BY <1>t, <4>1, <5>1, Updated
      <4> QED
        BY <1>t, <1>u, <3>1, <4>1, <4>2, <4>3 DEF stream, sender, TypeInv, TypeOK
    <3> QED
      BY <3>2, <3>3
  <2>5. CASE ServerCannotSend(frame)
    <3>1. PICK f : f = [type |-> "abort"]
      OBVIOUS
    <3>2. f \in Frame /\ down' = down \o <<f>>
      BY <1>t, <2>5, <3>1, FrameTypes, Pushes DEF ServerCannotSend
    <3>3. down' \in Seq(Frame) /\ next' \in [Kinds -> Nat]
      BY <1>t, <2>3, <2>5, <3>2, Pushes DEF ServerCannotSend
    <3> QED
      BY <1>t, <1>p, <1>a, <1>u, <2>5, <3>3 DEF ServerCannotSend, ServerAborts, TypeInv, TypeOK
  <2>6. CASE ServerOverflows(frame)
    <3>1. "unheard" \in Public /\ next' \in [Kinds -> Nat]
      BY <2>3, <2>6 DEF ServerOverflows, Public
    <3> QED
      BY <1>t, <1>a, <1>u, <2>6, <3>1 DEF ServerOverflows, TypeInv, TypeOK
  <2> QED
    BY <1>6, <1>f, <2>4, <2>5, <2>6 DEF ServerReceivesData
<1> QED
  BY <1>1, <1>2, <1>3, <1>4, <1>5, <1>6

\* The client's own steps and those of the local server keep the types.
LEMMA TypeClient ==
    ASSUME IInv,
           \/ SendResponseStart \/ SendResponseEnd \/ LocalAccepts \/ LocalRefuses \/ LocalCloses
           \/ (\E bytes \in Sizes["ws.client"] : PublicSends(bytes))
           \/ (\E bytes \in Sizes["ws.server"] : LocalSends(bytes))
    PROVE  TypeInv'
<1> USE TwoKinds DEF IInv
<1>t. /\ said \in [Kinds -> Seq(Nat)] /\ got \in [Kinds -> Seq(Nat)]
      /\ chain \in [Kinds -> Seq(Nat)] /\ stage \in [Kinds -> Stage]
      /\ ends \in [Kinds -> Seq(Int)] /\ sent \in [Kinds -> Nat]
      /\ out \in [Kinds -> Nat] /\ next \in [Kinds -> Nat] /\ in \in [Kinds -> Nat]
      /\ pub \in Public /\ loc \in Local /\ srv \in Server /\ cli \in Client
      /\ held \in Seq(Nat) /\ down \in Seq(Frame) /\ up \in Seq(Frame)
      /\ fault \in {"none", "credit.violation", "seq.discontinuity", "lastSeq.mismatch"}
  BY DEF TypeInv, TypeOK
<1>p. /\ "gone" \in Client /\ "starting" \in Client /\ "open" \in Client
      /\ "open" \in Local /\ "closed" \in Local /\ "closing" \in Local
      /\ Awake \in Public /\ "closing" \in Public
  BY SocketTypes DEF Public, Local, Client
<1>1. CASE SendResponseStart
  <2>1. PICK f : f = [type |-> "start"]
    OBVIOUS
  <2>2. f \in Frame /\ up' = up \o <<f>> /\ down' = down
    BY <1>1, <2>1, FrameTypes DEF SendResponseStart, ToServer
  <2>3. up' \in Seq(Frame)
    BY <1>t, <2>2, Pushes
  <2> QED
    BY <1>t, <1>p, <1>1, <2>2, <2>3
    DEF SendResponseStart, endpoints, sender, receiver, TypeInv, TypeOK
<1>2. CASE SendResponseEnd
  <2>1. PICK f : f = [type |-> "end", last |-> Head(ends["ws.server"])]
    OBVIOUS
  <2>2. /\ f \in Frame /\ up' = up \o <<f>> /\ down' = down
        /\ ends' = [ends EXCEPT !["ws.server"] = Tail(@)] /\ ends["ws.server"] # <<>>
    BY <1>2, <2>1, EndTypes, FrameTypes DEF SendResponseEnd, ToServer
  <2>3. ends' \in [Kinds -> Seq(Int)] /\ up' \in Seq(Frame)
    BY <1>t, <2>2, EndTypes, Pushes
  <2>4. \/ UNCHANGED <<cli, out, in, stage>>
        \/ cli' = "gone" /\ CreditsGo("ws.server")
    BY <1>2 DEF SendResponseEnd
  <2>5. /\ out' \in [Kinds -> Nat] /\ in' \in [Kinds -> Nat] /\ stage' \in [Kinds -> Stage]
        /\ cli' \in Client
    BY <1>t, <1>p, <2>4, CreditTypes
  <2>6. UNCHANGED <<endpoints, srv, chain, sent, next, held, fault>>
    BY <1>2 DEF SendResponseEnd
  <2> QED
    BY <1>t, <2>2, <2>3, <2>5, <2>6 DEF endpoints, TypeInv, TypeOK
<1>3. CASE LocalAccepts
  BY <1>t, <1>p, <1>3 DEF LocalAccepts, sender, receiver, TypeInv, TypeOK
<1>4. CASE LocalRefuses
  <2>1. PICK f : f = [type |-> "abort"]
    OBVIOUS
  <2>2. f \in Frame /\ up' = up \o <<f>> /\ down' = down
    BY <1>4, <2>1, FrameTypes DEF LocalRefuses, ToServer
  <2>3. /\ out' \in [Kinds -> Nat] /\ in' \in [Kinds -> Nat] /\ stage' \in [Kinds -> Stage]
        /\ up' \in Seq(Frame)
    BY <1>t, <1>4, <2>2, CreditTypes, Pushes DEF LocalRefuses
  <2> QED
    BY <1>t, <1>p, <1>4, <2>2, <2>3 DEF LocalRefuses, TypeInv, TypeOK
<1>5. CASE LocalCloses
  <2>1. ends' \in [Kinds -> Seq(Int)]
    BY <1>t, <1>5, EndTypes DEF LocalCloses
  <2> QED
    BY <1>t, <1>p, <1>5, <2>1 DEF LocalCloses, stream, receiver, TypeInv, TypeOK
<1>6. ASSUME NEW bytes \in Sizes["ws.client"], PublicSends(bytes) PROVE TypeInv'
  <2>1. bytes \in Nat /\ Speaks("ws.client", bytes)
    BY <1>6, SizesAssumption DEF PublicSends
  <2>2. said' \in [Kinds -> Seq(Nat)] /\ (Enqueue("ws.client") => chain' \in [Kinds -> Seq(Nat)])
    BY <2>1, SayTypes
  <2>3. \/ pub' = Awake /\ UNCHANGED <<chain, ends>>
        \/ pub' = "closing" /\ DeclareEnd("ws.client") /\ UNCHANGED chain
        \/ Enqueue("ws.client") /\ UNCHANGED <<pub, ends>>
    BY <1>6 DEF PublicSends
  <2>4. pub' \in Public /\ chain' \in [Kinds -> Seq(Nat)] /\ ends' \in [Kinds -> Seq(Int)]
    BY <1>t, <1>p, <2>2, <2>3, EndTypes
  <2>5. UNCHANGED <<loc, got, stream, stage, sent, out, receiver, down, up, fault>>
    BY <1>6 DEF PublicSends
  <2> QED
    BY <1>t, <2>2, <2>4, <2>5 DEF stream, receiver, TypeInv, TypeOK
<1>7. ASSUME NEW bytes \in Sizes["ws.server"], LocalSends(bytes) PROVE TypeInv'
  <2>1. bytes \in Nat /\ Speaks("ws.server", bytes)
    BY <1>7, SizesAssumption DEF LocalSends
  <2>2. said' \in [Kinds -> Seq(Nat)] /\ (Enqueue("ws.server") => chain' \in [Kinds -> Seq(Nat)])
    BY <2>1, SayTypes
  <2>3. \/ UNCHANGED <<loc, chain>>
        \/ loc' = "closing" /\ UNCHANGED chain
        \/ Enqueue("ws.server") /\ UNCHANGED loc
    BY <1>7 DEF LocalSends
  <2>4. loc' \in Local /\ chain' \in [Kinds -> Seq(Nat)]
    BY <1>t, <1>p, <2>2, <2>3
  <2>5. UNCHANGED <<pub, got, stream, stage, ends, sent, out, receiver, down, up, fault>>
    BY <1>7 DEF LocalSends
  <2> QED
    BY <1>t, <2>2, <2>4, <2>5 DEF stream, receiver, TypeInv, TypeOK
<1> QED
  BY <1>1, <1>2, <1>3, <1>4, <1>5, <1>6, <1>7

\* What the client reads keeps the types.
LEMMA TypeClientReceives ==
    ASSUME IInv,
           \/ ClientReceivesRequest \/ ClientIgnores \/ ClientReceivesData
           \/ ClientReceivesEnd \/ ClientReceivesAbort \/ ClientReceivesCredit
    PROVE  TypeInv'
<1> USE TwoKinds DEF IInv
<1>t. /\ said \in [Kinds -> Seq(Nat)] /\ got \in [Kinds -> Seq(Nat)]
      /\ chain \in [Kinds -> Seq(Nat)] /\ stage \in [Kinds -> Stage]
      /\ ends \in [Kinds -> Seq(Int)] /\ sent \in [Kinds -> Nat]
      /\ out \in [Kinds -> Nat] /\ next \in [Kinds -> Nat] /\ in \in [Kinds -> Nat]
      /\ pub \in Public /\ loc \in Local /\ srv \in Server /\ cli \in Client
      /\ held \in Seq(Nat) /\ down \in Seq(Frame) /\ up \in Seq(Frame)
      /\ fault \in {"none", "credit.violation", "seq.discontinuity", "lastSeq.mismatch"}
  BY DEF TypeInv, TypeOK
<1>p. /\ LocalClosing \in Local /\ "connecting" \in Local
      /\ "gone" \in Client /\ "opening" \in Client
  BY SocketTypes DEF Local, Client
<1>a. ClientAborts => /\ out' \in [Kinds -> Nat] /\ in' \in [Kinds -> Nat]
                      /\ stage' \in [Kinds -> Stage] /\ cli' \in Client /\ loc' \in Local
                      /\ UNCHANGED held
  BY <1>p, CreditTypes DEF ClientAborts
<1>u. down' \in Seq(Frame) /\ down # <<>>
  BY <1>t, Leaves DEF ClientReceivesRequest, ClientIgnores, ClientReceivesData, ClientReceivesEnd,
         ClientReceivesAbort, ClientReceivesCredit, Heads
<1>1. CASE ClientReceivesRequest
  <2>1. out' \in [Kinds -> Nat] /\ in' \in [Kinds -> Nat]
    BY <1>1, CreditTypes DEF ClientReceivesRequest
  <2> QED
    BY <1>t, <1>p, <1>u, <1>1, <2>1 DEF ClientReceivesRequest, TypeInv, TypeOK
<1>2. CASE ClientIgnores
  BY <1>t, <1>u, <1>2 DEF ClientIgnores, endpoints, stream, sender, receiver, TypeInv, TypeOK
<1>f. ASSUME NEW why \in {"credit.violation", "seq.discontinuity", "lastSeq.mismatch"},
             Fail(why), UNCHANGED up
      PROVE  TypeInv'
  BY <1>t, <1>u, <1>f DEF Fail, endpoints, stream, sender, receiver, TypeInv, TypeOK
<1>3. CASE ClientReceivesEnd
  <2>1. CASE loc' = LocalClosing /\ UNCHANGED <<pub, said, got, stream, sender, receiver, fault>>
    BY <1>t, <1>p, <1>u, <1>3, <2>1
    DEF ClientReceivesEnd, stream, sender, receiver, TypeInv, TypeOK
  <2> QED
    BY <1>3, <1>f, <2>1 DEF ClientReceivesEnd
<1>4. CASE ClientReceivesAbort
  BY <1>t, <1>a, <1>u, <1>4 DEF ClientReceivesAbort, TypeInv, TypeOK
<1>5. CASE ClientReceivesCredit
  <2>1. Head(down) \in Frame /\ Head(down).type = "credit"
    BY <1>t, <1>u, <1>5, Leaves DEF ClientReceivesCredit, Heads
  <2>2. Head(down).bytes \in Nat
    BY <2>1 DEF Frame
  <2>3. out["ws.server"] + Head(down).bytes \in Nat
    BY <2>2, Numbers
  <2>4. out' \in [Kinds -> Nat] /\ stage' \in [Kinds -> Stage]
    BY <1>t, <1>5, <2>3, Updated, CreditTypes DEF ClientReceivesCredit, Granted
  <2> QED
    BY <1>t, <1>u, <1>5, <2>4
    DEF ClientReceivesCredit, endpoints, stream, receiver, TypeInv, TypeOK
<1>6. CASE ClientReceivesData
  <2> DEFINE frame == Head(down)
  <2>1. frame.msg \in Nat /\ Bytes("ws.client", frame) \in Nat
    BY <1>6, HeadTypes DEF ClientReceivesData, Link
  <2>2. next["ws.client"] + 1 \in Nat
    BY Numbers
  <2>3. Consume("ws.client", frame) => next' \in [Kinds -> Nat]
    BY <1>t, <2>2, Updated DEF Consume
  <2>4. CASE ClientTakes(frame)
    <3>1. UNCHANGED <<pub, said, srv, chain, ends, sent, fault>> /\ next' \in [Kinds -> Nat]
      BY <2>3, <2>4 DEF ClientTakes
    <3>2. got' \in [Kinds -> Seq(Nat)]
      <4>1. Append(got["ws.client"], frame.msg) \in Seq(Nat)
        BY <1>t, <2>1, Queued
      <4>2. [got EXCEPT !["ws.client"] = Append(@, frame.msg)] \in [Kinds -> Seq(Nat)]
        BY <1>t, <4>1, Updated
      <4>3. got' = got \/ got' = [got EXCEPT !["ws.client"] = Append(@, frame.msg)]
        BY <2>4 DEF ClientTakes, Delivered
      <4> QED
        BY <1>t, <4>2, <4>3
    <3>3. CASE Bytes("ws.client", frame) > 0
      <4>1. UNCHANGED <<loc, cli, out, in, stage, held>>
            /\ up' = up \o Credit(Bytes("ws.client", frame))
        BY <2>4, <3>3 DEF ClientTakes
      <4>2. up' \in Seq(Frame)
        BY <1>t, <2>1, <4>1, CreditFrames, Concatenated
      <4> QED
        BY <1>t, <1>u, <3>1, <3>2, <4>1, <4>2 DEF TypeInv, TypeOK
    <3>4. CASE ~(Bytes("ws.client", frame) > 0)
      <4>1. PICK f : f = [type |-> "abort"]
        OBVIOUS
      <4>2. f \in Frame /\ up' = up \o <<f>> /\ ClientAborts
        BY <1>t, <2>4, <3>4, <4>1, FrameTypes, Pushes DEF ClientTakes
      <4>3. up' \in Seq(Frame)
        BY <1>t, <4>2, Pushes
      <4> QED
        BY <1>t, <1>a, <1>u, <3>1, <3>2, <4>2, <4>3 DEF TypeInv, TypeOK
    <3> QED
      BY <3>3, <3>4
  <2> QED
    BY <1>6, <1>f, <2>4 DEF ClientReceivesData
<1> QED
  BY <1>1, <1>2, <1>3, <1>4, <1>5, <1>6

\* Every step keeps the types and the order of calls.
LEMMA TypeStep == IInv /\ Next => TypeInv' /\ CallInv'
<1> SUFFICES ASSUME IInv, Next PROVE TypeInv' /\ CallInv'
  OBVIOUS
<1>1. TypeInv'
  BY TwoKinds, TypeServer, TypeSends, TypeServerReceives, TypeClient, TypeClientReceives
  DEF Next, ServerSteps, ClientSteps, Endpoints, Timeouts
<1>2. CallInv'
  BY CallServer, CallServerReceives, CallClient, CallClientReceives, CallEndpoints
  DEF IInv, Next, ServerSteps, ClientSteps, Sends
<1> QED
  BY <1>1, <1>2

-----------------------------------------------------------------------------
(* The stream goes one way.                                                    *)

NothingYet(k) == /\ chain[k] = <<>> /\ got[k] = <<>> /\ Frames(Link(k)) = {}
                 /\ k = "ws.client" => said[k] = <<>>

Onward ==
    /\ srv' = "absent" => srv = "absent"
    /\ srv' = "connecting" => srv \in {"absent", "connecting"}
    /\ srv' = "open" => srv \in {"connecting", "open"}
    /\ pub' = "open" => pub = "open" \/ srv = "connecting"
    /\ cli' = "absent" => cli = "absent"
    /\ cli' = "opening" => cli \in {"absent", "opening"}
    /\ cli' = "starting" => cli \in {"opening", "starting"}
    /\ cli' = "open" => cli \in {"starting", "open"}
    /\ loc' \in {"none", "connecting", "open"} => loc \in {"none", "connecting", "open"}

\* Counters never go back and what was said stays said.
LEMMA OnwardStep ==
    ASSUME IInv, Next
    PROVE  Onward
<1> USE DEF IInv, Onward
<1>0. pub \in Public /\ srv \in Server /\ cli \in Client /\ loc \in Local
  BY TypedRest
<1>1. CASE SendRequestEnd \/ PublicClosed
  BY <1>1 DEF SendRequestEnd, PublicClosed, ServerCleansUp, PublicClosing, stream
<1>2. CASE \E k \in Kinds : Sends(k)
  BY <1>2 DEF Sends, AskCredit, SendData, endpoints, stream
<1>3. CASE ServerIgnores \/ ServerReceivesStart \/ ServerReceivesEnd \/ ServerReceivesAbort
           \/ ServerReceivesCredit
  BY <1>3 DEF ServerIgnores, ServerReceivesStart, ServerReceivesEnd, ServerReceivesAbort,
              ServerReceivesCredit, Fail, ServerAborts, ServerCleansUp, PublicClosing, Awake,
              stream, endpoints
<1>4. CASE ServerReceivesData
  <2>1. \/ UNCHANGED <<pub, loc, srv, cli>>
        \/ ServerAborts /\ UNCHANGED <<loc, cli>>
        \/ ServerOverflows(Head(up))
    BY <1>4 DEF ServerReceivesData, Fail, ServerTakes, ServerCannotSend, stream, endpoints
  <2> QED
    BY <2>1 DEF ServerOverflows, ServerAborts, ServerCleansUp, PublicClosing
<1>5. CASE SendResponseStart \/ SendResponseEnd
  BY <1>5 DEF SendResponseStart, SendResponseEnd, endpoints
<1>6. CASE ClientReceivesRequest
  <2>1. down # <<>> /\ down \in Seq(Frame) /\ Has(down, "request")
    BY <1>6, TypedRest, Leaves DEF ClientReceivesRequest, Heads
  <2>2. cli = "absent" /\ loc = "none"
    BY <2>1 DEF CallInv
  <2> QED
    BY <1>6, <2>2 DEF ClientReceivesRequest
<1>7. CASE ClientIgnores \/ ClientReceivesEnd \/ ClientReceivesAbort \/ ClientReceivesCredit
  BY <1>7 DEF ClientIgnores, ClientReceivesEnd, ClientReceivesAbort, ClientReceivesCredit,
              Fail, ClientAborts, LocalClosing, stream, endpoints
<1>8. CASE ClientReceivesData
  <2>1. \/ UNCHANGED <<pub, loc, srv, cli>>
        \/ ClientAborts /\ UNCHANGED <<pub, srv>>
    BY <1>8 DEF ClientReceivesData, Fail, ClientTakes, stream, endpoints
  <2> QED
    BY <2>1 DEF ClientAborts, LocalClosing
<1>9. CASE PublicConnects \/ PublicLeaves \/ PublicBreaks \/ LocalRefuses \/ LocalCloses
  BY <1>9 DEF PublicConnects, PublicLeaves, PublicBreaks, LocalRefuses, LocalCloses,
              stream, endpoints
<1>10. CASE LocalAccepts
  BY <1>10 DEF LocalAccepts, CallInv
<1>11. ASSUME NEW bytes, PublicSends(bytes) PROVE Onward
  BY <1>11 DEF PublicSends, Awake, PublicClosing, stream
<1>12. ASSUME NEW bytes, LocalSends(bytes) PROVE Onward
  BY <1>12 DEF LocalSends, stream
<1>13. CASE Timeouts
  BY <1>13 DEF Timeouts, StartTimeout, PendingTimeout, Hibernate, OtherEvent, ServerAborts,
               ServerCleansUp, PublicClosing, Awake, stream, endpoints
<1> QED
  BY <1>1, <1>2, <1>3, <1>4, <1>5, <1>6, <1>7, <1>8, <1>9, <1>10, <1>11, <1>12, <1>13, TwoKinds
  DEF Next, ServerSteps, ClientSteps, Endpoints

\* What a receiver or a sender can do after a step, it could do before.
LEMMA Phases ==
    ASSUME IInv, TypeInv', Onward, NEW k \in Kinds
    PROVE  /\ Hears(k)' => Hears(k)
           /\ Listening(k)' => Listening(k)
           /\ CanSend(k)' => CanSend(k) \/ NothingYet(k)
<1> USE DEF IInv
<1>0. srv \in Server /\ cli \in Client
  BY TypedRest
<1>1. srv' \in Server /\ cli' \in Client
  BY DEF TypeInv, TypeOK
<1>2. Hears(k)' => Hears(k)
  BY <1>0, <1>1 DEF Onward, Hears, Server, Client
<1>3. Listening(k)' => Listening(k)
  BY <1>0, <1>1 DEF Onward, Listening, Server, Client
<1>4. CanSend(k)' => CanSend(k) \/ (k = "ws.client" /\ srv = "absent")
                                \/ (k = "ws.server" /\ cli = "absent")
  BY DEF Onward, CanSend, Kinds
<1>5. ASSUME k = "ws.client", srv = "absent" PROVE NothingYet(k)
  <2>1. down = <<>> /\ pub = "none"
    BY <1>5 DEF CallInv
  <2>2. said[k] = <<>> /\ chain[k] = <<>>
    BY <1>5, <2>1 DEF CallInv
  <2>3. Frames(Link(k)) = {}
    BY <1>5, <2>1 DEF Frames, Link
  <2>4. \A i \in DOMAIN got[k] : got[k][i] \in 1..Len(said[k])
    BY DEF FlowInv, OrderInv, Ordered
  <2>5. 1..Len(said[k]) = {}
    BY <2>2
  <2>6. got[k] = <<>>
    <3>1. got[k] \in Seq(Nat)
      BY Typed
    <3>2. Len(got[k]) \in Nat /\ DOMAIN got[k] = 1..Len(got[k])
      BY <3>1
    <3>3. ~(1 \in DOMAIN got[k])
      BY <2>4, <2>5
    <3>4. Len(got[k]) = 0
      BY <3>2, <3>3
    <3> QED
      BY <3>1, <3>4
  <2> QED
    BY <2>2, <2>3, <2>6 DEF NothingYet
<1>6. ASSUME k = "ws.server", cli = "absent" PROVE NothingYet(k)
  <2>1. chain[k] = <<>> /\ got[k] = <<>> /\ ~Has(up, "data")
    BY <1>6 DEF CallInv
  <2>2. Frames(up) = {}
    BY <2>1 DEF Frames, Has
  <2> QED
    BY <1>6, <2>1, <2>2 DEF NothingYet, Link
<1> QED
  BY <1>2, <1>3, <1>4, <1>5, <1>6

-----------------------------------------------------------------------------
(* Who waits for credit is woken.                                              *)

WakeOf(k) == /\ stage[k] # "idle" => chain[k] # <<>>
             /\ stage[k] = "waiting" => CanSend(k) /\ ~HasOutbound(k)

\* The wait of k is over, or what it waits for is as before, or nobody waits.
Steady(k) == stage'[k] = stage[k] /\ out'[k] = out[k] /\ chain'[k] = chain[k]
             /\ said'[k] = said[k]
Stops(k) == stage'[k] = "idle" \/ (stage'[k] # "waiting" /\ chain'[k] # <<>>)

\* The ways in which a step can keep `WakeOf`.
LEMMA WakeKept ==
    ASSUME IInv, NEW k \in Kinds,
           \/ Stops(k)
           \/ Steady(k) /\ (CanSend(k) => CanSend(k)')
           \/ stage'[k] = stage[k] /\ chain'[k] = chain[k] /\ ~CanSend(k)
    PROVE  WakeOf(k)'
<1>0. WakeOf(k)
  BY DEF IInv, StageInv, NoLostWakeup, WakeOf
<1>1. CASE Stops(k)
  BY <1>1 DEF Stops, WakeOf
<1>2. CASE Steady(k) /\ (CanSend(k) => CanSend(k)')
  <2>1. HasOutbound(k)' <=> HasOutbound(k)
    BY <1>2 DEF Steady, HasOutbound, Size
  <2> QED
    BY <1>0, <1>2, <2>1 DEF Steady, WakeOf
<1>3. CASE stage'[k] = stage[k] /\ chain'[k] = chain[k] /\ ~CanSend(k)
  BY <1>0, <1>3 DEF WakeOf
<1> QED
  BY <1>1, <1>2, <1>3

\* What stops one sender leaves the other alone.
LEMMA Stopped ==
    ASSUME IInv, NEW k \in Kinds, CreditsGo(k), UNCHANGED chain
    PROVE  /\ Stops(k)
           /\ UNCHANGED said => \A x \in Kinds \ {k} : Steady(x)
<1> USE DEF IInv
<1>1. stage \in [Kinds -> Stage] /\ out \in [Kinds -> Nat]
  BY Typed
<1>2. stage'[k] = IF stage[k] = "waiting" THEN "woken" ELSE stage[k]
  BY <1>1 DEF CreditsGo, Woken
<1>3. \A x \in Kinds \ {k} : stage'[x] = stage[x] /\ out'[x] = out[x]
  BY <1>1 DEF CreditsGo, Woken
<1> QED
  BY <1>2, <1>3 DEF Stops, Steady, StageInv

\* Nothing happens to a sender.
LEMMA Calm ==
    ASSUME IInv, NEW k \in Kinds, UNCHANGED <<chain, stage, out, said>>,
           CanSend(k) => CanSend(k)'
    PROVE  WakeOf(k)'
  BY WakeKept DEF Steady

\* The server's steps lose no wake-up.
LEMMA WakeServer ==
    ASSUME IInv, NEW k \in Kinds,
           \/ SendRequestEnd \/ PublicClosed \/ ServerIgnores \/ ServerReceivesStart
           \/ ServerReceivesData \/ ServerReceivesEnd \/ ServerReceivesAbort
           \/ ServerReceivesCredit \/ Timeouts
    PROVE  WakeOf(k)'
<1> USE TwoKinds
<1>1. ASSUME ServerCleansUp, UNCHANGED <<cli, chain, said>> PROVE WakeOf(k)'
  <2>1. CASE k = "ws.client"
    BY <1>1, <2>1, Stopped, WakeKept DEF ServerCleansUp
  <2>2. CASE k # "ws.client"
    <3>1. CanSend(k) => CanSend(k)'
      BY <1>1, <2>2 DEF CanSend
    <3> QED
      BY <1>1, <2>2, <3>1, Stopped, WakeKept DEF ServerCleansUp
  <2> QED
    BY <2>1, <2>2
<1>2. ASSUME UNCHANGED <<cli, chain, stage, out, said>>,
             srv' = srv \/ (srv = "connecting" /\ srv' = "open")
      PROVE  WakeOf(k)'
  <2>1. CanSend(k) => CanSend(k)'
    BY <1>2 DEF CanSend
  <2> QED
    BY <1>2, <2>1, Calm
<1>3. CASE SendRequestEnd
  BY <1>1, <1>2, <1>3 DEF SendRequestEnd
<1>4. CASE PublicClosed \/ ServerIgnores
  BY <1>2, <1>4 DEF PublicClosed, ServerIgnores, stream, sender
<1>5. CASE ServerReceivesStart
  BY <1>1, <1>2, <1>5 DEF ServerReceivesStart, ServerAborts
<1>6. CASE ServerReceivesData
  BY <1>1, <1>2, <1>6
  DEF ServerReceivesData, Fail, ServerTakes, ServerCannotSend, ServerAborts,
      ServerOverflows, endpoints, stream, sender
<1>7. CASE ServerReceivesEnd
  BY <1>1, <1>2, <1>7 DEF ServerReceivesEnd, Fail, endpoints, stream, sender
<1>8. CASE ServerReceivesAbort
  BY <1>1, <1>8 DEF ServerReceivesAbort, ServerAborts
<1>9. CASE ServerReceivesCredit
  <2>1. stage \in [Kinds -> Stage] /\ out \in [Kinds -> Nat]
    BY Typed DEF IInv
  <2>2. UNCHANGED <<cli, srv, chain, said>>
        /\ stage' = [stage EXCEPT !["ws.client"] = IF @ = "waiting" THEN "woken" ELSE @]
        /\ out' = [out EXCEPT !["ws.client"] = @ + Head(up).bytes]
    BY <1>9 DEF ServerReceivesCredit, Granted, Woken, stream
  <2>3. CASE k = "ws.client"
    <3>1. Stops(k)
      BY <2>1, <2>2, <2>3 DEF Stops, IInv, StageInv
    <3> QED
      BY <3>1, WakeKept
  <2>4. CASE k # "ws.client"
    <3>1. Steady(k) /\ (CanSend(k) => CanSend(k)')
      BY <2>1, <2>2, <2>4 DEF Steady, CanSend
    <3> QED
      BY <3>1, WakeKept
  <2> QED
    BY <2>3, <2>4
<1>10. CASE StartTimeout \/ PendingTimeout
  BY <1>1, <1>10 DEF StartTimeout, PendingTimeout, ServerAborts
<1>11. CASE Hibernate
  <2>1. CASE k = "ws.client"
    BY <1>11, <2>1, Stopped, WakeKept DEF Hibernate
  <2>2. CASE k # "ws.client"
    <3>1. CanSend(k) => CanSend(k)'
      BY <1>11, <2>2 DEF CanSend, Hibernate
    <3> QED
      BY <1>11, <2>2, <3>1, Stopped, WakeKept DEF Hibernate, endpoints
  <2> QED
    BY <2>1, <2>2
<1>12. CASE OtherEvent
  BY <1>2, <1>12 DEF OtherEvent, stream, sender
<1> QED
  BY <1>3, <1>4, <1>5, <1>6, <1>7, <1>8, <1>9, <1>10, <1>11, <1>12 DEF Timeouts

\* The client's steps lose no wake-up.
LEMMA WakeClient ==
    ASSUME IInv, NEW k \in Kinds,
           \/ SendResponseStart \/ SendResponseEnd \/ ClientReceivesRequest \/ ClientIgnores
           \/ ClientReceivesData \/ ClientReceivesEnd \/ ClientReceivesAbort
           \/ ClientReceivesCredit
    PROVE  WakeOf(k)'
<1> USE TwoKinds
<1>1. ASSUME cli' = "gone", CreditsGo("ws.server"), UNCHANGED <<srv, chain, said>>
      PROVE  WakeOf(k)'
  <2>1. CASE k = "ws.server"
    BY <1>1, <2>1, Stopped, WakeKept
  <2>2. CASE k # "ws.server"
    <3>1. CanSend(k) => CanSend(k)'
      BY <1>1, <2>2 DEF CanSend, Kinds
    <3> QED
      BY <1>1, <2>2, <3>1, Stopped, WakeKept
  <2> QED
    BY <2>1, <2>2
<1>2. ASSUME UNCHANGED <<srv, chain, stage, out, said>>,
             cli' = cli \/ (cli = "starting" /\ cli' = "open")
      PROVE  WakeOf(k)'
  <2>1. CanSend(k) => CanSend(k)'
    BY <1>2 DEF CanSend
  <2> QED
    BY <1>2, <2>1, Calm
<1>3. CASE SendResponseStart
  BY <1>2, <1>3 DEF SendResponseStart, endpoints, sender
<1>4. CASE SendResponseEnd
  BY <1>1, <1>2, <1>4 DEF SendResponseEnd, endpoints
<1>5. CASE ClientReceivesRequest
  <2>1. down # <<>> /\ down \in Seq(Frame) /\ Has(down, "request")
    BY <1>5, TypedRest, Leaves DEF ClientReceivesRequest, Heads, IInv
  <2>2. cli = "absent"
    BY <2>1 DEF CallInv, IInv
  <2>3. stage' = stage /\ chain' = chain /\ said' = said /\ srv' = srv
        /\ out' = [out EXCEPT !["ws.server"] = StreamCredit] /\ out \in [Kinds -> Nat]
    BY <1>5, Typed DEF ClientReceivesRequest, Seeded, IInv
  <2>4. CASE k = "ws.server"
    <3>1. ~CanSend(k)
      BY <2>2, <2>4 DEF CanSend
    <3> QED
      BY <2>3, <3>1, WakeKept
  <2>5. CASE k # "ws.server"
    <3>1. Steady(k) /\ (CanSend(k) => CanSend(k)')
      BY <2>3, <2>5 DEF Steady, CanSend, Kinds
    <3> QED
      BY <3>1, WakeKept
  <2> QED
    BY <2>4, <2>5
<1>6. CASE ClientIgnores
  BY <1>2, <1>6 DEF ClientIgnores, endpoints, stream, sender
<1>7. CASE ClientReceivesData
  BY <1>1, <1>2, <1>7
  DEF ClientReceivesData, Fail, ClientTakes, ClientAborts, endpoints, stream, sender
<1>8. CASE ClientReceivesEnd
  BY <1>2, <1>8 DEF ClientReceivesEnd, Fail, endpoints, stream, sender
<1>9. CASE ClientReceivesAbort
  BY <1>1, <1>9 DEF ClientReceivesAbort, ClientAborts
<1>10. CASE ClientReceivesCredit
  <2>1. stage \in [Kinds -> Stage] /\ out \in [Kinds -> Nat]
    BY Typed DEF IInv
  <2>2. UNCHANGED <<cli, srv, chain, said>>
        /\ stage' = [stage EXCEPT !["ws.server"] = IF @ = "waiting" THEN "woken" ELSE @]
        /\ out' = [out EXCEPT !["ws.server"] = @ + Head(down).bytes]
    BY <1>10 DEF ClientReceivesCredit, Granted, Woken, stream, endpoints
  <2>3. CASE k = "ws.server"
    <3>1. Stops(k)
      BY <2>1, <2>2, <2>3 DEF Stops, IInv, StageInv
    <3> QED
      BY <3>1, WakeKept
  <2>4. CASE k # "ws.server"
    <3>1. Steady(k) /\ (CanSend(k) => CanSend(k)')
      BY <2>1, <2>2, <2>4 DEF Steady, CanSend
    <3> QED
      BY <3>1, WakeKept
  <2> QED
    BY <2>3, <2>4
<1> QED
  BY <1>3, <1>4, <1>5, <1>6, <1>7, <1>8, <1>9, <1>10

\* A message joins the chain behind the one that waits.
LEMMA Joined ==
    ASSUME IInv, NEW k \in Kinds, NEW bytes \in Nat, Speaks(k, bytes),
           UNCHANGED <<stage, out, stream>>, UNCHANGED chain \/ Enqueue(k)
    PROVE  WakeOf(k)'
<1> USE DEF IInv
<1>1. /\ said \in [Kinds -> Seq(Nat)] /\ chain \in [Kinds -> Seq(Nat)]
      /\ said[k] \in Seq(Nat) /\ chain[k] \in Seq(Nat) /\ Len(said[k]) + 1 \in Nat
  BY Typed
<1>2. said'[k] = Append(said[k], bytes)
  BY <1>1 DEF Speaks
<1>3. chain'[k] = chain[k] \/ chain'[k] = Append(chain[k], Len(said[k]) + 1)
  BY <1>1 DEF Enqueue
<1>4. chain[k] # <<>> => chain'[k] # <<>> /\ Head(chain'[k]) = Head(chain[k])
  <2>1. ASSUME NEW q \in Seq(Nat), NEW v \in Nat, q # <<>>
        PROVE  Append(q, v) # <<>> /\ Head(Append(q, v)) = Head(q)
    <3>1. Append(q, v) \in Seq(Nat) /\ Append(q, v) # <<>>
      BY Queued
    <3>2. Head(q) = q[1] /\ 1 \in 1..Len(q) /\ Head(Append(q, v)) = Append(q, v)[1]
      BY <2>1, <3>1
    <3>3. Append(q, v)[1] = q[1]
      BY <3>2
    <3> QED
      BY <3>1, <3>2, <3>3
  <2> QED
    BY <1>1, <1>3, <2>1
<1>5. \A m \in 1..Len(said[k]) : Append(said[k], bytes)[m] = said[k][m]
  BY <1>1
<1>6. ASSUME chain[k] # <<>> PROVE Size(k)' = Size(k)
  BY <1>2, <1>4, <1>5, <1>6, MessageTypes DEF Size
<1>7. WakeOf(k)
  BY DEF StageInv, NoLostWakeup, WakeOf
<1>8. CanSend(k)' <=> CanSend(k)
  BY DEF CanSend, stream
<1> QED
  BY <1>4, <1>6, <1>7, <1>8 DEF WakeOf, HasOutbound

\* The two endpoints lose no wake-up.
LEMMA WakeEndpoints ==
    ASSUME IInv, NEW k \in Kinds, Endpoints
    PROVE  WakeOf(k)'
<1> USE TwoKinds DEF IInv
<1>0. stage \in [Kinds -> Stage] /\ out \in [Kinds -> Nat] /\ said \in [Kinds -> Seq(Nat)]
      /\ chain \in [Kinds -> Seq(Nat)]
  BY Typed
<1>1. CASE PublicConnects
  <2>1. stage' = stage /\ chain' = chain /\ said' = said /\ cli' = cli /\ srv = "absent"
        /\ out' = [out EXCEPT !["ws.client"] = StreamCredit]
    BY <1>1 DEF PublicConnects, Seeded, endpoints
  <2>2. CASE k = "ws.client"
    <3>1. ~CanSend(k)
      BY <2>1, <2>2 DEF CanSend
    <3> QED
      BY <2>1, <3>1, WakeKept
  <2>3. CASE k # "ws.client"
    <3>1. Steady(k) /\ (CanSend(k) => CanSend(k)')
      BY <1>0, <2>1, <2>3 DEF Steady, CanSend
    <3> QED
      BY <3>1, WakeKept
  <2> QED
    BY <2>2, <2>3
<1>2. CASE PublicLeaves \/ PublicBreaks \/ LocalCloses
  BY <1>2, Calm DEF PublicLeaves, PublicBreaks, LocalCloses, stream, sender, CanSend
<1>3. CASE LocalAccepts
  <2>1. cli = "opening" /\ cli' = "starting" /\ srv' = srv
    BY <1>3 DEF LocalAccepts, CallInv
  <2>2. CanSend(k) => CanSend(k)'
    BY <2>1 DEF CanSend
  <2> QED
    BY <1>3, <2>2, Calm DEF LocalAccepts, sender
<1>4. CASE LocalRefuses
  <2>1. CASE k = "ws.server"
    BY <1>4, <2>1, Stopped, WakeKept DEF LocalRefuses
  <2>2. CASE k # "ws.server"
    <3>1. CanSend(k) => CanSend(k)'
      BY <1>4, <2>2 DEF CanSend, Kinds, LocalRefuses
    <3> QED
      BY <1>4, <2>2, <3>1, Stopped, WakeKept DEF LocalRefuses
  <2> QED
    BY <2>1, <2>2
<1>5. ASSUME NEW x \in Kinds, NEW bytes \in Nat, Speaks(x, bytes),
             UNCHANGED <<stage, out, stream>>, UNCHANGED chain \/ Enqueue(x)
      PROVE  WakeOf(k)'
  <2>1. CASE k = x
    BY <1>5, <2>1, Joined
  <2>2. CASE k # x
    <3>1. Steady(k) /\ (CanSend(k) => CanSend(k)')
      BY <1>0, <1>5, <2>2 DEF Steady, CanSend, Speaks, Enqueue, stream
    <3> QED
      BY <3>1, WakeKept
  <2> QED
    BY <2>1, <2>2
<1>6. ASSUME NEW bytes \in Sizes["ws.client"], PublicSends(bytes) PROVE WakeOf(k)'
  BY <1>5, <1>6, SizesAssumption DEF PublicSends
<1>7. ASSUME NEW bytes \in Sizes["ws.server"], LocalSends(bytes) PROVE WakeOf(k)'
  BY <1>5, <1>7, SizesAssumption DEF LocalSends
<1> QED
  BY <1>1, <1>2, <1>3, <1>4, <1>6, <1>7 DEF Endpoints

\* A send that goes on, waits or gives up loses no wake-up.
LEMMA WakeSends ==
    ASSUME IInv, NEW k \in Kinds, NEW x \in Kinds, Sends(x)
    PROVE  WakeOf(k)'
<1> USE DEF IInv
<1>0. stage \in [Kinds -> Stage] /\ out \in [Kinds -> Nat] /\ chain \in [Kinds -> Seq(Nat)]
  BY Typed
<1>1. UNCHANGED <<srv, cli, said>>
  BY DEF Sends, AskCredit, SendData, stream, endpoints
<1>2. CanSend(k)' <=> CanSend(k)
  BY <1>1 DEF CanSend
<1>3. CASE k # x
  <2>1. Steady(k)
    BY <1>0, <1>1, <1>3 DEF Sends, AskCredit, SendData, Done, Steady
  <2> QED
    BY <1>2, <2>1, WakeKept
<1>4. CASE k = x /\ SendData(x)
  <2>1. Stops(k)
    BY <1>0, <1>4 DEF SendData, Stops
  <2> QED
    BY <2>1, WakeKept
<1>5. CASE k = x /\ AskCredit(x)
  <2>1. CASE ~CanSend(k)
    <3>1. Stops(k)
      BY <1>0, <1>5, <2>1 DEF AskCredit, Stops
    <3> QED
      BY <3>1, WakeKept
  <2>2. CASE CanSend(k)
    <3>1. stage' = [stage EXCEPT ![k] = IF HasOutbound(k) THEN "cleared" ELSE "waiting"]
          /\ UNCHANGED <<chain, out, said>> /\ chain[k] # <<>>
      BY <1>1, <1>5, <2>2 DEF AskCredit
    <3>2. CASE HasOutbound(k)
      <4>1. Stops(k)
        BY <1>0, <3>1, <3>2 DEF Stops
      <4> QED
        BY <4>1, WakeKept
    <3>3. CASE ~HasOutbound(k)
      <4>1. ~HasOutbound(k)'
        BY <3>1, <3>3 DEF HasOutbound, Size
      <4> QED
        BY <1>0, <1>2, <2>2, <3>1, <4>1 DEF WakeOf
    <3> QED
      BY <3>2, <3>3
  <2> QED
    BY <2>1, <2>2
<1> QED
  BY <1>3, <1>4, <1>5 DEF Sends

\* Every step keeps the stages and loses no wake-up.
LEMMA WakeStep == IInv /\ Next => StageInv' /\ NoLostWakeup'
<1> SUFFICES ASSUME IInv, Next, NEW k \in Kinds PROVE WakeOf(k)'
  BY DEF StageInv, NoLostWakeup, WakeOf
<1> QED
  BY TwoKinds, WakeServer, WakeClient, WakeEndpoints, WakeSends
  DEF Next, ServerSteps, ClientSteps

-----------------------------------------------------------------------------
(* How the messages of one direction move.                                     *)

Data == {f \in Frame : f.type = "data"}

\* The data frames of a link have a seq and a message.
LEMMA DataFrames ==
    /\ \A f \in Data : f.seq \in Nat /\ f.msg \in Nat
    /\ \A link : Frames(link) \subseteq Data
  BY DEF Data, Frame, Frames

\* The places of a queue without its first element.
LEMMA Tailed ==
    ASSUME NEW q \in Seq(Nat), q # <<>>
    PROVE  /\ Tail(q) \in Seq(Nat) /\ Head(q) = q[1] /\ 1 \in DOMAIN q /\ Head(q) \in Nat
           /\ \A i \in DOMAIN Tail(q) : /\ i + 1 \in DOMAIN q /\ Tail(q)[i] = q[i + 1]
                                        /\ i \in Nat /\ 1 < i + 1
           /\ \A i \in DOMAIN q : i = 1 \/ \E j \in DOMAIN Tail(q) : j + 1 = i
<1> DEFINE r == Tail(q)
<1>1. /\ r \in Seq(Nat) /\ Head(q) = q[1] /\ Head(q) \in Nat
      /\ Len(q) \in Nat \ {0} /\ DOMAIN q = 1..Len(q) /\ DOMAIN r = 1..Len(q) - 1
  OBVIOUS
<1>2. \A i \in DOMAIN r : r[i] = q[i + 1]
  OBVIOUS
<1> HIDE DEF r
<1>3. \A n \in Nat \ {0} :
         /\ 1 \in 1..n
         /\ \A i \in 1..n - 1 : i + 1 \in 1..n /\ 1 < i + 1 /\ i \in Nat
         /\ \A i \in 1..n : i = 1 \/ (i - 1 \in 1..n - 1 /\ (i - 1) + 1 = i)
  OBVIOUS
<1>4. /\ 1 \in DOMAIN q
      /\ \A i \in DOMAIN r : i + 1 \in DOMAIN q /\ 1 < i + 1 /\ i \in Nat
      /\ \A i \in DOMAIN q : i = 1 \/ (i - 1 \in DOMAIN r /\ (i - 1) + 1 = i)
  BY <1>1, <1>3, Zenon
<1> QED
  BY <1>1, <1>2, <1>4 DEF r

\* The places of a queue with one more element.
LEMMA Appended ==
    ASSUME NEW q \in Seq(Nat), NEW v \in Nat
    PROVE  /\ Append(q, v) \in Seq(Nat) /\ Len(q) \in Nat /\ Len(Append(q, v)) = Len(q) + 1
           /\ Append(q, v)[Len(q) + 1] = v /\ Len(q) + 1 \in DOMAIN Append(q, v)
           /\ \A i \in DOMAIN q : /\ i \in DOMAIN Append(q, v) /\ Append(q, v)[i] = q[i]
                                  /\ i \in Nat /\ i < Len(q) + 1 /\ q[i] \in Nat
           /\ \A i \in DOMAIN Append(q, v) : i \in DOMAIN q \/ i = Len(q) + 1
<1> DEFINE r == Append(q, v)
<1>1. /\ r \in Seq(Nat) /\ Len(q) \in Nat /\ DOMAIN q = 1..Len(q)
      /\ DOMAIN r = 1..Len(q) + 1 /\ Len(r) = Len(q) + 1 /\ r[Len(q) + 1] = v
  OBVIOUS
<1>2. \A i \in DOMAIN q : r[i] = q[i] /\ q[i] \in Nat
  OBVIOUS
<1> HIDE DEF r
<1>3. \A n \in Nat : /\ n + 1 \in 1..n + 1
                     /\ \A i \in 1..n : i \in 1..n + 1 /\ i \in Nat /\ i < n + 1
                     /\ \A i \in 1..n + 1 : i \in 1..n \/ i = n + 1
  OBVIOUS
<1>4. /\ Len(q) + 1 \in DOMAIN r
      /\ \A i \in DOMAIN q : i \in DOMAIN r /\ i \in Nat /\ i < Len(q) + 1
      /\ \A i \in DOMAIN r : i \in DOMAIN q \/ i = Len(q) + 1
  BY <1>1, <1>3, Zenon
<1> QED
  BY <1>1, <1>2, <1>4 DEF r

\* Messages that leave do not disturb the order.
LEMMA OrderedLess ==
    ASSUME NEW top \in Nat, NEW upto \in Nat, top <= upto, NEW F, NEW G \in SUBSET F, F \subseteq Data,
           NEW g \in Seq(Nat), NEW c \in Seq(Nat), NEW d \in Seq(Nat),
           d = c \/ (c # <<>> /\ d = Tail(c)),
           Ordered(top, F, g, c)
    PROVE  Ordered(upto, G, g, d)
<1>0. \A m \in 1..top : m \in 1..upto
  OBVIOUS
<1>1. CASE d = c
  BY <1>0, <1>1, Zenon DEF Ordered
<1>2. CASE c # <<>> /\ d = Tail(c)
  <2>1. \A i \in DOMAIN d : i + 1 \in DOMAIN c /\ d[i] = c[i + 1] /\ i \in Nat
    BY <1>2, Tailed
  <2>2. \A i, j \in DOMAIN d : i < j => i + 1 < j + 1
    BY <2>1
  <2>3. /\ \A i \in DOMAIN d : d[i] \in 1..upto
        /\ \A i, j \in DOMAIN d : i < j => d[i] < d[j]
        /\ \A i \in DOMAIN g, j \in DOMAIN d : g[i] < d[j]
        /\ \A f \in G, j \in DOMAIN d : f.msg < d[j]
    BY <1>0, <2>1, <2>2 DEF Ordered
  <2> QED
    BY <1>0, <2>3, Zenon DEF Ordered
<1> QED
  BY <1>1, <1>2

\* The first that waits sets out.
LEMMA OrderedLeaves ==
    ASSUME NEW top \in Nat, NEW F, F \subseteq Data, NEW f \in Data,
           NEW g \in Seq(Nat), NEW c \in Seq(Nat), c # <<>>,
           f.msg = Head(c), \A h \in F : h.seq < f.seq,
           Ordered(top, F, g, c)
    PROVE  Ordered(top, F \cup {f}, g, Tail(c))
<1> DEFINE d == Tail(c)
<1>1. /\ d \in Seq(Nat) /\ f.msg = c[1] /\ 1 \in DOMAIN c
      /\ \A i \in DOMAIN d : i + 1 \in DOMAIN c /\ d[i] = c[i + 1] /\ 1 < i + 1
  BY Tailed
<1>0. F \in SUBSET F /\ top <= top /\ (d = c \/ (c # <<>> /\ d = Tail(c)))
  OBVIOUS
<1>2. Ordered(top, F, g, d)
  <2> HIDE DEF d
  <2> QED
    BY <1>0, <1>1, OrderedLess
<1>3. \A i \in DOMAIN d : f.msg < d[i]
  BY <1>1 DEF Ordered
<1>4. f.msg \in 1..top /\ (\A i \in DOMAIN g : g[i] < f.msg) /\ (\A h \in F : h.msg < f.msg)
  BY <1>1 DEF Ordered
<1>5. \A h \in F \cup {f} : ~(f.seq < h.seq)
  BY DataFrames
<1> HIDE DEF d
<1>6. \A h, e \in F \cup {f} : h.seq < e.seq => h.msg < e.msg
  BY <1>2, <1>4, <1>5, Zenon DEF Ordered
<1> QED
  BY <1>2, <1>3, <1>4, <1>6, Zenon DEF Ordered, d

\* The first that travels is heard.
LEMMA OrderedHeard ==
    ASSUME NEW top \in Nat, NEW F, F \subseteq Data, NEW f \in F,
           NEW g \in Seq(Nat), NEW c \in Seq(Nat),
           \A h \in F \ {f} : f.seq < h.seq,
           Ordered(top, F, g, c)
    PROVE  Ordered(top, F \ {f}, Append(g, f.msg), c)
<1> DEFINE e == Append(g, f.msg)
           n == Len(g) + 1
<1>1. /\ e[n] = f.msg /\ n \in DOMAIN e /\ n \in Nat
      /\ \A i \in DOMAIN g : i \in DOMAIN e /\ e[i] = g[i] /\ i \in Nat /\ i < n
      /\ \A i \in DOMAIN e : i \in DOMAIN g \/ i = n
  BY Appended, DataFrames
<1>2. Ordered(top, F \ {f}, g, c)
  BY OrderedLess
<1>3. /\ f.msg \in 1..top /\ \A i \in DOMAIN g : g[i] < f.msg
      /\ \A h \in F \ {f} : f.msg < h.msg /\ \A j \in DOMAIN c : f.msg < c[j]
  BY DEF Ordered
<1>4. \A j \in DOMAIN c : f.msg < c[j]
  BY DEF Ordered
<1> HIDE DEF e, n
<1>5. \A i \in DOMAIN e : ~(n < i)
  BY <1>1
<1>6. \A i, j \in DOMAIN e : i < j => e[i] < e[j]
  BY <1>1, <1>2, <1>3, <1>5 DEF Ordered
<1>7. \A i \in DOMAIN e : /\ e[i] \in 1..top
                          /\ \A h \in F \ {f} : e[i] < h.msg
                          /\ \A j \in DOMAIN c : e[i] < c[j]
  BY <1>1, <1>2, <1>3, <1>4 DEF Ordered
<1> QED
  BY <1>2, <1>6, <1>7, Zenon DEF Ordered, e

\* A new message waits behind all others.
LEMMA OrderedJoins ==
    ASSUME NEW top \in Nat, NEW F, F \subseteq Data, NEW g \in Seq(Nat), NEW c \in Seq(Nat),
           Ordered(top, F, g, c)
    PROVE  Ordered(top + 1, F, g, Append(c, top + 1))
<1> DEFINE d == Append(c, top + 1)
           n == Len(c) + 1
<1>1. /\ d[n] = top + 1 /\ n \in DOMAIN d /\ n \in Nat
      /\ \A i \in DOMAIN c : i \in DOMAIN d /\ d[i] = c[i] /\ i \in Nat /\ i < n
      /\ \A i \in DOMAIN d : i \in DOMAIN c \/ i = n
  BY Appended
<1>2. Ordered(top + 1, F, g, c)
  BY OrderedLess
<1>3. \A m \in 1..top : m < top + 1 /\ m \in 1..top + 1
  OBVIOUS
<1>4. /\ \A i \in DOMAIN g : g[i] < top + 1
      /\ \A i \in DOMAIN c : c[i] < top + 1
      /\ \A f \in F : f.msg < top + 1
  BY <1>3 DEF Ordered
<1> HIDE DEF d, n
<1>5. \A i \in DOMAIN d : ~(n < i)
  <2>1. \A i \in Nat : i < n => ~(n < i)
    BY <1>1
  <2>2. ~(n < n)
    BY <1>1
  <2> QED
    BY <1>1, <2>1, <2>2, Zenon
<1>6. \A i, j \in DOMAIN d : i < j => d[i] < d[j]
  BY <1>1, <1>2, <1>4, <1>5 DEF Ordered
<1>7. top + 1 \in 1..top + 1
  OBVIOUS
<1>8. \A i \in DOMAIN d : /\ d[i] \in 1..top + 1
                          /\ \A f \in F : f.msg < d[i]
                          /\ \A j \in DOMAIN g : g[j] < d[i]
  BY <1>1, <1>2, <1>4, <1>7 DEF Ordered
<1> QED
  BY <1>2, <1>6, <1>8, Zenon DEF Ordered, d

-----------------------------------------------------------------------------
(* Where the messages of one direction are.                                    *)

\* The elements of a queue with one more.
LEMMA AllAppended ==
    ASSUME NEW q \in Seq(Nat), NEW v \in Nat
    PROVE  All(Append(q, v)) = All(q) \cup {v}
<1> DEFINE r == Append(q, v)
<1>1. /\ r[Len(q) + 1] = v /\ Len(q) + 1 \in DOMAIN r
      /\ \A i \in DOMAIN q : i \in DOMAIN r /\ r[i] = q[i]
      /\ \A i \in DOMAIN r : i \in DOMAIN q \/ i = Len(q) + 1
  BY Appended
<1> HIDE DEF r
<1>2. All(r) = All(q) \cup {v}
  BY <1>1 DEF All
<1> QED
  BY <1>2 DEF r

\* The elements of a queue are its first and those behind.
LEMMA AllTailed ==
    ASSUME NEW q \in Seq(Nat), q # <<>>
    PROVE  All(q) = All(Tail(q)) \cup {Head(q)}
<1> DEFINE r == Tail(q)
<1>1. /\ Head(q) = q[1] /\ 1 \in DOMAIN q
      /\ \A i \in DOMAIN r : i + 1 \in DOMAIN q /\ r[i] = q[i + 1]
      /\ \A i \in DOMAIN q : i = 1 \/ \E j \in DOMAIN r : j + 1 = i
  BY Tailed
<1> HIDE DEF r
<1>2. All(q) = All(r) \cup {q[1]}
  BY <1>1 DEF All
<1> QED
  BY <1>1, <1>2 DEF r

\* All of them were said.
LEMMA PresentSaid ==
    ASSUME NEW top \in Nat, NEW F, NEW g, NEW c, NEW W, Ordered(top, F, g, c),
           W \subseteq All(c)
    PROVE  Present(F, g, W) \subseteq 1..top
  BY DEF Ordered, Present, All

\* What of the chain may still be sent, and that it is all of it when `CanSend`.
LEMMA GoingWaits ==
    ASSUME NEW k, StageInv, k \in Kinds, chain[k] \in Seq(Nat)
    PROVE  /\ Going(k) \subseteq All(chain[k])
           /\ CanSend(k) => Going(k) = All(chain[k])
<1>1. stage[k] = "cleared" => chain[k] # <<>>
  BY DEF StageInv
<1>2. chain[k] # <<>> => Head(chain[k]) \in All(chain[k])
  BY AllTailed
<1> QED
  BY <1>1, <1>2 DEF Going

\* A sender that stops loses messages that are behind all others.
LEMMA PresentStops ==
    ASSUME NEW top \in Nat, NEW F, F \subseteq Data, NEW g \in Seq(Nat), NEW c \in Seq(Nat),
           Ordered(top, F, g, c), NEW V, NEW W, V \subseteq W, W \subseteq All(c),
           V = W \/ V = {} \/ (c # <<>> /\ V = {Head(c)})
    PROVE  /\ Present(F, g, V) \subseteq Present(F, g, W)
           /\ \A x \in Present(F, g, V), y \in Present(F, g, W) \ Present(F, g, V) : x < y
<1>1. Present(F, g, V) \subseteq Present(F, g, W)
  BY DEF Present
<1>2. ASSUME NEW x \in Present(F, g, V), NEW y \in Present(F, g, W), y \notin Present(F, g, V)
      PROVE  x < y
  <2>1. y \in W /\ y \notin V
    BY <1>2 DEF Present
  <2>2. PICK j \in DOMAIN c : c[j] = y
    BY <2>1 DEF All
  <2>3. CASE x \in {f.msg : f \in F} \cup All(g)
    BY <2>2, <2>3 DEF Ordered, All
  <2>4. CASE x \in V
    <3>1. x = Head(c) /\ y # Head(c) /\ c # <<>>
      BY <2>1, <2>4
    <3>2. x = c[1] /\ 1 \in DOMAIN c /\ j # 1
      BY <2>2, <3>1, Tailed
    <3>3. 1 < j
      <4>1. DOMAIN c = 1..Len(c) /\ Len(c) \in Nat
        OBVIOUS
      <4> QED
        BY <3>2, <4>1
    <3> QED
      BY <2>2, <3>2, <3>3 DEF Ordered
  <2> QED
    BY <2>3, <2>4 DEF Present
<1> QED
  BY <1>1, <1>2

\* Losing the later part of what is present makes no hole.
LEMMA HoleLess ==
    ASSUME NEW k, NEW s \in Seq(Nat), NEW P, NEW Q \in SUBSET P, NEW can, NEW could,
           \A x \in Q, y \in P \ Q : x < y, can => could /\ Q = P,
           NoHole(k, s, P, could)
    PROVE  NoHole(k, s, Q, can)
<1>1. ASSUME NEW x \in Q, NEW m \in Missing(k, s, Q) PROVE x < m
  <2>1. CASE m \in P
    BY <1>1, <2>1, Zenon DEF Missing
  <2>2. CASE m \notin P
    BY <1>1, <2>2, Zenon DEF Missing, NoHole
  <2> QED
    BY <2>1, <2>2
<1>2. can => Missing(k, s, Q) = {}
  BY Zenon DEF NoHole
<1> QED
  BY <1>1, <1>2, Zenon DEF NoHole

\* Nothing has no hole.
LEMMA HoleNone ==
    ASSUME NEW k, NEW s \in Seq(Nat), NEW can, k = "ws.client" => s = <<>>
    PROVE  NoHole(k, s, {}, can)
<1>1. s = <<>> => 1..Len(s) = {}
  OBVIOUS
<1>2. Missing(k, s, {}) = {}
  BY <1>1, Zenon DEF Missing
<1> QED
  BY <1>2, Zenon DEF NoHole

\* A message that is said and does not join the chain.
LEMMA HoleSaid ==
    ASSUME NEW k, NEW s \in Seq(Nat), NEW P \in SUBSET (1..Len(s)), NEW can, NEW b \in Nat,
           ~can \/ b > MaxMessage \/ (k # "ws.client" /\ P = {}),
           NoHole(k, s, P, can)
    PROVE  NoHole(k, Append(s, b), P, can)
<1> DEFINE t == Append(s, b)
           n == Len(s) + 1
<1>1. /\ t[n] = b /\ n \in Nat /\ Len(s) \in Nat /\ Len(t) = n
      /\ \A i \in DOMAIN s : t[i] = s[i]
      /\ DOMAIN s = 1..Len(s)
  BY Appended
<1> HIDE DEF t, n
<1>2. \A m \in 1..n : m \in 1..Len(s) \/ m = n
  BY DEF n
<1>3. \A x \in 1..Len(s) : x < n
  BY DEF n
<1>4. ASSUME NEW m \in Missing(k, t, P)
      PROVE  m \in Missing(k, s, P) \/ (m = n /\ ~(b > MaxMessage) /\ (k = "ws.client" \/ P # {}))
  <2>1. m \in 1..n /\ ~(t[m] > MaxMessage) /\ m \notin P /\ (k = "ws.client" \/ \E y \in P : y < m)
    BY <1>1, Zenon DEF Missing
  <2>2. CASE m = n
    BY <1>1, <2>1, <2>2, Zenon
  <2>3. CASE m \in 1..Len(s)
    <3>1. t[m] = s[m]
      BY <1>1, <2>3
    <3> QED
      BY <2>1, <2>3, <3>1, Zenon DEF Missing
  <2> QED
    BY <1>2, <2>1, <2>2, <2>3
<1>5. ASSUME NEW x \in P, NEW m \in Missing(k, t, P) PROVE x < m
  BY <1>3, <1>4, <1>5, Zenon DEF NoHole
<1>6. can => Missing(k, t, P) = {}
  BY <1>4, Zenon DEF NoHole
<1> QED
  BY <1>5, <1>6, Zenon DEF NoHole, t

\* A message that joins it.
LEMMA HoleJoins ==
    ASSUME NEW k, NEW s \in Seq(Nat), NEW P \in SUBSET (1..Len(s)), NEW can, can, NEW b \in Nat,
           NoHole(k, s, P, can)
    PROVE  NoHole(k, Append(s, b), P \cup {Len(s) + 1}, can)
<1> DEFINE t == Append(s, b)
           n == Len(s) + 1
           Q == P \cup {n}
<1>1. /\ n \in Nat /\ Len(s) \in Nat /\ Len(t) = n /\ \A i \in DOMAIN s : t[i] = s[i]
      /\ DOMAIN s = 1..Len(s)
  BY Appended
<1> HIDE DEF t, n
<1>2. \A m \in 1..n : m \in 1..Len(s) \/ m = n
  BY DEF n
<1>3. \A x \in 1..Len(s) : ~(n < x)
  BY DEF n
<1>4. ASSUME NEW m \in Missing(k, t, Q) PROVE m \in Missing(k, s, P)
  <2>1. m \in 1..n /\ ~(t[m] > MaxMessage) /\ m \notin Q /\ (k = "ws.client" \/ \E y \in Q : y < m)
    BY <1>1, Zenon DEF Missing
  <2>2. m \in 1..Len(s)
    BY <1>2, <2>1
  <2>3. t[m] = s[m]
    BY <1>1, <2>2
  <2>4. k = "ws.client" \/ \E y \in P : y < m
    BY <1>3, <2>1, <2>2, Zenon
  <2> QED
    BY <2>1, <2>2, <2>3, <2>4, Zenon DEF Missing
<1>5. Missing(k, t, Q) = {}
  BY <1>4, Zenon DEF NoHole
<1>6. NoHole(k, t, Q, can)
  BY <1>5, Zenon DEF NoHole
<1> QED
  BY <1>6 DEF t, n

\* The seqs.
LEMMA GaplessSends ==
    ASSUME NEW F, F \subseteq Data, NEW f \in Data, NEW a \in Nat, NEW b \in Nat, a <= b,
           f.seq = b, Gapless(F, a, b)
    PROVE  Gapless(F \cup {f}, a, b + 1)
<1>1. \A h \in F \cup {f} : a <= h.seq
  BY DEF Gapless
<1>2. ASSUME NEW n \in Nat, a <= n, n < b + 1 PROVE \E h \in F \cup {f} : h.seq = n
  <2>1. n < b \/ n = b
    BY <1>2
  <2> QED
    BY <1>2, <2>1, Zenon DEF Gapless
<1> QED
  BY <1>1, <1>2, Zenon DEF Gapless

\* Frames without gaps have none without their first.
LEMMA GaplessTakes ==
    ASSUME NEW F, F \subseteq Data, NEW f \in F, NEW a \in Nat, NEW b \in Nat,
           f.seq = a, \A h \in F \ {f} : f.seq < h.seq, Gapless(F, a, b)
    PROVE  Gapless(F \ {f}, a + 1, b)
<1>1. \A h \in F \ {f} : a + 1 <= h.seq
  BY DataFrames
<1>2. ASSUME NEW n \in Nat, a + 1 <= n, n < b PROVE \E h \in F \ {f} : h.seq = n
  <2>1. a <= n /\ n # a
    BY <1>2
  <2> QED
    BY <1>2, <2>1, Zenon DEF Gapless
<1> QED
  BY <1>1, <1>2, Zenon DEF Gapless

\* The first frame is the next one.
LEMMA FirstIsNext ==
    ASSUME NEW F, F \subseteq Data, NEW f \in F, NEW a \in Nat, NEW b \in Nat,
           f.seq < b, \A h \in F \ {f} : f.seq < h.seq, Gapless(F, a, b)
    PROVE  f.seq = a /\ a < b
<1>1. f.seq \in Nat /\ a <= f.seq
  BY DataFrames DEF Gapless
<1>2. a < b
  BY <1>1
<1>3. PICK h \in F : h.seq = a
  BY <1>2 DEF Gapless
<1>4. h = f
  <2>1. ~(f.seq < a)
    BY <1>1
  <2> QED
    BY <1>3, <2>1
<1> QED
  BY <1>2, <1>3, <1>4

-----------------------------------------------------------------------------
(* What an action can do to a direction.                                       *)

Good(k) == FlowInv(k) /\ InOrderOf(k)

\* What the invariant says of one kind, collected for the proofs of order.
LEMMA Known ==
    ASSUME IInv, NEW k \in Kinds
    PROVE  /\ said[k] \in Seq(Nat) /\ Len(said[k]) \in Nat
           /\ got[k] \in Seq(Nat) /\ chain[k] \in Seq(Nat) /\ Link(k) \in Seq(Frame)
           /\ sent[k] \in Nat /\ next[k] \in Nat
           /\ Frames(Link(k)) \subseteq Data /\ Good(k)
           /\ PresentOf(k) \subseteq 1..Len(said[k])
<1> USE DEF IInv
<1>1. /\ said[k] \in Seq(Nat) /\ got[k] \in Seq(Nat) /\ chain[k] \in Seq(Nat)
      /\ sent[k] \in Nat /\ next[k] \in Nat
  BY Typed
<1>2. Link(k) \in Seq(Frame)
  BY TypedRest DEF Link
<1>3. Len(said[k]) \in Nat
  BY <1>1
<1>4. PresentOf(k) \subseteq 1..Len(said[k])
  BY <1>1, <1>3, GoingWaits, PresentSaid DEF FlowInv, OrderInv, PresentOf
<1> QED
  BY <1>1, <1>2, <1>3, <1>4, DataFrames DEF Good

Stays(k) == /\ said'[k] = said[k] /\ got'[k] = got[k] /\ chain'[k] = chain[k]
            /\ sent'[k] = sent[k] /\ next'[k] = next[k]
            /\ (stage'[k] = "cleared" <=> stage[k] = "cleared") \/ (CanSend(k) /\ CanSend(k)')

\* No message moves.
LEMMA FlowStays ==
    ASSUME IInv, TypeInv', Onward, NEW k \in Kinds, Stays(k),
           Frames(Link(k)') = Frames(Link(k)), Sorted(Link(k)')
    PROVE  Good(k)'
<1> DEFINE F == Frames(Link(k))
<1>1. /\ said[k] \in Seq(Nat) /\ got[k] \in Seq(Nat) /\ chain[k] \in Seq(Nat)
      /\ Len(said[k]) \in Nat /\ F \subseteq Data /\ Good(k)
  BY Known
<1>2. /\ Hears(k)' => Hears(k)
      /\ Listening(k)' => Listening(k)
      /\ CanSend(k)' => CanSend(k) \/ NothingYet(k)
  BY Phases
<1>3. SeqInv(k)'
  BY <1>1, <1>2 DEF Good, FlowInv, SeqInv, Sequenced, Stays
<1>4. OrderInv(k)'
  BY <1>1 DEF Good, FlowInv, OrderInv, Stays
<1>5. ASSUME Listening(k)' PROVE NoHole(k, said[k], PresentOf(k)', CanSend(k)')
  <2>1. CASE NothingYet(k)
    <3>1. PresentOf(k)' = {}
      <4>1. Frames(Link(k)') = {} /\ got'[k] = <<>> /\ chain'[k] = <<>>
        BY <2>1 DEF NothingYet, Stays
      <4>2. Going(k)' = {}
        <5>1. chain[k] = <<>>
          BY <2>1 DEF NothingYet
        <5>2. stage[k] # "cleared"
          BY <5>1 DEF IInv, StageInv
        <5>3. All(chain'[k]) = {}
          BY <4>1 DEF All
        <5> QED
          BY <2>1, <4>1, <5>2, <5>3 DEF Going, Stays
      <4> QED
        BY <4>1, <4>2 DEF PresentOf, Present, All
    <3> QED
      BY <1>1, <2>1, <3>1, HoleNone DEF NothingYet
  <2>2. CASE CanSend(k)' => CanSend(k)
    <3>1. PICK P, Q, V, W : /\ P = PresentOf(k) /\ Q = PresentOf(k)'
                            /\ V = Going(k)' /\ W = Going(k)
      OBVIOUS
    <3>2. P = Present(F, got[k], W) /\ Q = Present(F, got[k], V)
      BY <3>1 DEF PresentOf, Stays
    <3>3. W \subseteq All(chain[k])
      BY <1>1, <3>1, GoingWaits DEF IInv
    <3>4. stage[k] = "cleared" => chain[k] # <<>>
      BY DEF IInv, StageInv
    <3>5. /\ V = W \/ V = {} \/ (chain[k] # <<>> /\ V = {Head(chain[k])})
          /\ CanSend(k)' => V = W
      BY <2>2, <3>1, <3>4 DEF Going, Stays
    <3>6. V \subseteq W
      <4>1. chain[k] # <<>> => Head(chain[k]) \in All(chain[k])
        BY <1>1, AllTailed
      <4> QED
        BY <2>2, <3>1, <3>4, <4>1 DEF Going, Stays
    <3>7. Ordered(Len(said[k]), F, got[k], chain[k]) /\ NoHole(k, said[k], P, CanSend(k))
      BY <1>1, <1>2, <1>5, <3>1 DEF Good, FlowInv, OrderInv, HoleInv
    <3> HIDE DEF F
    <3>8. Q \subseteq P /\ \A x \in Q, y \in P \ Q : x < y
      BY <1>1, <3>2, <3>3, <3>5, <3>6, <3>7, PresentStops
    <3>9. CanSend(k)' => CanSend(k) /\ Q = P
      BY <2>2, <3>2, <3>5
    <3>10. PICK can, could : can = CanSend(k)' /\ could = CanSend(k)
      OBVIOUS
    <3>11. NoHole(k, said[k], Q, can)
      BY <1>1, <3>7, <3>8, <3>9, <3>10, HoleLess
    <3> QED
      BY <3>1, <3>10, <3>11
  <2> QED
    BY <1>2, <2>1, <2>2
<1>6. HoleInv(k)'
  BY <1>5 DEF HoleInv, Stays
<1>7. InOrderOf(k)'
  BY <1>1 DEF Good, InOrderOf, Stays
<1> QED
  BY <1>3, <1>4, <1>6, <1>7 DEF Good, FlowInv

\* What was said before stays.
LEMMA SaidStays ==
    ASSUME IInv, NEW k \in Kinds, NEW b \in Nat, Speaks(k, b), got'[k] = got[k]
    PROVE  /\ said'[k] = Append(said[k], b) /\ Len(said'[k]) = Len(said[k]) + 1
           /\ InOrderOf(k)'
<1>1. /\ said[k] \in Seq(Nat) /\ got[k] \in Seq(Nat) /\ Len(said[k]) \in Nat /\ Good(k)
  BY Known
<1>2. said \in [Kinds -> Seq(Nat)]
  BY Typed DEF IInv
<1>3. said'[k] = Append(said[k], b)
  BY <1>2 DEF Speaks
<1>4. /\ Len(Append(said[k], b)) = Len(said[k]) + 1
      /\ \A m \in 1..Len(said[k]) : Append(said[k], b)[m] = said[k][m]
  BY <1>1
<1>5. ASSUME NEW i \in DOMAIN got[k]
      PROVE  LET before == IF i > 1 THEN got[k][i - 1] ELSE IF k = "ws.client" THEN 0
                                                        ELSE got[k][i] - 1
             IN /\ before < got[k][i]
                /\ \A m \in before + 1 .. got[k][i] - 1 : said'[k][m] > MaxMessage
  <2> DEFINE before == IF i > 1 THEN got[k][i - 1] ELSE IF k = "ws.client" THEN 0
                                                   ELSE got[k][i] - 1
  <2>1. /\ before < got[k][i]
        /\ \A m \in before + 1 .. got[k][i] - 1 : said[k][m] > MaxMessage
    BY <1>1 DEF Good, InOrderOf
  <2>2. got[k][i] \in 1..Len(said[k])
    BY <1>1 DEF Good, FlowInv, OrderInv, Ordered
  <2>3. before \in Nat
    <3>1. CASE i > 1
      <4>1. i - 1 \in DOMAIN got[k]
        BY <1>1, <3>1
      <4>2. got[k][i - 1] \in Nat
        <5>1. \A q \in Seq(Nat) : \A j \in DOMAIN q : q[j] \in Nat
          OBVIOUS
        <5> QED
          BY <1>1, <4>1, <5>1
      <4> QED
        BY <3>1, <4>2
    <3>2. CASE ~(i > 1)
      BY <2>2, <3>2
    <3> QED
      BY <3>1, <3>2
  <2> HIDE DEF before
  <2>4. \A m \in before + 1 .. got[k][i] - 1 : m \in 1..Len(said[k])
    <3>1. \A a, top \in Nat : \A v \in 1..top : \A m \in a + 1 .. v - 1 : m \in 1..top
      OBVIOUS
    <3> QED
      BY <1>1, <2>2, <2>3, <3>1
  <2>5. \A m \in before + 1 .. got[k][i] - 1 : said'[k][m] > MaxMessage
    BY <1>3, <1>4, <2>1, <2>4
  <2> QED
    BY <2>1, <2>5 DEF before
<1>6. InOrderOf(k)'
  BY <1>5 DEF InOrderOf
<1> QED
  BY <1>3, <1>4, <1>6

\* An endpoint says something.
LEMMA FlowSaid ==
    ASSUME IInv, TypeInv', Onward, NEW k \in Kinds, NEW b \in Nat, Speaks(k, b),
           UNCHANGED <<got, sent, next, stage, down, up, stream>>,
           \/ chain' = chain /\ (~CanSend(k) \/ b > MaxMessage
                                 \/ (k # "ws.client" /\ NothingYet(k)))
           \/ Enqueue(k) /\ CanSend(k)
    PROVE  Good(k)'
<1> DEFINE F == Frames(Link(k))
           P == PresentOf(k)
<1>1. /\ said[k] \in Seq(Nat) /\ got[k] \in Seq(Nat) /\ chain[k] \in Seq(Nat)
      /\ Len(said[k]) \in Nat /\ F \subseteq Data /\ Good(k) /\ P \subseteq 1..Len(said[k])
  BY Known
<1>2. /\ Hears(k)' => Hears(k)
      /\ Listening(k)' => Listening(k)
  BY Phases
<1>3. /\ said'[k] = Append(said[k], b) /\ Len(said'[k]) = Len(said[k]) + 1
      /\ InOrderOf(k)'
  BY SaidStays
<1>4. Link(k)' = Link(k) /\ got' = got /\ sent' = sent /\ next' = next /\ stage' = stage
  BY DEF Link
<1>5. SeqInv(k)'
  BY <1>1, <1>2, <1>4 DEF Good, FlowInv, SeqInv
<1>6. Ordered(Len(said[k]), F, got[k], chain[k])
  BY <1>1 DEF Good, FlowInv, OrderInv
<1>7. Listening(k)' => NoHole(k, said[k], P, CanSend(k))
  BY <1>1, <1>2 DEF Good, FlowInv, HoleInv
<1>d. CanSend(k)' = CanSend(k)
  BY DEF CanSend, stream
<1>c. PICK can, W : can = CanSend(k) /\ W = Going(k)
  OBVIOUS
<1>p. P = Present(F, got[k], W)
  BY <1>c DEF PresentOf
<1>8. CASE chain' = chain /\ (~CanSend(k) \/ b > MaxMessage \/ (k # "ws.client" /\ NothingYet(k)))
  <2>1. PresentOf(k)' = P
    <3>1. PresentOf(k)' = Present(F, got[k], W)
      BY <1>4, <1>8, <1>c, <1>d DEF PresentOf, Going
    <3> QED
      BY <1>p, <3>1
  <2>2. OrderInv(k)'
    <3>1. Ordered(Len(said[k]) + 1, F, got[k], chain[k])
      <4>1. Len(said[k]) <= Len(said[k]) + 1 /\ Len(said[k]) + 1 \in Nat /\ F \in SUBSET F
        BY <1>1
      <4> HIDE DEF F
      <4> QED
        BY <1>1, <1>6, <4>1, OrderedLess
    <3> QED
      BY <1>3, <1>4, <1>8, <3>1 DEF OrderInv
  <2>3. NothingYet(k) => P = {}
    <3>1. ASSUME NothingYet(k) PROVE F = {} /\ got[k] = <<>> /\ chain[k] = <<>>
      BY <3>1 DEF NothingYet
    <3>2. W \subseteq All(chain[k])
      BY <1>1, <1>c, GoingWaits DEF IInv
    <3> QED
      BY <1>p, <3>1, <3>2 DEF Present, All
  <2>4. Listening(k)' => NoHole(k, Append(said[k], b), P, CanSend(k))
    <3>1. ~can \/ b > MaxMessage \/ (k # "ws.client" /\ P = {})
      BY <1>8, <1>c, <2>3
    <3>2. P \in SUBSET (1..Len(said[k])) /\ (Listening(k)' => NoHole(k, said[k], P, can))
      BY <1>1, <1>7, <1>c
    <3> HIDE DEF P
    <3>3. Listening(k)' => NoHole(k, Append(said[k], b), P, can)
      BY <1>1, <3>1, <3>2, HoleSaid, Zenon
    <3> QED
      BY <1>c, <3>3
  <2>5. HoleInv(k)'
    BY <1>3, <1>d, <2>1, <2>4 DEF HoleInv
  <2> QED
    BY <1>3, <1>5, <2>2, <2>5 DEF Good, FlowInv
<1>9. CASE Enqueue(k) /\ CanSend(k)
  <2> DEFINE n == Len(said[k]) + 1
  <2>1. chain'[k] = Append(chain[k], n) /\ n \in Nat
    <3>1. chain \in [Kinds -> Seq(Nat)]
      BY Typed DEF IInv
    <3> QED
      BY <1>1, <1>9, <3>1 DEF Enqueue
  <2>2. PresentOf(k)' = P \cup {n}
    <3>1. W = All(chain[k]) /\ Going(k)' = All(Append(chain[k], n))
      BY <1>9, <1>c, <1>d, <2>1 DEF Going
    <3>2. Going(k)' = W \cup {n}
      BY <1>1, <2>1, <3>1, AllAppended
    <3>3. PresentOf(k)' = Present(F, got[k], W \cup {n})
      BY <1>4, <3>2 DEF PresentOf
    <3> QED
      BY <1>p, <3>3 DEF Present
  <2>3. OrderInv(k)'
    <3>1. Ordered(n, F, got[k], Append(chain[k], n))
      <4> HIDE DEF F
      <4> QED
        BY <1>1, <1>6, OrderedJoins
    <3> QED
      BY <1>3, <1>4, <2>1, <3>1 DEF OrderInv
  <2>4. Listening(k)' => NoHole(k, Append(said[k], b), P \cup {n}, CanSend(k))
    <3>1. can /\ P \in SUBSET (1..Len(said[k])) /\ (Listening(k)' => NoHole(k, said[k], P, can))
      BY <1>1, <1>7, <1>9, <1>c
    <3> HIDE DEF P, n
    <3>2. Listening(k)' => NoHole(k, Append(said[k], b), P \cup {Len(said[k]) + 1}, can)
      BY <1>1, <3>1, HoleJoins, Zenon
    <3> QED
      BY <1>c, <3>2 DEF n
  <2>5. HoleInv(k)'
    BY <1>3, <1>d, <2>2, <2>4 DEF HoleInv
  <2> QED
    BY <1>3, <1>5, <2>3, <2>5 DEF Good, FlowInv
<1> QED
  BY <1>8, <1>9

\* A message of a stream that is gone is dropped from its chain.
LEMMA FlowDropped ==
    ASSUME IInv, TypeInv', Onward, NEW k \in Kinds, AskCredit(k), ~CanSend(k)
    PROVE  Good(k)'
<1> DEFINE F == Frames(Link(k))
           P == PresentOf(k)
<1>1. /\ said[k] \in Seq(Nat) /\ got[k] \in Seq(Nat) /\ chain[k] \in Seq(Nat)
      /\ Len(said[k]) \in Nat /\ F \subseteq Data /\ Good(k)
  BY Known
<1>2. /\ Hears(k)' => Hears(k)
      /\ Listening(k)' => Listening(k)
  BY Phases
<1>3. /\ chain[k] # <<>> /\ chain'[k] = Tail(chain[k]) /\ stage'[k] = "idle"
      /\ stage[k] # "cleared"
  BY Typed DEF IInv, AskCredit, Done
<1>4. /\ Link(k)' = Link(k) /\ got' = got /\ sent' = sent /\ next' = next /\ said' = said
      /\ CanSend(k)' = CanSend(k)
  BY DEF AskCredit, Link, CanSend, endpoints, stream, receiver
<1>5. SeqInv(k)'
  BY <1>1, <1>2, <1>4 DEF Good, FlowInv, SeqInv
<1>6. OrderInv(k)'
  <2>1. Ordered(Len(said[k]), F, got[k], chain[k])
    BY <1>1 DEF Good, FlowInv, OrderInv
  <2>2. /\ Len(said[k]) <= Len(said[k]) /\ F \in SUBSET F /\ Tail(chain[k]) \in Seq(Nat)
        /\ Tail(chain[k]) = chain[k] \/ (chain[k] # <<>> /\ Tail(chain[k]) = Tail(chain[k]))
    BY <1>1, <1>3
  <2> HIDE DEF F
  <2>3. Ordered(Len(said[k]), F, got[k], Tail(chain[k]))
    BY <1>1, <2>1, <2>2, OrderedLess
  <2> QED
    BY <1>3, <1>4, <2>3 DEF OrderInv, F
<1>7. HoleInv(k)'
  <2>1. Going(k)' = Going(k)
    BY <1>3, <1>4 DEF Going
  <2>2. PresentOf(k)' = PresentOf(k)
    BY <1>4, <2>1 DEF PresentOf
  <2> QED
    BY <1>1, <1>2, <1>4, <2>2 DEF Good, FlowInv, HoleInv
<1>8. InOrderOf(k)'
  BY <1>1, <1>4 DEF Good, InOrderOf
<1> QED
  BY <1>5, <1>6, <1>7, <1>8 DEF Good, FlowInv

\* A message sets out.
LEMMA FlowSent ==
    ASSUME IInv, TypeInv', Onward, NEW k \in Kinds, SendData(k)
    PROVE  Good(k)'
<1> DEFINE F == Frames(Link(k))
           P == PresentOf(k)
<1>1. /\ said[k] \in Seq(Nat) /\ got[k] \in Seq(Nat) /\ chain[k] \in Seq(Nat)
      /\ Len(said[k]) \in Nat /\ F \subseteq Data /\ Good(k) /\ Link(k) \in Seq(Frame)
      /\ sent[k] \in Nat /\ next[k] \in Nat
  BY Known
<1>2. /\ Hears(k)' => Hears(k)
      /\ Listening(k)' => Listening(k)
  BY Phases
<1>3. /\ chain[k] # <<>> /\ chain'[k] = Tail(chain[k]) /\ stage'[k] = "idle"
      /\ stage[k] = "cleared" /\ sent'[k] = sent[k] + 1
  BY Typed DEF IInv, StageInv, SendData, Done
<1>4. /\ got' = got /\ next' = next /\ said' = said /\ CanSend(k)' = CanSend(k)
  BY DEF SendData, CanSend, endpoints, stream, receiver
<1>5. Head(chain[k]) \in Nat /\ Tail(chain[k]) \in Seq(Nat)
  BY <1>1, <1>3, Queued
<1>6. PICK f : f = [type |-> "data", seq |-> sent[k], msg |-> Head(chain[k])]
  OBVIOUS
<1>7. /\ f \in Frame /\ f.type = "data" /\ f \in Data /\ f.seq = sent[k] /\ f.msg = Head(chain[k])
  BY <1>1, <1>5, <1>6, FrameTypes DEF Data
<1>8. Link(k)' = Link(k) \o <<f>>
  BY <1>6 DEF SendData, Send, ToClient, ToServer, Link
<1>9. Sequenced(Link(k), sent[k]) /\ next[k] <= sent[k] /\ (Hears(k) => Gapless(F, next[k], sent[k]))
  BY <1>1 DEF Good, FlowInv, SeqInv
<1>10. Frames(Link(k)') = F \cup {f} /\ Sorted(Link(k)')
  BY <1>1, <1>7, <1>8, <1>9, JoinsData DEF Sequenced
<1>11. SeqInv(k)'
  <2>1. \A h \in F \cup {f} : h.seq < sent[k] + 1
    <3>1. \A a, b \in Nat : a < b => a < b + 1
      OBVIOUS
    <3>2. \A h \in F : h.seq < sent[k] + 1
      BY <1>1, <1>9, <3>1, DataFrames DEF Sequenced
    <3> QED
      BY <1>1, <1>7, <3>2
  <2>2. next[k] <= sent[k] + 1
    BY <1>1, <1>9
  <2>3. Hears(k)' => Gapless(F \cup {f}, next[k], sent[k] + 1)
    <3> HIDE DEF F
    <3> QED
      BY <1>1, <1>2, <1>7, <1>9, GaplessSends
  <2> QED
    BY <1>3, <1>4, <1>10, <2>1, <2>2, <2>3 DEF SeqInv, Sequenced
<1>12. OrderInv(k)'
  <2>1. Ordered(Len(said[k]), F, got[k], chain[k]) /\ \A h \in F : h.seq < f.seq
    BY <1>1, <1>7, <1>9 DEF Good, FlowInv, OrderInv, Sequenced
  <2> HIDE DEF F
  <2>2. Ordered(Len(said[k]), F \cup {f}, got[k], Tail(chain[k]))
    BY <1>1, <1>3, <1>7, <2>1, OrderedLeaves
  <2> QED
    BY <1>3, <1>4, <1>10, <2>2 DEF OrderInv
<1>13. HoleInv(k)'
  <2>1. Going(k) = Going(k)' \cup {f.msg}
    <3>1. All(chain[k]) = All(Tail(chain[k])) \cup {Head(chain[k])}
      BY <1>1, <1>3, AllTailed
    <3> QED
      BY <1>3, <1>4, <1>7, <3>1 DEF Going
  <2>2. {h.msg : h \in F \cup {f}} = {h.msg : h \in F} \cup {f.msg}
    OBVIOUS
  <2>3. PresentOf(k)' = Present(F \cup {f}, got[k], Going(k)')
    BY <1>4, <1>10 DEF PresentOf
  <2>4. PresentOf(k)' = PresentOf(k)
    <3> HIDE DEF F
    <3> QED
      BY <2>1, <2>2, <2>3 DEF PresentOf, Present, F
  <2> QED
    BY <1>1, <1>2, <1>4, <2>4 DEF Good, FlowInv, HoleInv
<1>14. InOrderOf(k)'
  BY <1>1, <1>4 DEF Good, InOrderOf
<1> QED
  BY <1>11, <1>12, <1>13, <1>14 DEF Good, FlowInv

\* The first frame of a link is taken.
LEMMA FirstFrame ==
    ASSUME IInv, NEW k \in Kinds, Heads("data", Link(k)), Link(k)' = Tail(Link(k))
    PROVE  /\ Head(Link(k)) \in Frames(Link(k)) /\ Sorted(Link(k)')
           /\ Head(Link(k)).seq \in Nat /\ Head(Link(k)).msg \in Nat
           /\ Frames(Link(k)') = Frames(Link(k)) \ {Head(Link(k))}
           /\ \A h \in Frames(Link(k)) \ {Head(Link(k))} : Head(Link(k)).seq < h.seq
           /\ Head(Link(k)).seq < sent[k]
           /\ Hears(k) => /\ Head(Link(k)).seq = next[k] /\ next[k] < sent[k]
                          /\ Gapless(Frames(Link(k)'), next[k] + 1, sent[k])
<1> DEFINE F == Frames(Link(k))
           f == Head(Link(k))
<1>1. /\ F \subseteq Data /\ Good(k) /\ Link(k) \in Seq(Frame) /\ sent[k] \in Nat /\ next[k] \in Nat
  BY Known
<1>2. /\ Sequenced(Link(k), sent[k]) /\ (Hears(k) => Gapless(F, next[k], sent[k]))
  BY <1>1 DEF Good, FlowInv, SeqInv
<1>3. /\ f \in F /\ Sorted(Link(k)') /\ Frames(Link(k)') = F \ {f}
      /\ \A h \in F \ {f} : f.seq < h.seq
  BY <1>1, <1>2, Leaves DEF Heads, Sequenced
<1>4. f.seq \in Nat /\ f.msg \in Nat /\ f.seq < sent[k]
  BY <1>1, <1>2, <1>3, DataFrames DEF Sequenced
<1> HIDE DEF F, f
<1>5. ASSUME Hears(k)
      PROVE  f.seq = next[k] /\ next[k] < sent[k] /\ Gapless(F \ {f}, next[k] + 1, sent[k])
  <2>1. f.seq = next[k] /\ next[k] < sent[k]
    BY <1>1, <1>2, <1>3, <1>4, <1>5, FirstIsNext
  <2> QED
    BY <1>1, <1>2, <1>3, <1>5, <2>1, GaplessTakes
<1> QED
  BY <1>3, <1>4, <1>5 DEF F, f

\* It reaches the endpoint.
LEMMA FlowHeard ==
    ASSUME IInv, TypeInv', Onward, NEW k \in Kinds, Heads("data", Link(k)),
           Link(k)' = Tail(Link(k)), Listening(k), Hears(k), NEW m, m = Head(Link(k)).msg,
           got'[k] = Append(got[k], m), next'[k] = next[k] + 1,
           UNCHANGED <<said, chain, sent>>, stage'[k] = stage[k], CanSend(k)' = CanSend(k)
    PROVE  Good(k)'
<1> DEFINE F == Frames(Link(k))
           P == PresentOf(k)
           f == Head(Link(k))
<1>1. /\ said[k] \in Seq(Nat) /\ got[k] \in Seq(Nat) /\ chain[k] \in Seq(Nat)
      /\ Len(said[k]) \in Nat /\ F \subseteq Data /\ Good(k)
      /\ sent[k] \in Nat /\ next[k] \in Nat
  BY Known
<1>2. /\ Hears(k)' => Hears(k)
      /\ Listening(k)' => Listening(k)
  BY Phases
<1>3. /\ f \in F /\ Sorted(Link(k)') /\ f.seq \in Nat /\ f.msg \in Nat
      /\ Frames(Link(k)') = F \ {f}
      /\ \A h \in F \ {f} : f.seq < h.seq
      /\ next[k] < sent[k] /\ Gapless(F \ {f}, next[k] + 1, sent[k])
  BY FirstFrame
<1>4. SeqInv(k)'
  <2>1. \A h \in F \ {f} : h.seq < sent[k]
    BY <1>1 DEF Good, FlowInv, SeqInv, Sequenced
  <2>2. next[k] + 1 <= sent[k]
    BY <1>1, <1>3
  <2> QED
    BY <1>3, <2>1, <2>2 DEF SeqInv, Sequenced
<1>5. Ordered(Len(said[k]), F, got[k], chain[k])
  BY <1>1 DEF Good, FlowInv, OrderInv
<1>6. OrderInv(k)'
  <2> HIDE DEF F, f
  <2>1. Ordered(Len(said[k]), F \ {f}, Append(got[k], f.msg), chain[k])
    BY <1>1, <1>3, <1>5, OrderedHeard
  <2> QED
    BY <1>3, <2>1 DEF OrderInv, f
<1>7. HoleInv(k)'
  <2>1. Going(k)' = Going(k)
    BY DEF Going
  <2>2. PresentOf(k)' = Present(F \ {f}, Append(got[k], f.msg), Going(k))
    BY <1>3, <2>1 DEF PresentOf
  <2>3. PresentOf(k)' = P
    <3> HIDE DEF F, f
    <3>1. All(Append(got[k], f.msg)) = All(got[k]) \cup {f.msg}
      BY <1>1, <1>3, AllAppended
    <3>2. {h.msg : h \in F} = {h.msg : h \in F \ {f}} \cup {f.msg}
      BY <1>3
    <3> QED
      BY <2>2, <3>1, <3>2 DEF PresentOf, Present, F
  <2> QED
    BY <1>1, <1>2, <2>3 DEF Good, FlowInv, HoleInv
<1>8. NoHole(k, said[k], P, CanSend(k))
  BY <1>1 DEF Good, FlowInv, HoleInv
<1>9. /\ f.msg \in 1..Len(said[k]) /\ f.msg \in P
      /\ \A y \in P : y \in Nat
      /\ \A i \in DOMAIN got[k] : got[k][i] \in P /\ got[k][i] < f.msg /\ got[k][i] \in Nat
      /\ \A y \in P : y < f.msg => y \in All(got[k])
  <2>1. f.msg \in 1..Len(said[k]) /\ \A i \in DOMAIN got[k] : got[k][i] < f.msg
    BY <1>3, <1>5 DEF Ordered
  <2>2. \A h \in F : h = f \/ f.msg < h.msg
    BY <1>3, <1>5 DEF Ordered
  <2>3. \A j \in DOMAIN chain[k] : f.msg < chain[k][j]
    BY <1>3, <1>5 DEF Ordered
  <2>4. Going(k) \subseteq All(chain[k])
    BY <1>1, GoingWaits DEF IInv
  <2>5. P = {h.msg : h \in F} \cup All(got[k]) \cup Going(k)
    BY DEF PresentOf, Present
  <2>6. P \subseteq 1..Len(said[k])
    BY Known
  <2>7. \A a, b \in Nat : a < b => ~(b < a)
    OBVIOUS
  <2>8. \A y \in P : y \in Nat
    BY <1>1, <2>6
  <2> HIDE DEF F, f, P
  <2>9. ASSUME NEW y \in P, y < f.msg PROVE y \in All(got[k])
    <3>1. ~(f.msg < y) /\ y # f.msg
      BY <1>3, <2>7, <2>8, <2>9
    <3>2. y \notin {h.msg : h \in F}
      BY <2>2, <3>1
    <3>3. y \notin Going(k)
      BY <2>3, <2>4, <3>1 DEF All
    <3> QED
      BY <2>5, <3>2, <3>3
  <2>10. f.msg \in P
    BY <1>3, <2>5
  <2>11. \A i \in DOMAIN got[k] : got[k][i] \in P
    BY <2>5 DEF All
  <2> QED
    BY <2>1, <2>8, <2>9, <2>10, <2>11
<1>10. InOrderOf(k)'
  <2> DEFINE e == Append(got[k], m)
             n == Len(got[k]) + 1
  <2>1. /\ m = f.msg /\ m \in Nat /\ Len(got[k]) \in Nat /\ DOMAIN got[k] = 1..Len(got[k])
        /\ e[n] = m
        /\ \A i \in DOMAIN got[k] : e[i] = got[k][i]
        /\ \A i \in DOMAIN e : i \in DOMAIN got[k] \/ i = n
    <3>1. m = f.msg /\ m \in Nat
      BY <1>3
    <3>2. got[k] \in Seq(Nat) /\ Len(got[k]) \in Nat /\ DOMAIN got[k] = 1..Len(got[k])
      BY <1>1
    <3>3. PICK q, v : q = got[k] /\ v = m
      OBVIOUS
    <3>4. /\ Append(q, v)[Len(q) + 1] = v /\ \A i \in DOMAIN q : Append(q, v)[i] = q[i]
          /\ \A i \in DOMAIN Append(q, v) : i \in DOMAIN q \/ i = Len(q) + 1
      BY <3>1, <3>2, <3>3, Appended
    <3> QED
      BY <3>1, <3>2, <3>3, <3>4
  <2> HIDE DEF e, f, F, P
  <2>2. ASSUME NEW x \in Nat, x < m, x \in 1..Len(said[k]), x \notin All(got[k]),
               k = "ws.client" \/ \E y \in P : y < x
        PROVE  said[k][x] > MaxMessage
    <3>1. x \notin P
      BY <1>9, <2>1, <2>2
    <3>2. ~(said[k][x] > MaxMessage) => x \in Missing(k, said[k], P)
      BY <2>2, <3>1 DEF Missing
    <3>3. ~(m < x)
      BY <2>1, <2>2
    <3> QED
      BY <1>8, <1>9, <2>1, <3>2, <3>3 DEF NoHole
  <2>3. ASSUME NEW i \in DOMAIN e
        PROVE  LET before == IF i > 1 THEN e[i - 1] ELSE IF k = "ws.client" THEN 0
                                                    ELSE e[i] - 1
               IN /\ before < e[i]
                  /\ \A x \in before + 1 .. e[i] - 1 : said[k][x] > MaxMessage
    <3>1. CASE i \in DOMAIN got[k]
      <4>1. i > 1 => i - 1 \in DOMAIN got[k]
        BY <2>1, <3>1
      <4>2. i > 1 => e[i - 1] = got[k][i - 1]
        BY <2>1, <4>1
      <4> QED
        BY <1>1, <2>1, <3>1, <4>2 DEF Good, InOrderOf
    <3>2. CASE i = n /\ n > 1
      <4> DEFINE l == got[k][Len(got[k])]
      <4>1. Len(got[k]) \in DOMAIN got[k] /\ n - 1 = Len(got[k])
        BY <2>1, <3>2
      <4>2. e[i - 1] = l /\ e[i] = m /\ i > 1
        BY <2>1, <3>2, <4>1
      <4>3. l \in Nat /\ l < m /\ l \in P
        BY <1>9, <2>1, <4>1
      <4>4. \A j \in DOMAIN got[k] : j = Len(got[k]) \/ got[k][j] < l
        <5>1. \A j \in DOMAIN got[k] : j = Len(got[k]) \/ j < Len(got[k])
          BY <2>1
        <5> QED
          BY <1>5, <4>1, <5>1 DEF Ordered
      <4> HIDE DEF l
      <4>5. ASSUME NEW x \in l + 1 .. m - 1 PROVE said[k][x] > MaxMessage
        <5>1. x \in Nat /\ l < x /\ x < m /\ ~(x < l) /\ x # l
          BY <2>1, <4>3
        <5>2. x \in 1..Len(said[k])
          <6>1. m <= Len(said[k])
            BY <1>1, <1>9, <2>1
          <6> QED
            BY <1>1, <2>1, <4>3, <5>1, <6>1
        <5>3. x \notin All(got[k])
          BY <4>4, <5>1 DEF All, l
        <5> QED
          BY <2>2, <4>3, <5>1, <5>2, <5>3
      <4> QED
        BY <4>2, <4>3, <4>5
    <3>3. CASE i = n /\ ~(n > 1)
      <4>1. e[i] = m /\ ~(i > 1) /\ 0 < m
        BY <1>1, <1>9, <2>1, <3>3
      <4>2. All(got[k]) = {}
        <5>1. DOMAIN got[k] = {}
          BY <2>1, <3>3
        <5> QED
          BY <5>1 DEF All
      <4>3. CASE k = "ws.client"
        <5>1. \A x \in 0 + 1 .. m - 1 : x \in Nat /\ x < m /\ x \in 1..Len(said[k])
          <6>1. PICK top : top = Len(said[k])
            OBVIOUS
          <6>2. m \in Nat /\ top \in Nat /\ m <= top
            BY <1>1, <1>9, <2>1, <6>1
          <6>3. \A x \in 0 + 1 .. m - 1 : x \in Nat /\ x < m /\ x \in 1..top
            BY <6>2
          <6> QED
            BY <6>1, <6>3
        <5>2. \A x \in 0 + 1 .. m - 1 : said[k][x] > MaxMessage
          BY <2>2, <4>2, <4>3, <5>1
        <5> QED
          BY <4>1, <4>3, <5>2
      <4>4. CASE k # "ws.client"
        <5>1. m - 1 < m /\ (m - 1) + 1 .. m - 1 = {}
          BY <2>1
        <5> QED
          BY <4>1, <4>4, <5>1
      <4> QED
        BY <4>3, <4>4
    <3> QED
      BY <2>1, <2>3, <3>1, <3>2, <3>3
  <2>4. got'[k] = e /\ said' = said
    BY DEF e
  <2> QED
    BY <2>3, <2>4 DEF InOrderOf
<1> QED
  BY <1>4, <1>6, <1>7, <1>10 DEF Good, FlowInv

\* It reaches nobody.
LEMMA FlowLost ==
    ASSUME IInv, TypeInv', Onward, NEW k \in Kinds, Heads("data", Link(k)),
           Link(k)' = Tail(Link(k)), ~Listening(k)',
           UNCHANGED <<got, said, chain, sent>>,
           \/ ~Hears(k)' /\ next'[k] = next[k]
           \/ Hears(k) /\ next'[k] = next[k] + 1
    PROVE  Good(k)'
<1> DEFINE F == Frames(Link(k))
           f == Head(Link(k))
<1>1. /\ said[k] \in Seq(Nat) /\ got[k] \in Seq(Nat) /\ chain[k] \in Seq(Nat)
      /\ Len(said[k]) \in Nat /\ F \subseteq Data /\ Good(k)
      /\ sent[k] \in Nat /\ next[k] \in Nat
  BY Known
<1>2. Hears(k)' => Hears(k)
  BY Phases
<1>3. /\ Sorted(Link(k)') /\ Frames(Link(k)') = F \ {f}
      /\ Hears(k) => next[k] < sent[k] /\ Gapless(F \ {f}, next[k] + 1, sent[k])
  BY FirstFrame
<1>4. SeqInv(k)'
  <2>1. (\A h \in F \ {f} : h.seq < sent[k]) /\ next[k] <= sent[k]
    BY <1>1 DEF Good, FlowInv, SeqInv, Sequenced
  <2>2. Hears(k) => next[k] + 1 <= sent[k]
    BY <1>1, <1>3
  <2> QED
    BY <1>2, <1>3, <2>1, <2>2 DEF SeqInv, Sequenced
<1>5. OrderInv(k)'
  <2>1. Ordered(Len(said[k]), F, got[k], chain[k])
    BY <1>1 DEF Good, FlowInv, OrderInv
  <2>2. Len(said[k]) <= Len(said[k]) /\ F \ {f} \in SUBSET F
    BY <1>1
  <2> HIDE DEF F, f
  <2>3. Ordered(Len(said[k]), F \ {f}, got[k], chain[k])
    BY <1>1, <2>1, <2>2, OrderedLess
  <2> QED
    BY <1>3, <2>3 DEF OrderInv
<1>6. HoleInv(k)'
  BY DEF HoleInv
<1>7. InOrderOf(k)'
  BY <1>1 DEF Good, InOrderOf
<1> QED
  BY <1>4, <1>5, <1>6, <1>7 DEF Good, FlowInv

-----------------------------------------------------------------------------
(* What the actions do to the directions.                                      *)

\* No data frame joins or leaves a link.
NoData(link, more) ==
    \/ more = link
    \/ \E f \in Frame : f.type # "data" /\ more = link \o <<f>>
    \/ \E bytes \in Nat : more = link \o Credit(bytes)
    \/ link # <<>> /\ Head(link).type # "data" /\ more = Tail(link)

\* A link that gains or loses no data keeps its data in order.
LEMMA NoDataMoves ==
    ASSUME NEW link \in Seq(Frame), NEW more, NoData(link, more), Sorted(link)
    PROVE  Frames(more) = Frames(link) /\ Sorted(more)
<1>1. CASE more = link
  BY <1>1
<1>2. CASE \E f \in Frame : f.type # "data" /\ more = link \o <<f>>
  BY <1>2, Pushes
<1>3. ASSUME NEW bytes \in Nat, more = link \o Credit(bytes)
      PROVE  Frames(more) = Frames(link) /\ Sorted(more)
  <2>1. PICK frames : frames = Credit(bytes)
    OBVIOUS
  <2>2. frames \in Seq(Frame) /\ ~Has(frames, "data")
    BY <2>1, CreditFrames
  <2> QED
    BY <1>3, <2>1, <2>2, Joins
<1>4. CASE link # <<>> /\ Head(link).type # "data" /\ more = Tail(link)
  BY <1>4, Leaves
<1> QED
  BY <1>1, <1>2, <1>3, <1>4 DEF NoData

Put(k) == /\ UNCHANGED <<said, got, chain, sent>> /\ next'[k] = next[k]
          /\ stage' = stage \/ \E x \in Kinds : stage' = Woken(x)

\* A step that wakes a sender at most leaves messages, chain and counters as they are.
LEMMA PutStays ==
    ASSUME IInv, NEW k \in Kinds, Put(k)
    PROVE  Stays(k)
<1>1. stage \in [Kinds -> Stage]
  BY Typed DEF IInv
<1>2. stage'[k] = "cleared" <=> stage[k] = "cleared"
  BY <1>1 DEF Put, Woken
<1> QED
  BY <1>2 DEF Put, Stays

\* Such a step keeps order and completeness when it moves no data either.
LEMMA FlowPut ==
    ASSUME IInv, TypeInv', Onward, NEW k \in Kinds, Put(k), NoData(Link(k), Link(k)')
    PROVE  Good(k)'
<1>1. Link(k) \in Seq(Frame) /\ Sorted(Link(k))
  BY Known DEF Good, FlowInv, SeqInv, Sequenced
<1>2. Frames(Link(k)') = Frames(Link(k)) /\ Sorted(Link(k)')
  BY <1>1, NoDataMoves
<1> QED
  BY <1>2, PutStays, FlowStays

\* Steps in which no message moves.
LEMMA FlowSilent ==
    ASSUME IInv, TypeInv', Onward, UNCHANGED <<said, got, chain, sent, next>>,
           stage' = stage \/ (\E x \in Kinds : stage' = Woken(x)),
           NoData(down, down'), NoData(up, up')
    PROVE  \A k \in Kinds : Good(k)'
<1> SUFFICES ASSUME NEW k \in Kinds PROVE Good(k)'
  OBVIOUS
<1>1. NoData(Link(k), Link(k)')
  BY DEF Link
<1>2. Put(k)
  BY DEF Put
<1> QED
  BY <1>1, <1>2, FlowPut

\* Reading a frame that is no data moves no data.
LEMMA NoDataTail ==
    ASSUME NEW link, NEW more, NEW type, type # "data", Heads(type, link), more = Tail(link)
    PROVE  NoData(link, more)
  BY DEF NoData, Heads

\* A link that stays as it is moves no data.
LEMMA NoDataSame == \A link : NoData(link, link)
  BY DEF NoData

\* The server's steps without data keep order and completeness.
LEMMA FlowServer ==
    ASSUME IInv, TypeInv', Onward,
           \/ SendRequestEnd \/ PublicClosed \/ ServerReceivesStart
           \/ ServerReceivesAbort \/ ServerReceivesCredit
           \/ Timeouts \/ PublicConnects \/ PublicLeaves \/ PublicBreaks
    PROVE  \A k \in Kinds : Good(k)'
<1> USE TwoKinds DEF IInv
<1>1. CASE SendRequestEnd
  <2>1. PICK f : f = [type |-> "end", last |-> Head(ends["ws.client"])]
    OBVIOUS
  <2>2. /\ f \in Frame /\ f.type = "end" /\ down' = down \o <<f>> /\ up' = up
    BY <1>1, <2>1, EndTypes, FrameTypes DEF SendRequestEnd, ToClient
  <2>3. NoData(down, down') /\ NoData(up, up')
    BY <2>2 DEF NoData
  <2> QED
    BY <1>1, <2>3, FlowSilent DEF SendRequestEnd, ServerCleansUp, CreditsGo
<1>2. CASE PublicClosed \/ PublicLeaves \/ PublicBreaks \/ OtherEvent
  BY <1>2, NoDataSame, FlowSilent
  DEF PublicClosed, PublicLeaves, PublicBreaks, OtherEvent, sender, receiver
<1>3. CASE StartTimeout \/ PendingTimeout \/ Hibernate
  BY <1>3, NoDataSame, FlowSilent
  DEF StartTimeout, PendingTimeout, Hibernate, ServerAborts, ServerCleansUp, CreditsGo, endpoints
<1>4. CASE PublicConnects
  <2>1. PICK f : f = [type |-> "request"]
    OBVIOUS
  <2>2. /\ f \in Frame /\ f.type = "request" /\ down' = down \o <<f>> /\ up' = up
    BY <1>4, <2>1, FrameTypes DEF PublicConnects, ToClient
  <2>3. NoData(down, down') /\ NoData(up, up')
    BY <2>2 DEF NoData
  <2> QED
    BY <1>4, <2>3, FlowSilent DEF PublicConnects, endpoints
<1>5. CASE ServerReceivesStart \/ ServerReceivesAbort \/ ServerReceivesCredit
  <2>1. NoData(up, up') /\ NoData(down, down')
    BY <1>5, NoDataTail, NoDataSame
    DEF ServerReceivesStart, ServerReceivesAbort, ServerReceivesCredit
  <2> QED
    BY <1>5, <2>1, FlowSilent
    DEF ServerReceivesStart, ServerReceivesAbort, ServerReceivesCredit, Granted,
        ServerAborts, ServerCleansUp, CreditsGo, receiver
<1> QED
  BY <1>1, <1>2, <1>3, <1>4, <1>5 DEF Timeouts

\* The client's steps without data keep order and completeness.
LEMMA FlowClient ==
    ASSUME IInv, TypeInv', Onward,
           \/ SendResponseStart \/ SendResponseEnd \/ ClientReceivesRequest
           \/ ClientReceivesAbort \/ ClientReceivesCredit
           \/ LocalAccepts \/ LocalRefuses \/ LocalCloses
    PROVE  \A k \in Kinds : Good(k)'
<1> USE TwoKinds DEF IInv
<1>1. CASE SendResponseStart
  <2>1. PICK f : f = [type |-> "start"]
    OBVIOUS
  <2>2. /\ f \in Frame /\ f.type = "start" /\ up' = up \o <<f>> /\ down' = down
    BY <1>1, <2>1, FrameTypes DEF SendResponseStart, ToServer
  <2>3. NoData(down, down') /\ NoData(up, up')
    BY <2>2 DEF NoData
  <2> QED
    BY <1>1, <2>3, FlowSilent DEF SendResponseStart, endpoints, sender, receiver
<1>2. CASE SendResponseEnd
  <2>1. PICK f : f = [type |-> "end", last |-> Head(ends["ws.server"])]
    OBVIOUS
  <2>2. /\ f \in Frame /\ f.type = "end" /\ up' = up \o <<f>> /\ down' = down
    BY <1>2, <2>1, EndTypes, FrameTypes DEF SendResponseEnd, ToServer
  <2>3. NoData(down, down') /\ NoData(up, up')
    BY <2>2 DEF NoData
  <2> QED
    BY <1>2, <2>3, FlowSilent DEF SendResponseEnd, CreditsGo, endpoints
<1>3. CASE LocalRefuses
  <2>1. PICK f : f = [type |-> "abort"]
    OBVIOUS
  <2>2. /\ f \in Frame /\ f.type = "abort" /\ up' = up \o <<f>> /\ down' = down
    BY <1>3, <2>1, FrameTypes DEF LocalRefuses, ToServer
  <2>3. NoData(down, down') /\ NoData(up, up')
    BY <2>2 DEF NoData
  <2> QED
    BY <1>3, <2>3, FlowSilent DEF LocalRefuses, CreditsGo
<1>4. CASE LocalAccepts \/ LocalCloses
  BY <1>4, NoDataSame, FlowSilent DEF LocalAccepts, LocalCloses, sender, receiver
<1>5. CASE ClientReceivesRequest \/ ClientReceivesAbort \/ ClientReceivesCredit
  <2>1. NoData(up, up') /\ NoData(down, down')
    BY <1>5, NoDataTail, NoDataSame
    DEF ClientReceivesRequest, ClientReceivesAbort, ClientReceivesCredit
  <2> QED
    BY <1>5, <2>1, FlowSilent
    DEF ClientReceivesRequest, ClientReceivesAbort, ClientReceivesCredit, Granted,
        ClientAborts, CreditsGo, endpoints, receiver
<1> QED
  BY <1>1, <1>2, <1>3, <1>4, <1>5

\* A send keeps order and completeness.
LEMMA FlowSends ==
    ASSUME IInv, TypeInv', Onward, NEW x \in Kinds, Sends(x)
    PROVE  \A k \in Kinds : Good(k)'
<1> USE DEF IInv
<1> SUFFICES ASSUME NEW k \in Kinds PROVE Good(k)'
  OBVIOUS
<1>0. stage \in [Kinds -> Stage] /\ chain \in [Kinds -> Seq(Nat)] /\ sent \in [Kinds -> Nat]
  BY Typed
<1>1. CASE k = x /\ SendData(x)
  BY <1>1, FlowSent
<1>2. CASE k = x /\ AskCredit(x) /\ ~CanSend(x)
  BY <1>2, FlowDropped
<1>3. CASE ~(k = x /\ (SendData(x) \/ ~CanSend(x)))
  <2>1. Link(k)' = Link(k)
    BY <1>3, TwoKinds
    DEF Sends, AskCredit, SendData, Send, ToClient, ToServer, Link, Kinds
  <2>2. Stays(k)
    <3>1. CanSend(k)' <=> CanSend(k)
      BY DEF Sends, AskCredit, SendData, CanSend, stream
    <3>2. CASE k # x
      BY <1>0, <3>2 DEF Sends, AskCredit, SendData, Done, Stays, endpoints, receiver
    <3>3. CASE k = x /\ AskCredit(x) /\ CanSend(x)
      BY <1>0, <3>1, <3>3 DEF AskCredit, Stays, endpoints, receiver
    <3> QED
      BY <1>3, <3>2, <3>3 DEF Sends
  <2>3. Sorted(Link(k))
    BY DEF FlowInv, SeqInv, Sequenced
  <2> QED
    BY <2>1, <2>2, <2>3, FlowStays
<1> QED
  BY <1>1, <1>2, <1>3 DEF Sends

\* A new message keeps order and completeness.
LEMMA FlowSpeaks ==
    ASSUME IInv, TypeInv', Onward, NEW x \in Kinds, NEW b \in Nat, Speaks(x, b),
           UNCHANGED <<got, sent, next, stage, down, up, stream>>,
           \/ chain' = chain /\ (~CanSend(x) \/ b > MaxMessage
                                 \/ (x # "ws.client" /\ NothingYet(x)))
           \/ Enqueue(x) /\ CanSend(x)
    PROVE  \A k \in Kinds : Good(k)'
<1> USE DEF IInv
<1> SUFFICES ASSUME NEW k \in Kinds PROVE Good(k)'
  OBVIOUS
<1>0. said \in [Kinds -> Seq(Nat)] /\ chain \in [Kinds -> Seq(Nat)]
  BY Typed
<1>1. CASE k = x
  BY <1>1, FlowSaid
<1>2. CASE k # x
  <2>1. Link(k)' = Link(k) /\ Stays(k)
    BY <1>0, <1>2 DEF Link, Stays, Speaks, Enqueue
  <2>2. Sorted(Link(k))
    BY DEF FlowInv, SeqInv, Sequenced
  <2> QED
    BY <2>1, <2>2, FlowStays
<1> QED
  BY <1>1, <1>2

\* The messages of the two endpoints keep order and completeness.
LEMMA FlowEndpoints ==
    ASSUME IInv, TypeInv', Onward,
           \/ \E bytes \in Sizes["ws.client"] : PublicSends(bytes)
           \/ \E bytes \in Sizes["ws.server"] : LocalSends(bytes)
    PROVE  \A k \in Kinds : Good(k)'
<1> USE TwoKinds DEF IInv
<1>1. ASSUME NEW b \in Sizes["ws.client"], PublicSends(b) PROVE \A k \in Kinds : Good(k)'
  <2>1. b \in Nat /\ Speaks("ws.client", b)
        /\ UNCHANGED <<got, sent, next, stage, down, up, stream>>
    BY <1>1, SizesAssumption DEF PublicSends, receiver
  <2>2. \/ chain' = chain /\ (~CanSend("ws.client") \/ b > MaxMessage)
        \/ Enqueue("ws.client") /\ CanSend("ws.client")
    BY <1>1 DEF PublicSends, CanSend
  <2> QED
    BY <2>1, <2>2, FlowSpeaks
<1>2. ASSUME NEW b \in Sizes["ws.server"], LocalSends(b) PROVE \A k \in Kinds : Good(k)'
  <2>1. b \in Nat /\ Speaks("ws.server", b)
        /\ UNCHANGED <<got, sent, next, stage, down, up, stream>>
    BY <1>2, SizesAssumption DEF LocalSends, receiver
  <2>2. ASSUME cli = "starting" PROVE NothingYet("ws.server")
    <3>1. chain["ws.server"] = <<>> /\ got["ws.server"] = <<>> /\ ~Has(up, "data")
      BY <2>2 DEF CallInv
    <3>2. Frames(up) = {}
      BY <3>1 DEF Frames, Has
    <3> QED
      BY <3>1, <3>2 DEF NothingYet, Link
  <2>3. \/ chain' = chain /\ (~CanSend("ws.server") \/ b > MaxMessage
                              \/ NothingYet("ws.server"))
        \/ Enqueue("ws.server") /\ CanSend("ws.server")
    BY <1>2, <2>2 DEF LocalSends, CanSend
  <2> QED
    BY <2>1, <2>3, FlowSpeaks
<1> QED
  BY <1>1, <1>2

\* The connection fails, not for a seq: nothing else changes.
Fails == /\ UNCHANGED <<said, got>>
         /\ fault' \in {"credit.violation", "lastSeq.mismatch"}

\* What the server reads keeps order and completeness or fails the connection.
LEMMA FlowServerReceives ==
    ASSUME IInv, TypeInv', Onward, ServerIgnores \/ ServerReceivesData \/ ServerReceivesEnd
    PROVE  (\A k \in Kinds : Good(k)') \/ Fails
<1> USE TwoKinds DEF IInv
<1>0. \A k \in Kinds : k # "ws.server" => k = "ws.client"
  BY DEF Kinds
<1>l. Link("ws.server") = up /\ Link("ws.client") = down
      /\ Link("ws.server")' = up' /\ Link("ws.client")' = down'
  BY DEF Link
<1>1. CASE ServerIgnores
  <2>1. /\ UNCHANGED <<said, got, chain, stage, sent, next, down>>
        /\ srv \in {"gone", "forgotten"} /\ srv' = srv /\ up # <<>> /\ up' = Tail(up)
    BY <1>1 DEF ServerIgnores, stream, sender, receiver, Heads
  <2>2. CASE Head(up).type = "data"
    <3>1. Good("ws.server")'
      <4>1. ~Listening("ws.server")' /\ ~Hears("ws.server")'
        BY <2>1 DEF Listening, Hears
      <4> QED
        BY <1>l, <2>1, <2>2, <4>1, FlowLost DEF Heads
    <3>2. Good("ws.client")'
      BY <1>l, <2>1, NoDataSame, FlowPut DEF Put
    <3> QED
      BY <1>0, <3>1, <3>2
  <2>3. CASE Head(up).type # "data"
    <3>1. NoData(up, up') /\ NoData(down, down')
      BY <2>1, <2>3, NoDataSame DEF NoData
    <3> QED
      BY <2>1, <3>1, FlowSilent
  <2> QED
    BY <2>2, <2>3
<1>2. CASE ServerReceivesEnd
  <2>1. CASE Fail("lastSeq.mismatch")
    BY <2>1 DEF Fail, Fails, endpoints
  <2>2. CASE ServerCleansUp /\ UNCHANGED <<said, got, chain, sent, next>>
    <3>1. NoData(up, up') /\ NoData(down, down')
      BY <1>2, NoDataTail, NoDataSame DEF ServerReceivesEnd
    <3> QED
      BY <2>2, <3>1, FlowSilent DEF ServerCleansUp, CreditsGo
  <2> QED
    BY <1>2, <2>1, <2>2 DEF ServerReceivesEnd
<1>3. CASE ServerReceivesData
  <2> DEFINE frame == Head(up)
  <2>0. Heads("data", up) /\ srv = "open" /\ up' = Tail(up)
    BY <1>3 DEF ServerReceivesData
  <2>h. Hears("ws.server") /\ InSequence("ws.server", frame)
        /\ frame.msg \in Nat /\ Bytes("ws.server", frame) \in Nat
    <3>1. Hears("ws.server")
      BY <2>0 DEF Hears
    <3> QED
      BY <1>l, <2>0, <3>1, FirstFrame, HeadTypes DEF InSequence
  <2>n. next \in [Kinds -> Nat] /\ got \in [Kinds -> Seq(Nat)]
    BY Typed
  <2>1. CASE Fail("credit.violation")
    BY <2>1 DEF Fail, Fails, endpoints
  <2>2. CASE ServerTakes(frame)
    <3>1. /\ UNCHANGED <<said, chain, stage, sent, srv, cli, pub>>
          /\ next' = [next EXCEPT !["ws.server"] = @ + 1]
      BY <2>2 DEF ServerTakes, Consume, stream, sender
    <3>2. next'["ws.server"] = next["ws.server"] + 1 /\ next'["ws.client"] = next["ws.client"]
      BY <2>n, <3>1
    <3>3. CASE pub = "open"
      <4>1. /\ got' = [got EXCEPT !["ws.server"] = Append(@, frame.msg)]
            /\ down' = down \o Credit(Bytes("ws.server", frame))
        BY <2>2, <3>3 DEF ServerTakes, Delivered
      <4>2. /\ got'["ws.server"] = Append(got["ws.server"], frame.msg)
            /\ got'["ws.client"] = got["ws.client"]
        BY <2>n, <4>1
      <4>3. Good("ws.server")'
        <5>1. Listening("ws.server") /\ CanSend("ws.server")' = CanSend("ws.server")
          BY <2>0, <3>1, <3>3 DEF Listening, CanSend
        <5> QED
          BY <1>l, <2>0, <2>h, <3>1, <3>2, <4>2, <5>1, FlowHeard
      <4>4. Good("ws.client")'
        <5>1. NoData(down, down')
          BY <2>h, <4>1 DEF NoData
        <5>2. Frames(down') = Frames(down) /\ Sorted(down')
          BY <1>l, <5>1, TypedRest, NoDataMoves DEF FlowInv, SeqInv, Sequenced
        <5>3. Stays("ws.client")
          BY <3>1, <3>2, <4>2 DEF Stays
        <5> QED
          BY <1>l, <5>2, <5>3, FlowStays
      <4> QED
        BY <1>0, <4>3, <4>4
    <3>4. CASE pub # "open"
      <4>1. UNCHANGED <<got, down>>
        BY <2>2, <3>4 DEF ServerTakes
      <4>2. Good("ws.server")'
        <5>1. ~Listening("ws.server")'
          BY <2>0, <3>1, <3>4 DEF Listening
        <5> QED
          BY <1>l, <2>0, <2>h, <3>1, <3>2, <4>1, <5>1, FlowLost
      <4>3. Good("ws.client")'
        BY <1>l, <3>1, <3>2, <4>1, NoDataSame, FlowPut DEF Put
      <4> QED
        BY <1>0, <4>2, <4>3
    <3> QED
      BY <3>3, <3>4
  <2>3. CASE ServerCannotSend(frame)
    <3>1. /\ UNCHANGED <<said, got, chain, sent>> /\ srv' = "gone"
          /\ stage' = Woken("ws.client")
          /\ next' = [next EXCEPT !["ws.server"] = @ + 1]
      BY <2>3 DEF ServerCannotSend, Consume, ServerAborts, ServerCleansUp, CreditsGo
    <3>2. next'["ws.server"] = next["ws.server"] + 1 /\ next'["ws.client"] = next["ws.client"]
      BY <2>n, <3>1
    <3>3. Good("ws.server")'
      <4>1. ~Listening("ws.server")'
        BY <3>1 DEF Listening
      <4> QED
        BY <1>l, <2>0, <2>h, <3>1, <3>2, <4>1, FlowLost
    <3>4. NoData(down, down')
      <4>1. PICK f : f = [type |-> "abort"]
        OBVIOUS
      <4>2. f \in Frame /\ f.type = "abort" /\ down' = down \o <<f>>
        BY <2>3, <4>1, FrameTypes, TypedRest, Pushes DEF ServerCannotSend
      <4> QED
        BY <4>2 DEF NoData
    <3>5. Good("ws.client")'
      BY <1>l, <3>1, <3>2, <3>4, FlowPut DEF Put
    <3> QED
      BY <1>0, <3>3, <3>5
  <2>4. CASE ServerOverflows(frame)
    <3>1. /\ UNCHANGED <<said, got, chain, sent, down>> /\ srv' = "gone"
          /\ stage' = Woken("ws.client")
          /\ next' = [next EXCEPT !["ws.server"] = @ + 1]
      BY <2>4 DEF ServerOverflows, Consume, ServerCleansUp, CreditsGo
    <3>2. next'["ws.server"] = next["ws.server"] + 1 /\ next'["ws.client"] = next["ws.client"]
      BY <2>n, <3>1
    <3>3. Good("ws.server")'
      <4>1. ~Listening("ws.server")'
        BY <3>1 DEF Listening
      <4> QED
        BY <1>l, <2>0, <2>h, <3>1, <3>2, <4>1, FlowLost
    <3>4. Good("ws.client")'
      BY <1>l, <3>1, <3>2, NoDataSame, FlowPut DEF Put
    <3> QED
      BY <1>0, <3>3, <3>4
  <2> QED
    BY <1>3, <2>h, <2>1, <2>2, <2>3, <2>4 DEF ServerReceivesData
<1> QED
  BY <1>1, <1>2, <1>3

\* What the client reads keeps order and completeness or fails the connection.
LEMMA FlowClientReceives ==
    ASSUME IInv, TypeInv', Onward, ClientIgnores \/ ClientReceivesData \/ ClientReceivesEnd
    PROVE  (\A k \in Kinds : Good(k)') \/ Fails
<1> USE TwoKinds DEF IInv
<1>0. \A k \in Kinds : k # "ws.server" => k = "ws.client"
  BY DEF Kinds
<1>l. Link("ws.server") = up /\ Link("ws.client") = down
      /\ Link("ws.server")' = up' /\ Link("ws.client")' = down'
  BY DEF Link
<1>1. CASE ClientIgnores
  <2>1. /\ UNCHANGED <<said, got, chain, stage, sent, next, up>>
        /\ cli = "gone" /\ cli' = cli /\ down # <<>> /\ down' = Tail(down)
    BY <1>1 DEF ClientIgnores, endpoints, stream, sender, receiver, Heads
  <2>2. CASE Head(down).type = "data"
    <3>1. Good("ws.client")'
      <4>1. ~Listening("ws.client")' /\ ~Hears("ws.client")'
        BY <2>1 DEF Listening, Hears
      <4> QED
        BY <1>l, <2>1, <2>2, <4>1, FlowLost DEF Heads
    <3>2. Good("ws.server")'
      BY <1>l, <2>1, NoDataSame, FlowPut DEF Put
    <3> QED
      BY <1>0, <3>1, <3>2
  <2>3. CASE Head(down).type # "data"
    <3>1. NoData(up, up') /\ NoData(down, down')
      BY <2>1, <2>3, NoDataSame DEF NoData
    <3> QED
      BY <2>1, <3>1, FlowSilent
  <2> QED
    BY <2>2, <2>3
<1>2. CASE ClientReceivesEnd
  <2>1. CASE Fail("lastSeq.mismatch")
    BY <2>1 DEF Fail, Fails, endpoints
  <2>2. CASE UNCHANGED <<said, got, sender, receiver>>
    <3>1. NoData(up, up') /\ NoData(down, down')
      BY <1>2, NoDataTail, NoDataSame DEF ClientReceivesEnd
    <3> QED
      BY <2>2, <3>1, FlowSilent DEF sender, receiver
  <2> QED
    BY <1>2, <2>1, <2>2 DEF ClientReceivesEnd
<1>3. CASE ClientReceivesData
  <2> DEFINE frame == Head(down)
  <2>0. Heads("data", down) /\ cli # "gone" /\ down' = Tail(down)
    BY <1>3 DEF ClientReceivesData
  <2>h. Hears("ws.client") /\ InSequence("ws.client", frame)
        /\ frame.msg \in Nat /\ Bytes("ws.client", frame) \in Nat
    <3>1. Hears("ws.client")
      BY <2>0 DEF Hears
    <3> QED
      BY <1>l, <2>0, <3>1, FirstFrame, HeadTypes DEF InSequence
  <2>n. next \in [Kinds -> Nat] /\ got \in [Kinds -> Seq(Nat)] /\ stage \in [Kinds -> Stage]
    BY Typed
  <2>1. CASE Fail("credit.violation")
    BY <2>1 DEF Fail, Fails, endpoints
  <2>2. CASE ClientTakes(frame)
    <3>1. /\ UNCHANGED <<said, chain, sent, srv>>
          /\ next' = [next EXCEPT !["ws.client"] = @ + 1]
          /\ stage' = stage \/ stage' = Woken("ws.server")
          /\ cli' = cli \/ cli' = "gone"
          /\ loc' = loc \/ loc' = LocalClosing
      BY <2>2 DEF ClientTakes, Consume, ClientAborts, CreditsGo
    <3>2. next'["ws.client"] = next["ws.client"] + 1 /\ next'["ws.server"] = next["ws.server"]
      BY <2>n, <3>1
    <3>3. stage'["ws.client"] = stage["ws.client"]
      BY <2>n, <3>1 DEF Woken
    <3>4. NoData(up, up')
      <4>1. PICK f : f = [type |-> "abort"]
        OBVIOUS
      <4>2. up' = up \o Credit(Bytes("ws.client", frame)) \/ up' = Append(up, f)
        BY <2>2, <4>1 DEF ClientTakes
      <4>3. f \in Frame /\ f.type = "abort" /\ Append(up, f) = up \o <<f>>
        BY <4>1, FrameTypes, TypedRest, Pushes
      <4> QED
        BY <2>h, <4>2, <4>3 DEF NoData
    <3>5. UNCHANGED got["ws.server"] => Good("ws.server")'
      <4>1. Frames(up') = Frames(up) /\ Sorted(up')
        BY <1>l, <3>4, TypedRest, NoDataMoves DEF FlowInv, SeqInv, Sequenced
      <4>2. stage'["ws.server"] = "cleared" <=> stage["ws.server"] = "cleared"
        BY <2>n, <3>1 DEF Woken
      <4>3. UNCHANGED got["ws.server"] => Stays("ws.server")
        BY <3>1, <3>2, <4>2 DEF Stays
      <4> QED
        BY <1>l, <4>1, <4>3, FlowStays
    <3>6. CASE loc = "open"
      <4>1. got' = [got EXCEPT !["ws.client"] = Append(@, frame.msg)]
        BY <2>2, <3>6 DEF ClientTakes, Delivered
      <4>2. /\ got'["ws.client"] = Append(got["ws.client"], frame.msg)
            /\ got'["ws.server"] = got["ws.server"]
        BY <2>n, <4>1
      <4>3. Good("ws.client")'
        <5>1. Listening("ws.client") /\ CanSend("ws.client")' = CanSend("ws.client")
          BY <2>0, <3>1, <3>6 DEF Listening, CanSend
        <5> QED
          BY <1>l, <2>0, <2>h, <3>1, <3>2, <3>3, <4>2, <5>1, FlowHeard
      <4> QED
        BY <1>0, <3>5, <4>2, <4>3
    <3>7. CASE loc # "open"
      <4>1. UNCHANGED got
        BY <2>2, <3>7 DEF ClientTakes
      <4>2. Good("ws.client")'
        <5>1. cli \in {"open", "gone"}
          <6>1. Has(down, "data")
            BY <2>0, TypedRest, Leaves DEF Heads
          <6> QED
            BY <6>1 DEF CallInv
        <5>2. loc \notin {"none", "connecting", "open"}
          BY <3>7, <5>1 DEF CallInv
        <5>3. ~Listening("ws.client")'
          BY <3>1, <5>2 DEF Listening, LocalClosing
        <5> QED
          BY <1>l, <2>0, <2>h, <3>1, <3>2, <4>1, <5>3, FlowLost
      <4> QED
        BY <1>0, <3>5, <4>1, <4>2
    <3> QED
      BY <3>6, <3>7
  <2> QED
    BY <1>3, <2>h, <2>1, <2>2 DEF ClientReceivesData
<1> QED
  BY <1>1, <1>2, <1>3

\* Every step keeps order and completeness or fails the connection.
LEMMA FlowStep ==
    ASSUME IInv, Next
    PROVE  (\A k \in Kinds : Good(k)') \/ Fails
<1>1. TypeInv' /\ Onward
  BY TypeStep, OnwardStep
<1> QED
  BY <1>1, TwoKinds, FlowServer, FlowClient, FlowSends, FlowEndpoints, FlowServerReceives,
     FlowClientReceives
  DEF Next, ServerSteps, ClientSteps, Endpoints

\* No step fails the connection for a seq.
LEMMA FaultStep ==
    ASSUME IInv, Next
    PROVE  NoSeqFault'
<1> USE TwoKinds DEF IInv
<1>l. Link("ws.server") = up /\ Link("ws.client") = down
      /\ Link("ws.server")' = up' /\ Link("ws.client")' = down'
  BY DEF Link
<1>0. ASSUME fault' \in {fault, "credit.violation", "lastSeq.mismatch"} PROVE NoSeqFault'
  BY <1>0 DEF NoSeqFault
<1>1. CASE SendRequestEnd \/ PublicClosed \/ SendResponseStart \/ SendResponseEnd \/ Endpoints
           \/ \E k \in Kinds : Sends(k)
  BY <1>0, <1>1
  DEF SendRequestEnd, PublicClosed, SendResponseStart, SendResponseEnd, Endpoints, Sends,
      AskCredit, SendData, PublicConnects, PublicLeaves, PublicBreaks, LocalAccepts,
      LocalRefuses, LocalCloses, PublicSends, LocalSends
<1>2. CASE Timeouts \/ ServerIgnores \/ ServerReceivesStart \/ ServerReceivesEnd
           \/ ServerReceivesAbort \/ ServerReceivesCredit
  BY <1>0, <1>2
  DEF Timeouts, StartTimeout, PendingTimeout, Hibernate, OtherEvent, ServerIgnores,
      ServerReceivesStart, ServerReceivesEnd, ServerReceivesAbort, ServerReceivesCredit, Fail
<1>3. CASE ClientReceivesRequest \/ ClientIgnores \/ ClientReceivesEnd \/ ClientReceivesAbort
           \/ ClientReceivesCredit
  BY <1>0, <1>3
  DEF ClientReceivesRequest, ClientIgnores, ClientReceivesEnd, ClientReceivesAbort,
      ClientReceivesCredit, Fail
<1>4. CASE ServerReceivesData
  <2>1. InSequence("ws.server", Head(up))
    <3>1. Heads("data", up) /\ up' = Tail(up) /\ Hears("ws.server")
      BY <1>4 DEF ServerReceivesData, Hears
    <3> QED
      BY <1>l, <3>1, FirstFrame DEF InSequence
  <2> QED
    BY <1>0, <1>4, <2>1
    DEF ServerReceivesData, Fail, ServerTakes, ServerCannotSend, ServerOverflows
<1>5. CASE ClientReceivesData
  <2>1. InSequence("ws.client", Head(down))
    <3>1. Heads("data", down) /\ down' = Tail(down) /\ Hears("ws.client")
      BY <1>5 DEF ClientReceivesData, Hears
    <3> QED
      BY <1>l, <3>1, FirstFrame DEF InSequence
  <2> QED
    BY <1>0, <1>5, <2>1 DEF ClientReceivesData, Fail, ClientTakes
<1> QED
  BY <1>1, <1>2, <1>3, <1>4, <1>5 DEF Next, ServerSteps, ClientSteps

-----------------------------------------------------------------------------
(* The theorems.                                                               *)

\* The invariant holds initially.
LEMMA Initially == Init => Inv
<1> SUFFICES ASSUME Init PROVE Inv
  OBVIOUS
<1> USE DEF Init
<1>1. TypeInv
  <2>1. \A S : <<>> \in Seq(S)
    OBVIOUS
  <2>2. /\ pub \in Public /\ loc \in Local /\ srv \in Server /\ cli \in Client
        /\ stage \in [Kinds -> Stage]
    BY DEF Public, Local, Server, Client, Stage
  <2> QED
    BY <2>1, <2>2 DEF TypeInv, TypeOK
<1>2. CallInv
  <2>1. \A type : ~Has(down, type) /\ ~Has(up, type)
    BY DEF Has
  <2>2. RequestFirst(down)
    BY DEF RequestFirst
  <2> QED
    BY <2>1, <2>2, TwoKinds DEF CallInv
<1>3. StageInv /\ NoLostWakeup /\ NoSeqFault
  BY DEF StageInv, NoLostWakeup, NoSeqFault
<1>4. ASSUME NEW k \in Kinds PROVE InOrderOf(k) /\ FlowInv(k)
  <2>0. Link(k) = <<>> /\ said[k] = <<>> /\ got[k] = <<>> /\ chain[k] = <<>>
        /\ sent[k] = 0 /\ next[k] = 0
    BY DEF Link
  <2>1. Frames(Link(k)) = {} /\ Sorted(Link(k))
    BY <2>0 DEF Frames, Sorted
  <2>2. SeqInv(k)
    BY <2>0, <2>1 DEF SeqInv, Sequenced, Gapless
  <2>3. OrderInv(k)
    BY <2>0, <2>1 DEF OrderInv, Ordered
  <2>4. PresentOf(k) = {}
    <3>1. stage[k] = "idle"
      OBVIOUS
    <3> QED
      BY <2>0, <2>1, <3>1 DEF PresentOf, Present, All, Going
  <2>5. HoleInv(k)
    <3>1. said[k] \in Seq(Nat)
      BY <2>0
    <3> QED
      BY <2>0, <2>4, <3>1, HoleNone DEF HoleInv
  <2> QED
    BY <2>0, <2>2, <2>3, <2>5 DEF InOrderOf, FlowInv
<1> QED
  BY <1>1, <1>2, <1>3, <1>4 DEF Inv

\* Every step keeps the invariant.
LEMMA Inductive == Inv /\ [Next]_vars => Inv'
<1>1. ASSUME Inv, fault = "none" PROVE IInv
  BY <1>1 DEF Inv, IInv
<1>2. ASSUME Inv, Next PROVE Inv'
  <2>1. IInv
    BY <1>1, <1>2 DEF Next
  <2>2. TypeInv' /\ CallInv' /\ StageInv' /\ NoLostWakeup' /\ NoSeqFault'
    BY <1>2, <2>1, TypeStep, WakeStep, FaultStep
  <2>3. CASE \A k \in Kinds : Good(k)'
    BY <2>2, <2>3 DEF Good, Inv
  <2>4. CASE Fails
    <3>1. \A k \in Kinds : InOrderOf(k)'
      BY <1>2, <2>4 DEF Inv, Fails, InOrderOf
    <3> QED
      BY <2>2, <2>4, <3>1 DEF Fails, Inv
  <2> QED
    BY <1>2, <2>1, <2>3, <2>4, FlowStep
<1>3. ASSUME Inv, UNCHANGED vars PROVE Inv'
  <2> USE <1>3 DEF vars, endpoints, stream, sender, receiver
  <2>1. TypeInv'
    BY DEF Inv, TypeInv, TypeOK
  <2>2. CallInv'
    BY DEF Inv, CallInv
  <2>3. StageInv' /\ NoLostWakeup' /\ NoSeqFault'
    BY DEF Inv, StageInv, NoLostWakeup, NoSeqFault, CanSend, HasOutbound, Size
  <2>4. \A k \in Kinds : InOrderOf(k)'
    BY DEF Inv, InOrderOf
  <2>5. ASSUME fault' = "none", NEW k \in Kinds PROVE FlowInv(k)'
    <3>1. IInv /\ Onward
      BY <1>1, <2>5 DEF Onward
    <3>2. Link(k)' = Link(k) /\ Stays(k)
      BY DEF Link, Stays
    <3>3. Sorted(Link(k))
      BY <3>1 DEF IInv, FlowInv, SeqInv, Sequenced
    <3> QED
      BY <2>1, <3>1, <3>2, <3>3, FlowStays DEF Good
  <2> QED
    BY <2>1, <2>2, <2>3, <2>4, <2>5 DEF Inv
<1> QED
  BY <1>2, <1>3

\* The invariant holds in every behaviour of the specification.
LEMMA Always == Spec => []Inv
  BY Initially, Inductive, PTL DEF Spec

\* Every variable keeps its type: no credit gets below zero.
THEOREM TypeCorrect == Spec => []TypeOK
<1>1. Inv => TypeOK
  BY DEF Inv, TypeInv
<1> QED
  BY <1>1, Always, PTL

\* A message waits for credit only while its stream may send and the credit is
\* missing: an end, an abort, hibernation and every credit frame wake it.
THEOREM SendersAreWoken == Spec => []NoLostWakeup
<1>1. Inv => NoLostWakeup
  BY DEF Inv
<1> QED
  BY <1>1, Always, PTL

\* Each endpoint hears the messages of the other in the order they were said, without a
\* hole but for those that are too big, whatever message is dropped at a close.
THEOREM MessagesInOrder == Spec => []InOrder
<1>1. Inv => InOrder
  BY DEF Inv, InOrder, InOrderOf
<1> QED
  BY <1>1, Always, PTL

\* checkReceiveSeq refuses no data frame of a WebSocket, on either side.
THEOREM FramesInSequence == Spec => []NoSeqFault
<1>1. Inv => NoSeqFault
  BY DEF Inv
<1> QED
  BY <1>1, Always, PTL

-----------------------------------------------------------------------------
(* What a link weighs in bytes of data and of credit.                          *)

\* The bytes of a data frame, when s has the sizes of the messages.
Carried(s) == [f \in Frame |-> IF f.type = "data" /\ f.msg \in 1..Len(s) THEN s[f.msg] ELSE 0]
Paid == [f \in Frame |-> IF f.type = "credit" THEN f.bytes ELSE 0]

\* Every message on the link was said.
Spoken(s, link) == \A i \in DOMAIN link : link[i].type = "data" => link[i].msg \in 1..Len(s)

DataBytes(s, link) ==
    SumFunction([i \in DOMAIN link |-> IF link[i].type = "data" THEN s[link[i].msg] ELSE 0])

\* What a frame weighs in the account: the bytes of its message, or of its credit.
LEMMA FrameWeights ==
    ASSUME NEW s \in Seq(Nat)
    PROVE  /\ Carried(s) \in [Frame -> Nat] /\ Paid \in [Frame -> Nat]
           /\ \A f \in Frame : f.type # "data" => Carried(s)[f] = 0
           /\ \A f \in Frame : f.type = "data" /\ f.msg \in 1..Len(s) => Carried(s)[f] = s[f.msg]
           /\ \A f \in Frame : f.type # "credit" => Paid[f] = 0
           /\ \A f \in Frame : f.type = "credit" => Paid[f] = f.bytes
<1>1. \A m \in 1..Len(s) : s[m] \in Nat
  OBVIOUS
<1>2. \A f \in Frame : (IF f.type = "data" /\ f.msg \in 1..Len(s) THEN s[f.msg] ELSE 0) \in Nat
  BY <1>1
<1>3. \A f \in Frame : (IF f.type = "credit" THEN f.bytes ELSE 0) \in Nat
  BY DEF Frame
<1> QED
  BY <1>2, <1>3 DEF Carried, Paid

\* The quantities of the account are weights of the links.
LEMMA LinkWeighs ==
    ASSUME NEW s \in Seq(Nat), NEW link \in Seq(Frame)
    PROVE  /\ CreditInFlight(link) = Weigh(link, Paid) /\ CreditInFlight(link) \in Nat
           /\ Spoken(s, link) => /\ DataBytes(s, link) = Weigh(link, Carried(s))
                                 /\ DataBytes(s, link) \in Nat
<1>1. \A i \in DOMAIN link : link[i] \in Frame
  OBVIOUS
<1>2. Carried(s) \in [Frame -> Nat] /\ Paid \in [Frame -> Nat]
  BY FrameWeights
<1>3. Weigh(link, Carried(s)) \in Nat /\ Weigh(link, Paid) \in Nat
  BY <1>2, WeighType
<1>4. [i \in DOMAIN link |-> IF link[i].type = "credit" THEN link[i].bytes ELSE 0]
          = [i \in DOMAIN link |-> Paid[link[i]]]
  BY <1>1 DEF Paid
<1>5. ASSUME Spoken(s, link)
      PROVE  [i \in DOMAIN link |-> IF link[i].type = "data" THEN s[link[i].msg] ELSE 0]
                 = [i \in DOMAIN link |-> Carried(s)[link[i]]]
  <2>1. \A i \in DOMAIN link : link[i].type = "data" => link[i].msg \in 1..Len(s)
    BY <1>5 DEF Spoken
  <2> QED
    BY <1>1, <2>1 DEF Carried
<1> QED
  BY <1>3, <1>4, <1>5 DEF Weigh, CreditInFlight, DataBytes

\* One frame more.
LEMMA LinkGains ==
    ASSUME NEW s \in Seq(Nat), NEW link \in Seq(Frame), NEW f \in Frame, Spoken(s, link),
           f.type = "data" => f.msg \in 1..Len(s)
    PROVE  /\ Spoken(s, link \o <<f>>)
           /\ DataBytes(s, link \o <<f>>)
                  = DataBytes(s, link) + (IF f.type = "data" THEN s[f.msg] ELSE 0)
           /\ CreditInFlight(link \o <<f>>)
                  = CreditInFlight(link) + (IF f.type = "credit" THEN f.bytes ELSE 0)
<1>1. PICK more, all : more = <<f>> /\ all = link \o more
  OBVIOUS
<1>2. /\ all \in Seq(Frame) /\ all = Append(link, f)
      /\ DOMAIN link = 1..Len(link) /\ Len(link) \in Nat /\ DOMAIN all = 1..Len(link) + 1
      /\ all[Len(link) + 1] = f
  BY <1>1
<1>3. \A i \in DOMAIN link : all[i] = link[i]
  BY <1>2
<1>4. \A i \in DOMAIN all : i = Len(link) + 1 \/ i \in DOMAIN link
  BY <1>2
<1>5. Spoken(s, all)
  BY <1>2, <1>3, <1>4 DEF Spoken
<1>6. /\ Weigh(all, Carried(s)) = Weigh(link, Carried(s)) + Carried(s)[f]
      /\ Weigh(all, Paid) = Weigh(link, Paid) + Paid[f]
  <2>1. Carried(s) \in [Frame -> Nat] /\ Paid \in [Frame -> Nat]
    BY FrameWeights
  <2>2. all = Append(link, f)
    BY <1>2
  <2> QED
    BY <2>1, <2>2, WeighAppended, Zenon
<1>7. /\ Carried(s)[f] = IF f.type = "data" THEN s[f.msg] ELSE 0
      /\ Paid[f] = IF f.type = "credit" THEN f.bytes ELSE 0
  BY FrameWeights
<1>8. /\ CreditInFlight(all) = Weigh(all, Paid) /\ CreditInFlight(link) = Weigh(link, Paid)
      /\ DataBytes(s, all) = Weigh(all, Carried(s))
      /\ DataBytes(s, link) = Weigh(link, Carried(s))
  BY <1>2, <1>5, LinkWeighs
<1>9. DataBytes(s, all) = DataBytes(s, link) + (IF f.type = "data" THEN s[f.msg] ELSE 0)
  BY <1>6, <1>7, <1>8, Zenon
<1>10. CreditInFlight(all) = CreditInFlight(link) + (IF f.type = "credit" THEN f.bytes ELSE 0)
  BY <1>6, <1>7, <1>8, Zenon
<1>11. all = link \o <<f>>
  BY <1>1
<1> QED
  BY <1>5, <1>9, <1>10, <1>11, Zenon

\* One frame less.
LEMMA LinkLoses ==
    ASSUME NEW s \in Seq(Nat), NEW link \in Seq(Frame), Spoken(s, link), link # <<>>
    PROVE  /\ Spoken(s, Tail(link)) /\ Tail(link) \in Seq(Frame) /\ Head(link) \in Frame
           /\ Head(link).type = "data" => /\ Head(link).msg \in 1..Len(s)
                                          /\ s[Head(link).msg] \in Nat
           /\ DataBytes(s, Tail(link)) \in Nat /\ CreditInFlight(Tail(link)) \in Nat
           /\ DataBytes(s, link)
                  = (IF Head(link).type = "data" THEN s[Head(link).msg] ELSE 0)
                        + DataBytes(s, Tail(link))
           /\ CreditInFlight(link)
                  = (IF Head(link).type = "credit" THEN Head(link).bytes ELSE 0)
                        + CreditInFlight(Tail(link))
<1>1. PICK rest, f : rest = Tail(link) /\ f = Head(link)
  OBVIOUS
<1>2. /\ rest \in Seq(Frame) /\ f \in Frame /\ f = link[1] /\ 1 \in DOMAIN link
      /\ \A i \in DOMAIN rest : i + 1 \in DOMAIN link /\ rest[i] = link[i + 1]
  BY <1>1
<1>3. Spoken(s, rest) /\ (f.type = "data" => f.msg \in 1..Len(s))
  BY <1>2 DEF Spoken
<1>4. f.type = "data" => s[f.msg] \in Nat
  BY <1>3
<1>5. /\ Weigh(link, Carried(s)) = Carried(s)[f] + Weigh(rest, Carried(s))
      /\ Weigh(link, Paid) = Paid[f] + Weigh(rest, Paid)
  BY <1>1, FrameWeights, WeighPopped
<1>6. /\ Carried(s)[f] = IF f.type = "data" THEN s[f.msg] ELSE 0
      /\ Paid[f] = IF f.type = "credit" THEN f.bytes ELSE 0
  BY <1>2, <1>3, FrameWeights
<1>7. /\ CreditInFlight(rest) = Weigh(rest, Paid) /\ CreditInFlight(link) = Weigh(link, Paid)
      /\ DataBytes(s, rest) = Weigh(rest, Carried(s))
      /\ DataBytes(s, link) = Weigh(link, Carried(s))
      /\ DataBytes(s, rest) \in Nat /\ CreditInFlight(rest) \in Nat
  BY <1>2, <1>3, LinkWeighs
<1> QED
  BY <1>1, <1>2, <1>3, <1>4, <1>5, <1>6, <1>7

\* A link without frames of a kind, and one more message that is said.
LEMMA LinkStays ==
    ASSUME NEW s \in Seq(Nat), NEW link \in Seq(Frame)
    PROVE  /\ ~Has(link, "data") => Spoken(s, link) /\ DataBytes(s, link) = 0
           /\ ~Has(link, "credit") => CreditInFlight(link) = 0
           /\ \A n \in Nat : Spoken(s, link) => /\ Spoken(Append(s, n), link)
                                                /\ DataBytes(Append(s, n), link) = DataBytes(s, link)
<1>1. \A i \in DOMAIN link : link[i] \in Frame
  OBVIOUS
<1>2. ASSUME ~Has(link, "data")
      PROVE  Spoken(s, link) /\ DataBytes(s, link) = 0
  <2>1. Spoken(s, link)
    BY <1>2 DEF Spoken, Has
  <2>2. \A f \in Range(link) : f \in Frame /\ f.type # "data"
    BY <1>1, <1>2 DEF Range, Has
  <2>3. \A f \in Range(link) : Carried(s)[f] = 0
    BY <2>2, FrameWeights
  <2>4. Weigh(link, Carried(s)) = 0
    BY <2>3, FrameWeights, Weightless
  <2> QED
    BY <2>1, <2>4, LinkWeighs
<1>3. ASSUME ~Has(link, "credit")
      PROVE  CreditInFlight(link) = 0
  <2>2. \A f \in Range(link) : f \in Frame /\ f.type # "credit"
    BY <1>1, <1>3 DEF Range, Has
  <2>3. \A f \in Range(link) : Paid[f] = 0
    BY <2>2, FrameWeights
  <2>4. Weigh(link, Paid) = 0
    BY <2>3, FrameWeights, Weightless
  <2> QED
    BY <2>4, LinkWeighs
<1>4. ASSUME NEW n \in Nat, Spoken(s, link)
      PROVE  Spoken(Append(s, n), link) /\ DataBytes(Append(s, n), link) = DataBytes(s, link)
  <2>1. PICK t : t = Append(s, n)
    OBVIOUS
  <2>2. \A m \in 1..Len(s) : m \in 1..Len(t) /\ t[m] = s[m]
    BY <2>1
  <2>3. \A i \in DOMAIN link : link[i].type = "data" => link[i].msg \in 1..Len(s)
    BY <1>4 DEF Spoken
  <2>4. Spoken(t, link)
    BY <2>2, <2>3 DEF Spoken
  <2>5. [i \in DOMAIN link |-> IF link[i].type = "data" THEN t[link[i].msg] ELSE 0]
            = [i \in DOMAIN link |-> IF link[i].type = "data" THEN s[link[i].msg] ELSE 0]
    BY <2>2, <2>3
  <2> QED
    BY <2>1, <2>4, <2>5 DEF DataBytes
<1> QED
  BY <1>2, <1>3, <1>4

\* The frames held for the public socket, likewise.
HeldBytes(s, h) == SumFunction([i \in DOMAIN h |-> s[h[i]]])

\* The bytes of held messages grow by the message that is held, and by nothing else.
LEMMA HeldWeighs ==
    ASSUME NEW s \in Seq(Nat), NEW h \in Seq(Nat), \A i \in DOMAIN h : h[i] \in 1..Len(s)
    PROVE  /\ HeldBytes(s, h) \in Nat /\ HeldBytes(s, <<>>) = 0
           /\ \A m \in 1..Len(s) : /\ s[m] \in Nat
                                   /\ HeldBytes(s, Append(h, m)) = HeldBytes(s, h) + s[m]
           /\ \A n \in Nat : HeldBytes(Append(s, n), h) = HeldBytes(s, h)
<1>0. /\ DOMAIN h = 1..Len(h) /\ Len(h) \in Nat
      /\ \A m \in 1..Len(s) : s[m] \in Nat /\ s[m] \in Int
  OBVIOUS
<1>1. PICK p : p = [i \in DOMAIN h |-> s[h[i]]]
  OBVIOUS
<1>2. p \in Seq(Nat) /\ p \in Seq(Int)
  <2>1. \A i \in 1..Len(h) : s[h[i]] \in Nat /\ s[h[i]] \in Int
    BY <1>0
  <2>2. PICK n : n = Len(h)
    OBVIOUS
  <2>3. n \in Nat /\ p = [i \in 1..n |-> s[h[i]]] /\ \A i \in 1..n : p[i] \in Nat /\ p[i] \in Int
    BY <1>0, <1>1, <2>1, <2>2
  <2> QED
    BY <2>3
<1>3. HeldBytes(s, h) \in Nat
  BY <1>1, <1>2, SumOfNatural DEF HeldBytes
<1>4. HeldBytes(s, <<>>) = 0
  <2>1. [i \in DOMAIN <<>> |-> s[<<>>[i]]] = <<>>
    OBVIOUS
  <2> QED
    BY <2>1, SumOfEmpty DEF HeldBytes
<1>5. ASSUME NEW m \in 1..Len(s)
      PROVE  HeldBytes(s, Append(h, m)) = HeldBytes(s, h) + s[m]
  <2>1. PICK g : g = Append(h, m)
    OBVIOUS
  <2>2. /\ DOMAIN g = 1..Len(h) + 1 /\ g[Len(h) + 1] = m
        /\ \A i \in 1..Len(h) : g[i] = h[i]
    BY <1>0, <2>1
  <2>3. PICK q : q = Append(p, s[m])
    OBVIOUS
  <2>4. /\ q \in Seq(Int) /\ Len(p) = Len(h) /\ DOMAIN q = 1..Len(h) + 1
        /\ q[Len(h) + 1] = s[m] /\ \A i \in 1..Len(h) : q[i] = p[i]
    <3>1. Len(p) = Len(h)
      BY <1>0, <1>1, <1>2
    <3>2. s[m] \in Int
      BY <1>0
    <3> QED
      BY <1>2, <2>3, <3>1, <3>2
  <2>5. \A i \in 1..Len(h) + 1 : q[i] = s[g[i]]
    <3>0. \A n \in Nat : \A i \in 1..n + 1 : i = n + 1 \/ i \in 1..n
      OBVIOUS
    <3>1. \A i \in 1..Len(h) + 1 : i = Len(h) + 1 \/ i \in 1..Len(h)
      BY <1>0, <3>0, Zenon
    <3>2. \A i \in 1..Len(h) : q[i] = s[g[i]]
      BY <1>0, <1>1, <2>2, <2>4
    <3> QED
      BY <2>2, <2>4, <3>1, <3>2
  <2>6. q = [i \in DOMAIN g |-> s[g[i]]]
    BY <2>2, <2>4, <2>5
  <2>7. s[m] \in Int
    BY <1>0
  <2> QED
    BY <1>1, <1>2, <2>1, <2>3, <2>6, <2>7, SumOfAppended DEF HeldBytes
<1>6. ASSUME NEW n \in Nat
      PROVE  HeldBytes(Append(s, n), h) = HeldBytes(s, h)
  <2>1. PICK t : t = Append(s, n)
    OBVIOUS
  <2>2. \A m \in 1..Len(s) : t[m] = s[m]
    BY <2>1
  <2>3. [i \in DOMAIN h |-> t[h[i]]] = [i \in DOMAIN h |-> s[h[i]]]
    BY <2>2
  <2> QED
    BY <2>1, <2>3 DEF HeldBytes
<1> QED
  BY <1>0, <1>3, <1>4, <1>5, <1>6

-----------------------------------------------------------------------------
(* The account of a window. What was granted is left to the sender, travels as    *)
(* data, is held by the server, or travels back as credit. A sender whose stream   *)
(* is gone has nothing left but the message that was cleared before, which it      *)
(* still sends (Pending). A receiver that does not know the stream returns nothing.*)

Other(k) == IF k = "ws.client" THEN "ws.server" ELSE "ws.client"
DataOf(k) == DataBytes(said[k], Link(k))
CreditOf(k) == CreditInFlight(Link(Other(k)))
Pending(k) == IF stage[k] = "cleared" THEN Size(k) ELSE 0
Owed(k) == IF CanSend(k) THEN out[k] + CreditOf(k) ELSE Pending(k)
Total(k) == (DataOf(k) + Held(k)) + Owed(k)
WindowInv(k) == /\ Total(k) <= StreamCredit
                /\ CanSend(k) /\ Hears(k) => Total(k) = StreamCredit
                /\ stage[k] = "cleared" /\ CanSend(k) => HasOutbound(k)

\* What the receiver allows is the window without what is held.
Knows(k) == IF k = "ws.client" THEN cli \in {"opening", "starting", "open"}
                               ELSE srv \in {"connecting", "open"}
AllowedInv(k) == Knows(k) => in[k] + Held(k) = StreamCredit

\* Before the client knows the stream nothing came from it; frames are held for an
\* open stream only.
BeginInv == /\ cli = "absent" => up = <<>> /\ ~Has(down, "credit")
            /\ srv # "open" => held = <<>>
            /\ \A i \in DOMAIN held : held[i] \in 1..Len(said["ws.server"])

AccountInv == BeginInv /\ \A k \in Kinds : WindowInv(k) /\ AllowedInv(k)

\* The types of all that the account adds up.
LEMMA Quantities ==
    ASSUME IInv, BeginInv, NEW k \in Kinds
    PROVE  /\ said[k] \in Seq(Nat) /\ Link(k) \in Seq(Frame) /\ Spoken(said[k], Link(k))
           /\ DataOf(k) \in Nat /\ CreditOf(k) \in Nat /\ Held(k) \in Nat
           /\ Pending(k) \in Nat /\ out[k] \in Nat /\ in[k] \in Nat /\ StreamCredit \in Nat
           /\ k = "ws.server" => Held(k) = HeldBytes(said[k], held)
           /\ k = "ws.client" => Held(k) = 0
           /\ Other(k) \in Kinds /\ (k # "ws.server" => k = "ws.client")
           /\ \A m \in 1..Len(said[k]) : said[k][m] \in Nat
<1> USE DEF IInv
<1>0. /\ Other(k) \in Kinds /\ (k # "ws.server" => k = "ws.client")
      /\ said[k] \in Seq(Nat) /\ \A x \in Kinds : Link(x) \in Seq(Frame)
      /\ out[k] \in Nat /\ in[k] \in Nat /\ StreamCredit \in Nat
  BY TwoKinds, Typed, TypedRest, LimitsAssumption DEF Other, Kinds, Link
<1>1. Spoken(said[k], Link(k))
  <2>1. \A f \in Frames(Link(k)) : f.msg \in 1..Len(said[k])
    BY MessageTypes
  <2>2. \A i \in DOMAIN Link(k) : Link(k)[i] \in Frame
    BY <1>0
  <2> QED
    BY <2>1, <2>2 DEF Spoken, Frames
<1>2. DataOf(k) \in Nat
  BY <1>0, <1>1, LinkWeighs DEF DataOf
<1>3. CreditOf(k) \in Nat
  BY <1>0, LinkWeighs DEF CreditOf
<1>4. k = "ws.client" => Held(k) = 0
  BY DEF Held
<1>5. k = "ws.server" => Held(k) = HeldBytes(said[k], held) /\ Held(k) \in Nat
  <2>1. held \in Seq(Nat)
    BY TypedRest
  <2> QED
    BY <1>0, <2>1, HeldWeighs DEF Held, HeldBytes, BeginInv
<1>6. Pending(k) \in Nat
  BY MessageTypes DEF Pending, StageInv
<1>7. \A m \in 1..Len(said[k]) : said[k][m] \in Nat
  BY <1>0
<1>8. Held(k) \in Nat
  <2>1. 0 \in Nat
    OBVIOUS
  <2> QED
    BY <1>0, <1>4, <1>5, <2>1, Zenon
<1> QED
  BY <1>0, <1>1, <1>2, <1>3, <1>4, <1>5, <1>6, <1>7, <1>8, Zenon

\* What the definitions of the module say in these terms.
LEMMA Flights ==
    ASSUME NEW k \in Kinds
    PROVE  DataInFlight(k, Link(k)) = DataOf(k)
  BY DEF DataInFlight, DataOf, DataBytes, Bytes

\* A step that spends no more than there was.
Sum(k) == (DataOf(k) + Held(k)) + (out[k] + CreditOf(k))
Left(k) == (DataOf(k) + Held(k)) + Pending(k)
Balanced(k) ==
    /\ CanSend(k)' =>
          /\ CanSend(k) /\ Sum(k)' <= Sum(k)
          /\ stage'[k] = "cleared" => HasOutbound(k)'
    /\ CanSend(k)' /\ Hears(k)' => Hears(k) /\ Sum(k)' = Sum(k)
    /\ ~CanSend(k)' /\ CanSend(k) => Left(k)' <= Sum(k)
    /\ ~CanSend(k)' /\ ~CanSend(k) => Left(k)' <= Left(k)
    /\ Sum(k)' \in Nat /\ Left(k)' \in Nat /\ Sum(k) \in Nat /\ Left(k) \in Nat

\* ... keeps the account.
LEMMA Balance ==
    ASSUME NEW k \in Kinds, WindowInv(k), Balanced(k)
    PROVE  WindowInv(k)'
<1>1. StreamCredit \in Nat
  BY LimitsAssumption
<1>2. CASE CanSend(k)'
  BY <1>1, <1>2 DEF WindowInv, Total, Owed, Balanced, Sum, Left
<1>3. CASE ~CanSend(k)' /\ CanSend(k)
  BY <1>1, <1>3 DEF WindowInv, Total, Owed, Balanced, Sum, Left
<1>4. CASE ~CanSend(k)' /\ ~CanSend(k)
  BY <1>1, <1>4 DEF WindowInv, Total, Owed, Balanced, Sum, Left
<1> QED
  BY <1>2, <1>3, <1>4

\* A link that gains or loses a frame that is neither data nor credit, or loses data
\* that nobody hears.
LinkRests(k) == /\ \/ DataBytes(said[k], Link(k)') = DataOf(k)
                   \/ DataBytes(said[k], Link(k)') \in 0..DataOf(k) /\ ~Hears(k)'
                /\ CreditInFlight(Link(k)') = CreditInFlight(Link(k))

\* The steps that leave what a link weighs as it was.
LEMMA LinksRest ==
    ASSUME IInv, BeginInv, NEW k \in Kinds
    PROVE  /\ Link(k)' = Link(k) => LinkRests(k)
           /\ Link(k) # <<>> /\ Link(k)' = Tail(Link(k))
                  /\ Head(Link(k)).type \notin {"data", "credit"} => LinkRests(k)
           /\ Link(k) # <<>> /\ Link(k)' = Tail(Link(k)) /\ Head(Link(k)).type = "data"
                  /\ ~Hears(k)' => LinkRests(k)
           /\ \A f \in Frame : f.type \notin {"data", "credit"} /\ Link(k)' = Link(k) \o <<f>>
                                   => LinkRests(k)
<1> DEFINE s == said[k]
           link == Link(k)
<1>1. s \in Seq(Nat) /\ link \in Seq(Frame) /\ Spoken(s, link)
  BY Quantities
<1>2. DataBytes(s, link) \in Nat /\ CreditInFlight(link) \in Nat
  BY <1>1, LinkWeighs
<1>3. Link(k)' = link => LinkRests(k)
  BY DEF LinkRests, DataOf
<1>4. ASSUME link # <<>>, Link(k)' = Tail(link), Head(link).type \notin {"data", "credit"}
      PROVE  LinkRests(k)
  <2>1. /\ DataBytes(s, Tail(link)) \in Nat /\ CreditInFlight(Tail(link)) \in Nat
        /\ DataBytes(s, link) = 0 + DataBytes(s, Tail(link))
        /\ CreditInFlight(link) = 0 + CreditInFlight(Tail(link))
    BY <1>1, <1>4, LinkLoses
  <2>2. /\ DataBytes(s, link) = DataBytes(s, Tail(link))
        /\ CreditInFlight(link) = CreditInFlight(Tail(link))
    BY <2>1
  <2> QED
    BY <1>4, <2>2 DEF LinkRests, DataOf
<1>5. ASSUME NEW f \in Frame, f.type \notin {"data", "credit"}, Link(k)' = link \o <<f>>
      PROVE  LinkRests(k)
  <2>1. /\ DataBytes(s, link \o <<f>>) = DataBytes(s, link) + 0
        /\ CreditInFlight(link \o <<f>>) = CreditInFlight(link) + 0
    BY <1>1, <1>5, LinkGains
  <2>2. /\ DataBytes(s, link \o <<f>>) = DataBytes(s, link)
        /\ CreditInFlight(link \o <<f>>) = CreditInFlight(link)
    BY <1>2, <2>1
  <2> QED
    BY <1>5, <2>2 DEF LinkRests, DataOf
<1>6. ASSUME link # <<>>, Link(k)' = Tail(link), Head(link).type = "data", ~Hears(k)'
      PROVE  LinkRests(k)
  <2>1. /\ DataBytes(s, Tail(link)) \in Nat /\ CreditInFlight(Tail(link)) \in Nat
        /\ s[Head(link).msg] \in Nat
        /\ DataBytes(s, link) = s[Head(link).msg] + DataBytes(s, Tail(link))
        /\ CreditInFlight(link) = 0 + CreditInFlight(Tail(link))
    BY <1>1, <1>6, LinkLoses
  <2>2. /\ DataBytes(s, Tail(link)) \in 0..DataBytes(s, link)
        /\ CreditInFlight(link) = CreditInFlight(Tail(link))
    BY <2>1
  <2> QED
    BY <1>6, <2>2 DEF LinkRests, DataOf
<1> QED
  BY <1>3, <1>4, <1>5, <1>6

\* The stream of k goes on as it was, or stops for one of the sides.
Rests(k) == /\ UNCHANGED <<said, chain>>
            /\ stage'[k] = stage[k] \/ (stage[k] = "waiting" /\ stage'[k] = "woken")
            /\ CanSend(k)' => CanSend(k) /\ out'[k] = out[k]
            /\ Hears(k)' => Hears(k)
            /\ k = "ws.server" => held' = held \/ (held' = <<>> /\ ~Hears(k)')
            /\ Knows(k)' => Knows(k) /\ in'[k] = in[k] /\ Hears(k)'

\* A kind whose stream, window and links rest keeps its account.
LEMMA RestKeeps ==
    ASSUME IInv, AccountInv, TypeInv', NEW k \in Kinds, Rests(k), LinkRests(k), LinkRests(Other(k))
    PROVE  WindowInv(k)' /\ AllowedInv(k)'
<1> USE DEF AccountInv
<1>1. /\ DataOf(k) \in Nat /\ CreditOf(k) \in Nat /\ Held(k) \in Nat /\ Pending(k) \in Nat
      /\ out[k] \in Nat
  BY Quantities
<1>2. out'[k] \in Nat
  BY DEF TypeInv, TypeOK
<1>3. /\ DataOf(k)' \in Nat /\ DataOf(k)' <= DataOf(k)
      /\ Hears(k)' => DataOf(k)' = DataOf(k)
  BY <1>1 DEF Rests, LinkRests, DataOf
<1>4. CreditOf(k)' = CreditOf(k)
  BY DEF LinkRests, CreditOf, Other
<1>5. Pending(k)' = Pending(k)
  BY DEF Rests, Pending, Size
<1>6. Held(k)' = Held(k) \/ (Held(k)' = 0 /\ ~Hears(k)')
  <2>1. CASE k = "ws.client"
    BY <2>1 DEF Held
  <2>2. CASE k = "ws.server" /\ held' = held
    BY <2>2 DEF Held, Rests
  <2>3. CASE k = "ws.server" /\ held' = <<>> /\ ~Hears(k)'
    <3>1. Held(k)' = SumFunction(<<>>)
      BY <2>3 DEF Held
    <3> QED
      BY <2>3, <3>1, SumOfEmpty
  <2> QED
    BY <2>1, <2>2, <2>3 DEF Rests, Kinds
<1>7. /\ CanSend(k)' => CanSend(k) /\ out'[k] = out[k]
      /\ Hears(k)' => Hears(k)
  BY DEF Rests
<1>8. stage'[k] = "cleared" /\ CanSend(k)' => HasOutbound(k)'
  BY DEF Rests, WindowInv, HasOutbound, Size
<1>9. AllowedInv(k)'
  BY <1>6 DEF Rests, AllowedInv
<1>10. WindowInv(k)
  OBVIOUS
<1> HIDE DEF AccountInv
<1>11. (DataOf(k) + Held(k))' \in Nat /\ (DataOf(k) + Held(k))' <= DataOf(k) + Held(k)
       /\ (Hears(k)' => (DataOf(k) + Held(k))' = DataOf(k) + Held(k))
  BY <1>1, <1>3, <1>6
<1>12. (out[k] + CreditOf(k))' \in Nat
       /\ (CanSend(k)' => (out[k] + CreditOf(k))' = out[k] + CreditOf(k))
  BY <1>1, <1>2, <1>4, <1>7
<1>13. stage'[k] = "cleared" => stage[k] = "cleared"
  BY DEF Rests
<1>14. ~CanSend(k)' /\ CanSend(k) => Pending(k)' <= out[k] + CreditOf(k)
  BY <1>1, <1>5, <1>10 DEF Pending, WindowInv, HasOutbound
<1>15. DataOf(k) + Held(k) \in Nat /\ out[k] + CreditOf(k) \in Nat
  BY <1>1
<1>16. /\ Sum(k) \in Nat /\ Sum(k)' \in Nat /\ Left(k) \in Nat /\ Left(k)' \in Nat
       /\ (CanSend(k)' => Sum(k)' <= Sum(k))
       /\ (CanSend(k)' /\ Hears(k)' => Sum(k)' = Sum(k))
       /\ (~CanSend(k)' /\ CanSend(k) => Left(k)' <= Sum(k))
       /\ (~CanSend(k)' /\ ~CanSend(k) => Left(k)' <= Left(k))
  <2>1. PICK a, b, c, d, e : /\ a = (DataOf(k) + Held(k))' /\ b = (out[k] + CreditOf(k))'
                             /\ c = DataOf(k) + Held(k) /\ d = out[k] + CreditOf(k)
                             /\ e = Pending(k)
    OBVIOUS
  <2>2. /\ Sum(k) = c + d /\ Sum(k)' = a + b /\ Left(k) = c + e /\ Left(k)' = a + e
        /\ a \in Nat /\ b \in Nat /\ c \in Nat /\ d \in Nat /\ e \in Nat
        /\ a <= c /\ (Hears(k)' => a = c) /\ (CanSend(k)' => b = d)
        /\ (~CanSend(k)' /\ CanSend(k) => e <= d)
    BY <2>1, <1>1, <1>5, <1>11, <1>12, <1>14, <1>15 DEF Sum, Left
  <2> QED
    BY <2>2
<1>17. Balanced(k)
  BY <1>7, <1>8, <1>16 DEF Balanced
<1>18. WindowInv(k)'
  BY <1>10, <1>17, Balance
<1> QED
  BY <1>9, <1>18

\* A step that moves neither data nor credit and says nothing.
Quietly == /\ \A k \in Kinds : Rests(k) /\ LinkRests(k)
           /\ cli' = "absent" => /\ up' = up \/ up # <<>>
                                 /\ Has(down', "credit") => Has(down, "credit")
           /\ held' = <<>> \/ (held' = held /\ (srv # "open" \/ srv' = "open"))

\* A step that moves neither bytes nor credit keeps the accounts.
LEMMA QuietKeeps ==
    ASSUME IInv, AccountInv, TypeInv', Onward, Quietly
    PROVE  AccountInv'
<1>1. BeginInv'
  <2>1. cli' = "absent" => cli = "absent"
    BY DEF Onward
  <2>2. said' = said
    BY TwoKinds DEF Quietly, Rests
  <2>3. cli' = "absent" => up' = <<>> /\ ~Has(down', "credit")
    BY <2>1 DEF Quietly, AccountInv, BeginInv
  <2>4. srv' # "open" => held' = <<>>
    BY DEF Quietly, AccountInv, BeginInv
  <2>5. ASSUME NEW i \in DOMAIN held' PROVE held'[i] \in 1..Len(said'["ws.server"])
    <3>1. held' # <<>>
      BY <2>5
    <3> QED
      BY <2>2, <2>5, <3>1 DEF Quietly, AccountInv, BeginInv
  <2> QED
    BY <2>3, <2>4, <2>5 DEF BeginInv
<1>2. ASSUME NEW k \in Kinds PROVE WindowInv(k)' /\ AllowedInv(k)'
  <2>1. Other(k) \in Kinds
    BY TwoKinds DEF Other
  <2> QED
    BY <2>1, RestKeeps DEF Quietly
<1> QED
  BY <1>1, <1>2 DEF AccountInv

\* One link at a time: what stays, loses its head or gains a frame.
LEMMA UpRests ==
    ASSUME IInv, BeginInv, TypeInv'
    PROVE  /\ up' = up => LinkRests("ws.server")
           /\ up # <<>> /\ up' = Tail(up) /\ Head(up).type \notin {"data", "credit"}
                  => LinkRests("ws.server")
           /\ up # <<>> /\ up' = Tail(up) /\ Head(up).type = "data" /\ ~Hears("ws.server")'
                  => LinkRests("ws.server")
           /\ \A f \in Frame : f.type \notin {"data", "credit"} /\ up' = up \o <<f>>
                  => LinkRests("ws.server")
<1>1. "ws.server" \in Kinds /\ Link("ws.server") = up /\ Link("ws.server")' = up'
  BY DEF Link, Kinds
<1> QED
  BY <1>1, LinksRest

\* The same as `LinksRest`, of the link to the client.
LEMMA DownRests ==
    ASSUME IInv, BeginInv, TypeInv'
    PROVE  /\ down' = down => LinkRests("ws.client")
           /\ down # <<>> /\ down' = Tail(down) /\ Head(down).type \notin {"data", "credit"}
                  => LinkRests("ws.client")
           /\ down # <<>> /\ down' = Tail(down) /\ Head(down).type = "data" /\ ~Hears("ws.client")'
                  => LinkRests("ws.client")
           /\ \A f \in Frame : f.type \notin {"data", "credit"} /\ down' = down \o <<f>>
                  => LinkRests("ws.client")
<1>1. "ws.client" \in Kinds /\ Link("ws.client") = down /\ Link("ws.client")' = down'
  BY DEF Link, Kinds
<1> QED
  BY <1>1, LinksRest

\* What cleaning up does to the credits and to who waits.
LEMMA Wakes ==
    ASSUME IInv, TypeInv', NEW k \in Kinds, CreditsGo(k)
    PROVE  \A x \in Kinds : /\ stage'[x] = stage[x] \/ (stage[x] = "waiting" /\ stage'[x] = "woken")
                            /\ x # k => out'[x] = out[x] /\ stage'[x] = stage[x]
                            /\ x = k => in'[x] = in[x]
<1>1. stage \in [Kinds -> Stage] /\ out \in [Kinds -> Nat] /\ in \in [Kinds -> Nat]
  BY Typed DEF IInv
<1> QED
  BY <1>1 DEF CreditsGo, Woken

\* The server gives the stream up, the client does, or both go on.
LEMMA ServerStops ==
    ASSUME IInv, TypeInv', srv' \in {"gone", "forgotten"}, CreditsGo("ws.client"),
           UNCHANGED <<said, chain, cli>>, held' = <<>>
    PROVE  \A k \in Kinds : Rests(k)
<1>1. \A x \in Kinds :
         /\ stage'[x] = stage[x] \/ (stage[x] = "waiting" /\ stage'[x] = "woken")
         /\ x # "ws.client" => out'[x] = out[x] /\ stage'[x] = stage[x]
         /\ x = "ws.client" => in'[x] = in[x]
  BY TwoKinds, Wakes
<1>2. Rests("ws.client")
  BY <1>1, TwoKinds DEF Rests, CanSend, Hears, Knows
<1>3. Rests("ws.server")
  BY <1>1, TwoKinds DEF Rests, CanSend, Hears, Knows
<1> QED
  BY <1>2, <1>3 DEF Kinds

\* A client that stops its stream leaves both kinds at rest.
LEMMA ClientStops ==
    ASSUME IInv, TypeInv', cli' = "gone", CreditsGo("ws.server"),
           UNCHANGED <<said, chain, srv, held>>
    PROVE  \A k \in Kinds : Rests(k)
<1>1. \A x \in Kinds :
         /\ stage'[x] = stage[x] \/ (stage[x] = "waiting" /\ stage'[x] = "woken")
         /\ x # "ws.server" => out'[x] = out[x] /\ stage'[x] = stage[x]
         /\ x = "ws.server" => in'[x] = in[x]
  BY TwoKinds, Wakes
<1>2. Rests("ws.client")
  BY <1>1, TwoKinds DEF Rests, CanSend, Hears, Knows
<1>3. Rests("ws.server")
  BY <1>1, TwoKinds DEF Rests, CanSend, Hears, Knows
<1> QED
  BY <1>2, <1>3 DEF Kinds

\* Steps that only open a side leave both kinds at rest.
LEMMA BothGoOn ==
    ASSUME UNCHANGED <<said, chain, stage, out, in, held>>,
           srv' = srv \/ (srv = "connecting" /\ srv' = "open"),
           cli' = cli \/ (cli = "opening" /\ cli' = "starting") \/ (cli = "starting" /\ cli' = "open")
    PROVE  /\ \A k \in Kinds : Rests(k)
           /\ held' = held /\ (srv # "open" \/ srv' = "open")
<1>1. CASE srv' = srv
  BY <1>1 DEF Rests, CanSend, Hears, Knows, Kinds
<1>2. CASE srv = "connecting" /\ srv' = "open"
  BY <1>2 DEF Rests, CanSend, Hears, Knows, Kinds
<1> QED
  BY <1>1, <1>2

\* The steps of the server, of the client and of the endpoints that move no data.
LEMMA QuietServer ==
    ASSUME IInv, AccountInv, TypeInv', Onward,
           \/ SendRequestEnd \/ PublicClosed \/ ServerReceivesStart \/ ServerReceivesEnd
           \/ ServerReceivesAbort \/ PublicLeaves \/ PublicBreaks \/ Timeouts
    PROVE  Quietly
<1> USE DEF IInv, AccountInv
<1>0. down \in Seq(Frame) /\ up \in Seq(Frame)
  BY TypedRest
<1>1. \A f \in Frame : f.type \notin {"data", "credit"} /\ down' = down \o <<f>>
          => (Has(down', "credit") => Has(down, "credit"))
  BY <1>0, Pushes
<1>2. LinkRests("ws.client") /\ LinkRests("ws.server") => \A k \in Kinds : LinkRests(k)
  BY DEF Kinds
<1>3. ASSUME up' = up \/ (up # <<>> /\ up' = Tail(up) /\ Head(up).type \notin {"data", "credit"}),
             down' = down,
             \/ srv' \in {"gone", "forgotten"} /\ CreditsGo("ws.client") /\ held' = <<>>
             \/ srv' = srv /\ UNCHANGED <<stage, out, in, held>>
             \/ srv = "connecting" /\ srv' = "open" /\ UNCHANGED <<stage, out, in, held>>,
             UNCHANGED <<said, chain, cli>>
      PROVE  Quietly
  <2>1. \A k \in Kinds : Rests(k)
    BY <1>3, ServerStops, BothGoOn
  <2>2. \A k \in Kinds : LinkRests(k)
    BY <1>2, <1>3, UpRests, DownRests
  <2>3. held' = <<>> \/ (held' = held /\ (srv # "open" \/ srv' = "open"))
    BY <1>3
  <2> QED
    BY <1>3, <2>1, <2>2, <2>3 DEF Quietly
<1>4. CASE SendRequestEnd
  <2>1. PICK f : f = [type |-> "end", last |-> Head(ends["ws.client"])]
    OBVIOUS
  <2>2. f \in Frame /\ f.type = "end"
    <3>1. Head(ends["ws.client"]) \in Int
      BY <1>4, TwoKinds, EndTypes DEF SendRequestEnd
    <3> QED
      BY <2>1, <3>1, FrameTypes
  <2>3. down' = down \o <<f>> /\ up' = up
    BY <1>4, <2>1 DEF SendRequestEnd, ToClient
  <2>4. UNCHANGED <<said, chain, cli>>
    BY <1>4 DEF SendRequestEnd
  <2>5. \/ srv' \in {"gone", "forgotten"} /\ CreditsGo("ws.client") /\ held' = <<>>
        \/ srv' = srv /\ UNCHANGED <<stage, out, in, held>>
    BY <1>4 DEF SendRequestEnd, ServerCleansUp
  <2>6. \A k \in Kinds : Rests(k)
    BY <2>4, <2>5, ServerStops, BothGoOn
  <2>7. \A k \in Kinds : LinkRests(k)
    BY <1>2, <2>2, <2>3, UpRests, DownRests
  <2>8. held' = <<>> \/ (held' = held /\ (srv # "open" \/ srv' = "open"))
    BY <2>5
  <2> QED
    BY <1>1, <2>2, <2>3, <2>6, <2>7, <2>8 DEF Quietly
<1>5. CASE PublicClosed \/ PublicLeaves \/ PublicBreaks
  <2>1. UNCHANGED <<srv, cli, said, chain, stage, out, in, held, up, down>>
    BY <1>5 DEF PublicClosed, PublicLeaves, PublicBreaks, stream, sender, receiver
  <2> QED
    BY <1>3, <2>1
<1>6. CASE ServerReceivesStart
  <2>1. up # <<>> /\ up' = Tail(up) /\ Head(up).type = "start" /\ srv = "connecting"
        /\ down' = down /\ UNCHANGED <<said, chain, cli>>
    BY <1>6 DEF ServerReceivesStart, Heads
  <2>2. \/ srv' \in {"gone", "forgotten"} /\ CreditsGo("ws.client") /\ held' = <<>>
        \/ srv = "connecting" /\ srv' = "open" /\ UNCHANGED <<stage, out, in, held>>
    BY <1>6, <2>1 DEF ServerReceivesStart, ServerAborts, ServerCleansUp
  <2> QED
    BY <1>3, <2>1, <2>2
<1>7. CASE ServerReceivesEnd
  <2>1. up # <<>> /\ up' = Tail(up) /\ Head(up).type = "end"
        /\ down' = down /\ UNCHANGED <<said, chain, cli>>
    BY <1>7 DEF ServerReceivesEnd, Heads, Fail, endpoints, stream, sender
  <2>2. \/ srv' \in {"gone", "forgotten"} /\ CreditsGo("ws.client") /\ held' = <<>>
        \/ srv' = srv /\ UNCHANGED <<stage, out, in, held>>
    BY <1>7 DEF ServerReceivesEnd, ServerCleansUp, Fail, endpoints, stream, sender, receiver
  <2> QED
    BY <1>3, <2>1, <2>2
<1>8. CASE ServerReceivesAbort
  <2>1. up # <<>> /\ up' = Tail(up) /\ Head(up).type = "abort"
        /\ down' = down /\ UNCHANGED <<said, chain, cli>>
    BY <1>8 DEF ServerReceivesAbort, Heads
  <2>2. srv' \in {"gone", "forgotten"} /\ CreditsGo("ws.client") /\ held' = <<>>
    BY <1>8 DEF ServerReceivesAbort, ServerAborts, ServerCleansUp
  <2> QED
    BY <1>3, <2>1, <2>2
<1>9. CASE Timeouts
  <2>1. UNCHANGED <<said, chain, cli, up, down>>
    BY <1>9 DEF Timeouts, StartTimeout, PendingTimeout, Hibernate, OtherEvent, stream, sender,
                endpoints
  <2>2. \/ srv' \in {"gone", "forgotten"} /\ CreditsGo("ws.client") /\ held' = <<>>
        \/ srv' = srv /\ UNCHANGED <<stage, out, in, held>>
    BY <1>9 DEF Timeouts, StartTimeout, PendingTimeout, Hibernate, OtherEvent, ServerAborts,
                ServerCleansUp, stream, sender, receiver
  <2> QED
    BY <1>3, <2>1, <2>2
<1> QED
  BY <1>4, <1>5, <1>6, <1>7, <1>8, <1>9

\* The client's steps that move neither bytes nor credit.
LEMMA QuietClient ==
    ASSUME IInv, AccountInv, TypeInv', Onward,
           \/ SendResponseStart \/ SendResponseEnd \/ ClientReceivesEnd \/ ClientReceivesAbort
           \/ LocalAccepts \/ LocalRefuses \/ LocalCloses
    PROVE  Quietly
<1> USE DEF IInv, AccountInv
<1>0. down \in Seq(Frame) /\ up \in Seq(Frame)
  BY TypedRest
<1>1. down' = down \/ (down # <<>> /\ down' = Tail(down))
          => (Has(down', "credit") => Has(down, "credit"))
  <2>1. down # <<>> => \A type : Has(Tail(down), type) => Has(down, type)
    BY <1>0, Leaves, Zenon
  <2> QED
    BY <2>1
<1>2. LinkRests("ws.client") /\ LinkRests("ws.server") => \A k \in Kinds : LinkRests(k)
  BY DEF Kinds
<1>3. ASSUME LinkRests("ws.server"), cli' # "absent" \/ up' = up,
             \/ down' = down
             \/ down # <<>> /\ down' = Tail(down) /\ Head(down).type \notin {"data", "credit"},
             \/ cli' = "gone" /\ CreditsGo("ws.server")
             \/ cli' = cli /\ UNCHANGED <<stage, out, in>>
             \/ cli = "opening" /\ cli' = "starting" /\ UNCHANGED <<stage, out, in>>
             \/ cli = "starting" /\ cli' = "open" /\ UNCHANGED <<stage, out, in>>,
             UNCHANGED <<said, chain, srv, held>>
      PROVE  Quietly
  <2>1. \A k \in Kinds : Rests(k)
    BY <1>3, ClientStops, BothGoOn
  <2>2. \A k \in Kinds : LinkRests(k)
    BY <1>2, <1>3, DownRests
  <2> QED
    BY <1>1, <1>3, <2>1, <2>2 DEF Quietly
<1>4. CASE SendResponseStart
  <2>1. PICK f : f = [type |-> "start"]
    OBVIOUS
  <2>2. f \in Frame /\ f.type = "start" /\ up' = up \o <<f>> /\ down' = down
    BY <1>4, <2>1, FrameTypes DEF SendResponseStart, ToServer
  <2>3. LinkRests("ws.server")
    BY <2>2, UpRests
  <2>4. UNCHANGED <<said, chain, srv, held>> /\ cli = "starting" /\ cli' = "open"
        /\ UNCHANGED <<stage, out, in>>
    BY <1>4 DEF SendResponseStart, endpoints, sender, receiver
  <2> QED
    BY <1>3, <2>2, <2>3, <2>4
<1>5. CASE SendResponseEnd
  <2>1. PICK f : f = [type |-> "end", last |-> Head(ends["ws.server"])]
    OBVIOUS
  <2>2. f \in Frame /\ f.type = "end"
    <3>1. Head(ends["ws.server"]) \in Int
      BY <1>5, TwoKinds, EndTypes DEF SendResponseEnd
    <3> QED
      BY <2>1, <3>1, FrameTypes
  <2>3. up' = up \o <<f>> /\ down' = down
    BY <1>5, <2>1 DEF SendResponseEnd, ToServer
  <2>4. LinkRests("ws.server")
    BY <2>2, <2>3, UpRests
  <2>5. UNCHANGED <<said, chain, srv, held>> /\ cli' = "gone"
        /\ (CreditsGo("ws.server") \/ (cli' = cli /\ UNCHANGED <<stage, out, in>>))
    BY <1>5 DEF SendResponseEnd, endpoints
  <2> QED
    BY <1>3, <2>3, <2>4, <2>5
<1>6. CASE ClientReceivesEnd
  <2>1. down # <<>> /\ down' = Tail(down) /\ Head(down).type = "end" /\ up' = up
    BY <1>6 DEF ClientReceivesEnd, Heads
  <2>2. UNCHANGED <<said, chain, srv, held, cli, stage, out, in>>
    BY <1>6 DEF ClientReceivesEnd, Fail, endpoints, stream, sender, receiver
  <2>3. LinkRests("ws.server")
    BY <2>1, UpRests
  <2> QED
    BY <1>3, <2>1, <2>2, <2>3
<1>7. CASE ClientReceivesAbort
  <2>1. down # <<>> /\ down' = Tail(down) /\ Head(down).type = "abort" /\ up' = up
    BY <1>7 DEF ClientReceivesAbort, Heads
  <2>2. UNCHANGED <<said, chain, srv, held>> /\ cli' = "gone" /\ CreditsGo("ws.server")
    BY <1>7 DEF ClientReceivesAbort, ClientAborts
  <2>3. LinkRests("ws.server")
    BY <2>1, UpRests
  <2> QED
    BY <1>3, <2>1, <2>2, <2>3
<1>8. CASE LocalAccepts
  <2>1. UNCHANGED <<said, chain, srv, held, stage, out, in, up, down>> /\ cli = "opening"
        /\ cli' = "starting"
    BY <1>8 DEF LocalAccepts, sender, receiver, CallInv
  <2>2. LinkRests("ws.server")
    BY <2>1, UpRests
  <2> QED
    BY <1>3, <2>1, <2>2
<1>9. CASE LocalRefuses
  <2>1. PICK f : f = [type |-> "abort"]
    OBVIOUS
  <2>2. f \in Frame /\ f.type = "abort" /\ up' = up \o <<f>> /\ down' = down
    BY <1>9, <2>1, FrameTypes DEF LocalRefuses, ToServer
  <2>3. LinkRests("ws.server")
    BY <2>2, UpRests
  <2>4. UNCHANGED <<said, chain, srv, held>> /\ cli' = "gone" /\ CreditsGo("ws.server")
    BY <1>9 DEF LocalRefuses
  <2> QED
    BY <1>3, <2>2, <2>3, <2>4
<1>10. CASE LocalCloses
  <2>1. UNCHANGED <<said, chain, srv, cli, held, stage, out, in, up, down>>
    BY <1>10 DEF LocalCloses, stream, receiver
  <2>2. LinkRests("ws.server")
    BY <2>1, UpRests
  <2> QED
    BY <1>3, <2>1, <2>2
<1> QED
  BY <1>4, <1>5, <1>6, <1>7, <1>8, <1>9, <1>10

\* A message in turn asks for credit.
LEMMA AskAccount ==
    ASSUME IInv, AccountInv, TypeInv', NEW k \in Kinds, AskCredit(k)
    PROVE  AccountInv'
<1> USE DEF IInv
<1>1. stage \in [Kinds -> Stage] /\ chain \in [Kinds -> Seq(Nat)]
  BY Typed
<1>2. UNCHANGED <<said, srv, cli, out, in, held, up, down>>
  BY DEF AskCredit, endpoints, stream, receiver
<1>3. BeginInv'
  BY <1>2 DEF AccountInv, BeginInv, Has
<1>4. ASSUME NEW x \in Kinds
      PROVE  /\ AllowedInv(x)' /\ Held(x)' = Held(x) /\ DataOf(x)' = DataOf(x)
             /\ CreditOf(x)' = CreditOf(x) /\ CanSend(x)' = CanSend(x) /\ Hears(x)' = Hears(x)
  <2>1. Link(x)' = Link(x) /\ Link(Other(x))' = Link(Other(x))
    BY <1>2 DEF Link
  <2>2. Held(x)' = Held(x)
    BY <1>2 DEF Held
  <2>3. DataOf(x)' = DataOf(x) /\ CreditOf(x)' = CreditOf(x)
    BY <1>2, <2>1 DEF DataOf, CreditOf
  <2>4. CanSend(x)' = CanSend(x) /\ Hears(x)' = Hears(x) /\ Knows(x)' = Knows(x)
    BY <1>2 DEF CanSend, Hears, Knows
  <2>5. AllowedInv(x)
    BY DEF AccountInv
  <2>6. AllowedInv(x)'
    BY <1>2, <2>2, <2>4, <2>5 DEF AllowedInv
  <2> QED
    BY <2>2, <2>3, <2>4, <2>6
<1>5. ASSUME NEW x \in Kinds, x # k PROVE WindowInv(x)'
  <2>1. WindowInv(x)
    BY DEF AccountInv
  <2>2. stage'[x] = stage[x] /\ chain'[x] = chain[x]
    BY <1>1, <1>5 DEF AskCredit, Done
  <2> QED
    BY <1>2, <1>4, <2>1, <2>2 DEF WindowInv, Total, Owed, Pending, HasOutbound, Size
<1>6. WindowInv(k)'
  <2>1. WindowInv(k)
    BY DEF AccountInv
  <2>2. /\ CanSend(k) => stage'[k] \in {"waiting", "cleared"} /\ chain' = chain
                         /\ (stage'[k] = "cleared" => HasOutbound(k))
        /\ ~CanSend(k) => stage'[k] = "idle"
    BY <1>1 DEF AskCredit
  <2>3. CASE CanSend(k)
    BY <1>2, <1>4, <2>1, <2>2, <2>3 DEF WindowInv, Total, Owed, HasOutbound, Size
  <2>4. CASE ~CanSend(k)
    <3>1. Pending(k) = 0 /\ Pending(k)' = 0
      BY <2>2, <2>4 DEF Pending, AskCredit
    <3> QED
      BY <1>2, <1>4, <2>1, <2>4, <3>1 DEF WindowInv, Total, Owed
  <2> QED
    BY <2>3, <2>4
<1> QED
  BY <1>3, <1>4, <1>5, <1>6 DEF AccountInv

\* Data is sent: what it needs is still there, or was set aside when the stream went.
LEMMA SendAccount ==
    ASSUME IInv, AccountInv, TypeInv', NEW k \in Kinds, SendData(k)
    PROVE  AccountInv'
<1> USE DEF IInv
<1>1. /\ stage \in [Kinds -> Stage] /\ chain \in [Kinds -> Seq(Nat)] /\ sent \in [Kinds -> Nat]
      /\ out \in [Kinds -> Nat]
  BY Typed
<1>2. UNCHANGED <<said, srv, cli, in, held>>
  BY DEF SendData, endpoints, stream, receiver
<1>3. PICK f : f = [type |-> "data", seq |-> sent[k], msg |-> Head(chain[k])]
  OBVIOUS
<1>4. chain[k] # <<>> /\ stage[k] = "cleared"
  BY DEF SendData, StageInv
<1>5. /\ Head(chain[k]) \in 1..Len(said[k]) /\ Size(k) \in Nat /\ Size(k) = said[k][Head(chain[k])]
  BY <1>4, MessageTypes DEF Size
<1>6. f \in Frame /\ f.type = "data" /\ f.msg = Head(chain[k]) /\ f.msg \in 1..Len(said[k])
  <2>1. sent[k] \in Nat /\ Head(chain[k]) \in Nat
    BY <1>1, <1>5
  <2> QED
    BY <1>3, <1>5, <2>1, FrameTypes
<1>7. Link(k)' = Link(k) \o <<f>> /\ Link(Other(k))' = Link(Other(k))
  BY <1>3 DEF SendData, Send, ToClient, ToServer, Link, Other
<1>8. BeginInv /\ \A x \in Kinds : WindowInv(x) /\ AllowedInv(x)
  BY DEF AccountInv
<1>q. /\ said[k] \in Seq(Nat) /\ Link(k) \in Seq(Frame) /\ Spoken(said[k], Link(k))
      /\ DataOf(k) \in Nat /\ CreditOf(k) \in Nat /\ Held(k) \in Nat /\ out[k] \in Nat
      /\ Other(k) \in Kinds /\ Other(k) # k
      /\ \A x \in Kinds : x # k => x = Other(k)
      /\ Other(Other(k)) = k
  BY <1>8, Quantities DEF Other, Kinds
<1>9. /\ DataBytes(said[k], Link(k)') = DataOf(k) + Size(k)
      /\ CreditInFlight(Link(k)') = CreditInFlight(Link(k))
  <2>0. PICK m, l, z : m = said[k] /\ l = Link(k) /\ z = 0
    OBVIOUS
  <2>a. m \in Seq(Nat) /\ l \in Seq(Frame) /\ Spoken(m, l)
    BY <1>q, <2>0
  <2>b. f \in Frame /\ f.type = "data" /\ f.msg \in 1..Len(m)
    BY <1>6, <2>0
  <2>c. /\ DataBytes(m, l \o <<f>>) = DataBytes(m, l) + m[f.msg]
        /\ CreditInFlight(l \o <<f>>) = CreditInFlight(l) + z
    <3> HIDE DEF IInv
    <3> QED
      BY <2>0, <2>a, <2>b, LinkGains
  <2>1. /\ DataBytes(said[k], Link(k) \o <<f>>) = DataBytes(said[k], Link(k)) + said[k][f.msg]
        /\ CreditInFlight(Link(k) \o <<f>>) = CreditInFlight(Link(k)) + 0
    BY <2>0, <2>c
  <2>2. CreditInFlight(Link(k)) \in Nat
    BY <1>q, LinkWeighs
  <2>3. DataBytes(said[k], Link(k)') = DataOf(k) + Size(k)
    BY <1>5, <1>6, <1>7, <2>1 DEF DataOf
  <2>4. CreditInFlight(Link(k) \o <<f>>) = CreditInFlight(Link(k))
    BY <2>1, <2>2
  <2> QED
    BY <1>7, <2>3, <2>4
<1>10. \A x \in Kinds : Held(x)' = Held(x) /\ CanSend(x)' = CanSend(x) /\ Hears(x)' = Hears(x)
                        /\ Knows(x)' = Knows(x)
  BY <1>2 DEF Held, CanSend, Hears, Knows
<1>11. DataOf(k)' = DataOf(k) + Size(k) /\ CreditOf(k)' = CreditOf(k)
  BY <1>2, <1>7, <1>9 DEF DataOf, CreditOf
<1>12. DataOf(Other(k))' = DataOf(Other(k)) /\ CreditOf(Other(k))' = CreditOf(Other(k))
  BY <1>2, <1>7, <1>9, <1>q DEF DataOf, CreditOf
<1>13. /\ stage'[k] = "idle" /\ out'[k] = (IF HasOutbound(k) THEN out[k] - Size(k) ELSE out[k])
       /\ \A x \in Kinds : x # k => /\ stage'[x] = stage[x] /\ chain'[x] = chain[x]
                                    /\ out'[x] = out[x]
  BY <1>1 DEF SendData, Done
<1>14. BeginInv'
  <2>1. up' # <<>> => up # <<>> \/ k = "ws.server"
    BY DEF SendData, Send, ToClient, Kinds
  <2>2. Has(down', "credit") => Has(down, "credit")
    <3>1. CASE k = "ws.client"
      <4>1. down \in Seq(Frame) /\ down' = down \o <<f>>
        BY <1>7, <3>1, TypedRest DEF Link
      <4> QED
        BY <1>6, <4>1, Pushes
    <3>2. CASE k = "ws.server"
      BY <3>2 DEF SendData, Send, ToServer
    <3> QED
      BY <3>1, <3>2 DEF Kinds
  <2>3. k = "ws.server" => cli # "absent"
    BY <1>4 DEF CallInv
  <2> QED
    BY <1>2, <1>8, <2>1, <2>2, <2>3 DEF BeginInv
<1>15. \A x \in Kinds : AllowedInv(x)'
  BY <1>2, <1>8, <1>10 DEF AllowedInv
<1>16. WindowInv(Other(k))'
  BY <1>2, <1>8, <1>10, <1>12, <1>13, <1>q DEF WindowInv, Total, Owed, Pending, HasOutbound, Size
<1>17. WindowInv(k)'
  <2>1. WindowInv(k) /\ Pending(k) = Size(k) /\ Pending(k)' = 0
    BY <1>4, <1>8, <1>13 DEF Pending
  <2>2. CASE CanSend(k)
    <3>1. HasOutbound(k) /\ Size(k) <= out[k]
      BY <1>4, <1>5, <1>q, <2>1, <2>2 DEF WindowInv, HasOutbound
    <3>2. out'[k] = out[k] - Size(k)
      BY <1>13, <3>1
    <3>3. Total(k)' = Total(k)
      <4>1. /\ Total(k) = (DataOf(k) + Held(k)) + (out[k] + CreditOf(k))
            /\ Total(k)' = (DataOf(k)' + Held(k)') + (out'[k] + CreditOf(k)')
        BY <1>10, <2>2 DEF Total, Owed
      <4>2. Total(k)' = ((DataOf(k) + Size(k)) + Held(k)) + ((out[k] - Size(k)) + CreditOf(k))
        BY <1>10, <1>11, <3>2, <4>1
      <4>3. \A d, h, b, o, c \in Nat : ((d + b) + h) + ((o - b) + c) = (d + h) + (o + c)
        OBVIOUS
      <4>4. ((DataOf(k) + Size(k)) + Held(k)) + ((out[k] - Size(k)) + CreditOf(k))
                = (DataOf(k) + Held(k)) + (out[k] + CreditOf(k))
        <5>1. /\ DataOf(k) \in Nat /\ Size(k) \in Nat /\ Held(k) \in Nat /\ out[k] \in Nat
              /\ CreditOf(k) \in Nat
          BY <1>5, <1>q
        <5>2. PICK d, h, b, o, c : /\ d = DataOf(k) /\ h = Held(k) /\ b = Size(k) /\ o = out[k]
                                   /\ c = CreditOf(k)
          OBVIOUS
        <5> HIDE DEF IInv
        <5> QED
          BY <4>3, <5>1, <5>2
      <4> QED
        BY <4>1, <4>2, <4>4, Zenon
    <3> QED
      BY <1>10, <1>13, <2>1, <3>3 DEF WindowInv
  <2>3. CASE ~CanSend(k)
    <3>1. Total(k)' = Total(k)
      <4>1. /\ Total(k) = (DataOf(k) + Held(k)) + Size(k)
            /\ Total(k)' = ((DataOf(k) + Size(k)) + Held(k)) + 0
        BY <1>10, <1>11, <2>1, <2>3 DEF Total, Owed
      <4>2. PICK d, h, b : d = DataOf(k) /\ h = Held(k) /\ b = Size(k)
        OBVIOUS
      <4>3. d \in Nat /\ h \in Nat /\ b \in Nat
        BY <1>5, <1>q, <4>2
      <4>4. ((d + b) + h) + 0 = (d + h) + b
        BY <4>3
      <4> QED
        BY <4>1, <4>2, <4>4
    <3> QED
      BY <1>10, <2>1, <2>3, <3>1 DEF WindowInv
  <2> QED
    BY <2>2, <2>3
<1>18. \A x \in Kinds : WindowInv(x)'
  BY <1>16, <1>17, <1>q
<1> QED
  BY <1>14, <1>15, <1>18 DEF AccountInv

\* A frame that is not heard.
LEMMA QuietIgnores ==
    ASSUME IInv, AccountInv, TypeInv', Onward, ServerIgnores \/ ClientIgnores
    PROVE  Quietly
<1> USE DEF IInv
<1>0. down \in Seq(Frame) /\ up \in Seq(Frame) /\ BeginInv
  BY TypedRest DEF AccountInv
<1>1. LinkRests("ws.client") /\ LinkRests("ws.server") => \A k \in Kinds : LinkRests(k)
  BY DEF Kinds
<1>2. UNCHANGED <<said, chain, stage, out, in, held, srv, cli>>
  BY DEF ServerIgnores, ClientIgnores, endpoints, stream, sender, receiver
<1>3. /\ \A k \in Kinds : Rests(k)
      /\ held' = held /\ (srv # "open" \/ srv' = "open")
  BY <1>2, BothGoOn
<1>4. CASE ServerIgnores
  <2>1. /\ up # <<>> /\ up' = Tail(up) /\ down' = down /\ ~Hears("ws.server")'
        /\ Head(up).type = "data" \/ Head(up).type \notin {"data", "credit"}
    BY <1>4 DEF ServerIgnores, Heads, Hears, stream
  <2>2. LinkRests("ws.server") /\ LinkRests("ws.client")
    BY <1>0, <2>1, UpRests, DownRests
  <2> QED
    BY <1>1, <1>3, <2>1, <2>2 DEF Quietly
<1>5. CASE ClientIgnores
  <2>1. /\ down # <<>> /\ down' = Tail(down) /\ up' = up /\ ~Hears("ws.client")'
        /\ Head(down).type = "data" \/ Head(down).type \notin {"data", "credit"}
    BY <1>5 DEF ClientIgnores, Heads, Hears, stream
  <2>2. LinkRests("ws.server") /\ LinkRests("ws.client")
    BY <1>0, <2>1, UpRests, DownRests
  <2>3. Has(down', "credit") => Has(down, "credit")
    BY <1>0, <2>1, Leaves
  <2> QED
    BY <1>1, <1>3, <2>1, <2>2, <2>3 DEF Quietly
<1> QED
  BY <1>4, <1>5

\* A frame that ends the stream of its receiver.
LEMMA QuietStops ==
    ASSUME IInv, AccountInv, TypeInv', Onward,
           \/ Heads("data", up) /\ up' = Tail(up) /\ ServerCannotSend(Head(up))
           \/ Heads("data", up) /\ up' = Tail(up) /\ ServerOverflows(Head(up))
           \/ /\ Heads("data", down) /\ down' = Tail(down) /\ ClientTakes(Head(down))
              /\ ~(Bytes("ws.client", Head(down)) > 0)
    PROVE  Quietly
<1> USE DEF IInv
<1>0. down \in Seq(Frame) /\ up \in Seq(Frame) /\ BeginInv
  BY TypedRest DEF AccountInv
<1>1. LinkRests("ws.client") /\ LinkRests("ws.server") => \A k \in Kinds : LinkRests(k)
  BY DEF Kinds
<1>2. PICK f : f = [type |-> "abort"]
  OBVIOUS
<1>3. f \in Frame /\ f.type = "abort"
  BY <1>2, FrameTypes
<1>4. CASE Heads("data", up) /\ up' = Tail(up) /\ ServerCannotSend(Head(up))
  <2>1. /\ srv' = "gone" /\ held' = <<>> /\ CreditsGo("ws.client")
        /\ UNCHANGED <<said, chain, cli>> /\ down' = Append(down, f)
    BY <1>2, <1>4 DEF ServerCannotSend, ServerAborts, ServerCleansUp
  <2>2. \A k \in Kinds : Rests(k)
    BY <2>1, ServerStops
  <2>3. down' = down \o <<f>> /\ (Has(down', "credit") => Has(down, "credit"))
    BY <1>0, <1>3, <2>1, Pushes
  <2>4. up # <<>> /\ up' = Tail(up) /\ Head(up).type = "data" /\ ~Hears("ws.server")'
    BY <1>4, <2>1 DEF Heads, Hears
  <2>5. LinkRests("ws.server") /\ LinkRests("ws.client")
    BY <1>0, <1>3, <2>3, <2>4, UpRests, DownRests
  <2> QED
    BY <1>1, <2>1, <2>2, <2>3, <2>4, <2>5 DEF Quietly
<1>5. CASE /\ Heads("data", down) /\ down' = Tail(down) /\ ClientTakes(Head(down))
           /\ ~(Bytes("ws.client", Head(down)) > 0)
  <2>1. /\ cli' = "gone" /\ CreditsGo("ws.server") /\ UNCHANGED <<said, chain, srv, held>>
        /\ up' = Append(up, f)
    BY <1>2, <1>5 DEF ClientTakes, ClientAborts
  <2>2. \A k \in Kinds : Rests(k)
    BY <2>1, ClientStops
  <2>3. up' = up \o <<f>>
    BY <1>0, <1>3, <2>1, Pushes
  <2>4. down # <<>> /\ down' = Tail(down) /\ Head(down).type = "data" /\ ~Hears("ws.client")'
    BY <1>5, <2>1 DEF Heads, Hears
  <2>5. LinkRests("ws.server") /\ LinkRests("ws.client")
    BY <1>0, <1>3, <2>3, <2>4, UpRests, DownRests
  <2>6. held' = held /\ (srv # "open" \/ srv' = "open")
    BY <2>1
  <2> QED
    BY <1>1, <2>1, <2>2, <2>5, <2>6 DEF Quietly
<1>6. CASE Heads("data", up) /\ up' = Tail(up) /\ ServerOverflows(Head(up))
  <2>1. /\ srv' = "gone" /\ held' = <<>> /\ CreditsGo("ws.client")
        /\ UNCHANGED <<said, chain, cli, down>>
    BY <1>6 DEF ServerOverflows, ServerCleansUp
  <2>2. \A k \in Kinds : Rests(k)
    BY <2>1, ServerStops
  <2>3. up # <<>> /\ up' = Tail(up) /\ Head(up).type = "data" /\ ~Hears("ws.server")'
    BY <1>6, <2>1 DEF Heads, Hears
  <2>4. LinkRests("ws.server") /\ LinkRests("ws.client")
    BY <1>0, <2>1, <2>3, UpRests, DownRests
  <2>5. Has(down', "credit") => Has(down, "credit")
    BY <2>1
  <2> QED
    BY <1>1, <2>1, <2>2, <2>3, <2>4, <2>5 DEF Quietly
<1> QED
  BY <1>4, <1>5, <1>6

\* What the head of a link takes off its weight.
LEMMA HeadAccount ==
    ASSUME IInv, BeginInv, NEW k \in Kinds, Link(k) # <<>>, Link(k)' = Tail(Link(k)),
           UNCHANGED said
    PROVE  /\ DataOf(k)' \in Nat /\ CreditInFlight(Link(k)') \in Nat /\ Head(Link(k)) \in Frame
           /\ Head(Link(k)).type = "data" =>
                 /\ Bytes(k, Head(Link(k))) \in Nat /\ Head(Link(k)).msg \in 1..Len(said[k])
                 /\ DataOf(k) = Bytes(k, Head(Link(k))) + DataOf(k)'
                 /\ CreditInFlight(Link(k)) = CreditInFlight(Link(k)')
           /\ Head(Link(k)).type = "credit" =>
                 /\ Head(Link(k)).bytes \in Nat
                 /\ DataOf(k) = DataOf(k)'
                 /\ CreditInFlight(Link(k)) = Head(Link(k)).bytes + CreditInFlight(Link(k)')
<1> DEFINE s == said[k]
           link == Link(k)
<1>1. s \in Seq(Nat) /\ link \in Seq(Frame) /\ Spoken(s, link)
  BY Quantities
<1>2. /\ Head(link) \in Frame
      /\ DataBytes(s, Tail(link)) \in Nat /\ CreditInFlight(Tail(link)) \in Nat
      /\ Head(link).type = "data" => Head(link).msg \in 1..Len(s) /\ s[Head(link).msg] \in Nat
      /\ DataBytes(s, link) = (IF Head(link).type = "data" THEN s[Head(link).msg] ELSE 0)
                                   + DataBytes(s, Tail(link))
      /\ CreditInFlight(link) = (IF Head(link).type = "credit" THEN Head(link).bytes ELSE 0)
                                   + CreditInFlight(Tail(link))
  BY <1>1, LinkLoses
<1>3. DataOf(k) = DataBytes(s, link) /\ DataOf(k)' = DataBytes(s, Tail(link))
      /\ CreditInFlight(Link(k)') = CreditInFlight(Tail(link))
      /\ Bytes(k, Head(link)) = s[Head(link).msg]
  BY DEF DataOf, Bytes
<1>4. ASSUME Head(link).type = "data"
      PROVE  /\ DataOf(k) = Bytes(k, Head(link)) + DataOf(k)'
             /\ CreditInFlight(link) = CreditInFlight(Link(k)')
  BY <1>2, <1>3, <1>4
<1>5. ASSUME Head(link).type = "credit"
      PROVE  /\ Head(link).bytes \in Nat /\ DataOf(k) = DataOf(k)'
             /\ CreditInFlight(link) = Head(link).bytes + CreditInFlight(Link(k)')
  <2>1. Head(link).bytes \in Nat
    BY <1>2, <1>5 DEF Frame
  <2> QED
    BY <1>2, <1>3, <1>5, <2>1
<1> QED
  BY <1>2, <1>3, <1>4, <1>5

\* The receiver has allowed for every frame on its way.
LEMMA Affords ==
    ASSUME IInv, AccountInv, NEW k \in Kinds, Heads("data", Link(k)), Knows(k)
    PROVE  Bytes(k, Head(Link(k))) <= in[k]
<1> DEFINE s == said[k]
           link == Link(k)
           b == Bytes(k, Head(Link(k)))
<1>1. /\ s \in Seq(Nat) /\ link \in Seq(Frame) /\ Spoken(s, link) /\ link # <<>>
      /\ DataOf(k) \in Nat /\ CreditOf(k) \in Nat /\ Held(k) \in Nat /\ Pending(k) \in Nat
      /\ out[k] \in Nat /\ in[k] \in Nat /\ StreamCredit \in Nat
  BY Quantities DEF AccountInv, Heads
<1>2. /\ s[Head(link).msg] \in Nat /\ DataBytes(s, Tail(link)) \in Nat
      /\ DataBytes(s, link) = s[Head(link).msg] + DataBytes(s, Tail(link))
  BY <1>1, LinkLoses DEF Heads
<1>3. b \in Nat /\ b <= DataOf(k)
  <2>1. b = s[Head(link).msg] /\ DataOf(k) = DataBytes(s, link)
    BY DEF DataOf, Bytes
  <2> QED
    BY <1>2, <2>1
<1>4. Total(k) <= StreamCredit /\ in[k] + Held(k) = StreamCredit
  BY DEF AccountInv, WindowInv, AllowedInv
<1>5. Owed(k) \in Nat
  BY <1>1 DEF Owed
<1> HIDE DEF b
<1>6. b <= in[k]
  <2>1. PICK d, h, w, i : d = DataOf(k) /\ h = Held(k) /\ w = Owed(k) /\ i = in[k]
    OBVIOUS
  <2>2. /\ d \in Nat /\ h \in Nat /\ w \in Nat /\ i \in Nat /\ b \in Nat /\ b <= d
        /\ StreamCredit \in Nat /\ (d + h) + w <= StreamCredit /\ i + h = StreamCredit
    BY <1>1, <1>3, <1>4, <1>5, <2>1 DEF Total
  <2>3. b <= i
    BY <2>2
  <2> QED
    BY <2>1, <2>3
<1> QED
  BY <1>6 DEF b

\* What the grant of some bytes adds to a link.
LEMMA CreditGains ==
    ASSUME NEW s \in Seq(Nat), NEW link \in Seq(Frame), Spoken(s, link), NEW bytes \in Nat
    PROVE  /\ link \o Credit(bytes) \in Seq(Frame)
           /\ DataBytes(s, link \o Credit(bytes)) = DataBytes(s, link)
           /\ CreditInFlight(link \o Credit(bytes)) = CreditInFlight(link) + bytes
<1>0. DataBytes(s, link) \in Nat /\ CreditInFlight(link) \in Nat
  BY LinkWeighs
<1>1. CASE bytes > 0
  <2>1. PICK f : f = [type |-> "credit", bytes |-> bytes]
    OBVIOUS
  <2>2. f \in Frame /\ f.type = "credit" /\ f.bytes = bytes /\ Credit(bytes) = <<f>>
    BY <1>1, <2>1 DEF Frame, Credit
  <2>3. /\ DataBytes(s, link \o <<f>>) = DataBytes(s, link) + 0
        /\ CreditInFlight(link \o <<f>>) = CreditInFlight(link) + bytes
    BY <2>2, LinkGains
  <2>4. link \o <<f>> \in Seq(Frame)
    BY <2>2, Pushes
  <2>5. DataBytes(s, link \o <<f>>) = DataBytes(s, link)
    BY <1>0, <2>3
  <2> QED
    BY <2>2, <2>3, <2>4, <2>5
<1>2. CASE ~(bytes > 0)
  <2>1. Credit(bytes) = <<>> /\ bytes = 0
    BY <1>2 DEF Credit
  <2>2. link \o <<>> = link
    OBVIOUS
  <2> QED
    BY <1>0, <2>1, <2>2
<1> QED
  BY <1>1, <1>2

\* The arithmetic of a frame that is taken.
LEMMA Transfers ==
    ASSUME NEW d \in Nat, NEW e \in Nat, NEW h \in Nat, NEW a \in Nat, NEW c \in Nat,
           NEW b \in Nat, d = b + e
    PROVE  (e + h) + (a + (c + b)) = (d + h) + (a + c)
  OBVIOUS

\* ... of which nothing comes back.
LEMMA Leaving ==
    ASSUME NEW d \in Nat, NEW e \in Nat, NEW h \in Nat, NEW c \in Nat, NEW b \in Nat, d = b + e
    PROVE  (e + h) + c <= (d + h) + c /\ (e + h) + c \in Nat /\ (d + h) + c \in Nat
  OBVIOUS

\* A data frame is taken, and its bytes are granted or held.
LEMMA HearAccount ==
    ASSUME IInv, AccountInv, TypeInv', NEW k \in Kinds, Heads("data", Link(k)),
           Link(k)' = Tail(Link(k)), UNCHANGED <<said, chain, stage, out, srv, cli>>,
           NEW b, b = Bytes(k, Head(Link(k))),
           \/ Link(Other(k))' = Link(Other(k)) \o Credit(b) /\ UNCHANGED <<in, held>>
           \/ /\ k = "ws.server" /\ Link(Other(k))' = Link(Other(k)) /\ b <= in[k]
              /\ held' = Append(held, Head(Link(k)).msg) /\ in' = [in EXCEPT ![k] = @ - b]
    PROVE  \A x \in Kinds : WindowInv(x)' /\ AllowedInv(x)'
<1> DEFINE o == Other(k)
<1>0. BeginInv /\ \A x \in Kinds : WindowInv(x) /\ AllowedInv(x)
  BY DEF AccountInv
<1>q. /\ o \in Kinds /\ o # k /\ Other(o) = k /\ (\A x \in Kinds : x = k \/ x = o)
      /\ (k = "ws.server" => o = "ws.client")
  BY DEF Other, Kinds
<1>h. Link(k) # <<>> /\ Head(Link(k)).type = "data"
  BY DEF Heads
<1>1. /\ DataOf(k) \in Nat /\ CreditOf(k) \in Nat /\ Held(k) \in Nat /\ Pending(k) \in Nat
      /\ out[k] \in Nat /\ in[k] \in Nat /\ StreamCredit \in Nat
  BY <1>0, Quantities
<1>2. /\ said[o] \in Seq(Nat) /\ Link(o) \in Seq(Frame) /\ Spoken(said[o], Link(o))
  BY <1>0, <1>q, Quantities
<1>3. /\ DataOf(k)' \in Nat /\ b \in Nat /\ Head(Link(k)).msg \in 1..Len(said[k])
      /\ DataOf(k) = b + DataOf(k)'
      /\ CreditInFlight(Link(k)) = CreditInFlight(Link(k)')
  BY <1>0, <1>h, HeadAccount
<1>4. CreditOf(o)' = CreditOf(o)
  BY <1>3, <1>q DEF CreditOf
<1>5. \A x \in Kinds : CanSend(x)' = CanSend(x) /\ Hears(x)' = Hears(x) /\ Knows(x)' = Knows(x)
                       /\ Pending(x)' = Pending(x) /\ HasOutbound(x)' = HasOutbound(x)
  BY DEF CanSend, Hears, Knows, Pending, HasOutbound, Size
<1>6. CASE Link(o)' = Link(o) \o Credit(b) /\ UNCHANGED <<in, held>>
  <2>1. /\ DataBytes(said[o], Link(o) \o Credit(b)) = DataBytes(said[o], Link(o))
        /\ CreditInFlight(Link(o) \o Credit(b)) = CreditInFlight(Link(o)) + b
    BY <1>2, <1>3, CreditGains
  <2>2. DataOf(o)' = DataOf(o) /\ CreditOf(k)' = CreditOf(k) + b
    BY <1>6, <2>1 DEF DataOf, CreditOf
  <2>3. \A x \in Kinds : Held(x)' = Held(x)
    BY <1>6 DEF Held
  <2>4. WindowInv(o)'
    BY <1>0, <1>4, <1>5, <1>q, <2>2, <2>3 DEF WindowInv, Total, Owed
  <2>5. WindowInv(k)'
    <3>1. WindowInv(k) /\ Held(k)' = Held(k)
      BY <1>0, <2>3
    <3>2. CanSend(k) => Total(k)' = Total(k)
      <4> SUFFICES ASSUME CanSend(k) PROVE Total(k)' = Total(k)
        OBVIOUS
      <4>1. /\ Total(k) = (DataOf(k) + Held(k)) + (out[k] + CreditOf(k))
            /\ Total(k)' = (DataOf(k)' + Held(k)) + (out[k] + (CreditOf(k) + b))
        BY <1>5, <2>2, <3>1 DEF Total, Owed
      <4>2. (DataOf(k)' + Held(k)) + (out[k] + (CreditOf(k) + b))
                = (DataOf(k) + Held(k)) + (out[k] + CreditOf(k))
        <5>1. PICK d, e, h, a, c : /\ d = DataOf(k) /\ e = DataOf(k)' /\ h = Held(k) /\ a = out[k]
                                   /\ c = CreditOf(k)
          OBVIOUS
        <5>2. /\ d \in Nat /\ e \in Nat /\ h \in Nat /\ a \in Nat /\ c \in Nat /\ b \in Nat
              /\ d = b + e
          BY <1>1, <1>3, <5>1
        <5>3. (e + h) + (a + (c + b)) = (d + h) + (a + c)
          BY <5>2, Transfers
        <5> QED
          BY <5>1, <5>3
      <4> QED
        BY <4>1, <4>2, Zenon
    <3>3. ~CanSend(k) => Total(k)' <= Total(k) /\ Total(k)' \in Nat /\ Total(k) \in Nat
      <4> SUFFICES ASSUME ~CanSend(k)
                   PROVE  Total(k)' <= Total(k) /\ Total(k)' \in Nat /\ Total(k) \in Nat
        OBVIOUS
      <4>1. /\ Total(k) = (DataOf(k) + Held(k)) + Pending(k)
            /\ Total(k)' = (DataOf(k)' + Held(k)) + Pending(k)
        BY <1>5, <3>1 DEF Total, Owed
      <4>2. /\ (DataOf(k)' + Held(k)) + Pending(k) <= (DataOf(k) + Held(k)) + Pending(k)
            /\ (DataOf(k)' + Held(k)) + Pending(k) \in Nat
            /\ (DataOf(k) + Held(k)) + Pending(k) \in Nat
        <5>1. PICK d, e, h, c : /\ d = DataOf(k) /\ e = DataOf(k)' /\ h = Held(k)
                                /\ c = Pending(k)
          OBVIOUS
        <5>2. /\ d \in Nat /\ e \in Nat /\ h \in Nat /\ c \in Nat /\ b \in Nat /\ d = b + e
          BY <1>1, <1>3, <5>1
        <5>3. (e + h) + c <= (d + h) + c /\ (e + h) + c \in Nat /\ (d + h) + c \in Nat
          BY <5>2, Leaving, Zenon
        <5> QED
          BY <5>1, <5>3, Zenon
      <4> QED
        BY <4>1, <4>2, Zenon
    <3> QED
      BY <1>1, <1>5, <3>1, <3>2, <3>3 DEF WindowInv
  <2>6. \A x \in Kinds : AllowedInv(x)'
    BY <1>0, <1>5, <1>6, <2>3 DEF AllowedInv
  <2>7. \A x \in Kinds : WindowInv(x)'
    BY <1>q, <2>4, <2>5
  <2> QED
    BY <2>6, <2>7
<1>7. CASE /\ k = "ws.server" /\ Link(o)' = Link(o) /\ b <= in[k]
           /\ held' = Append(held, Head(Link(k)).msg) /\ in' = [in EXCEPT ![k] = @ - b]
  <2>1. DataOf(o)' = DataOf(o) /\ CreditOf(k)' = CreditOf(k)
    BY <1>7 DEF DataOf, CreditOf
  <2>2. Held(k)' = Held(k) + b /\ Held(o)' = Held(o)
    <3>1. held \in Seq(Nat) /\ said[k] \in Seq(Nat)
      BY Typed, TypedRest DEF IInv
    <3>2. HeldBytes(said[k], Append(held, Head(Link(k)).msg))
              = HeldBytes(said[k], held) + said[k][Head(Link(k)).msg]
      BY <1>0, <1>3, <1>7, <3>1, HeldWeighs DEF BeginInv
    <3>3. Held(k) = HeldBytes(said[k], held) /\ Held(k)' = HeldBytes(said[k], held')
      BY <1>7 DEF Held, HeldBytes
    <3>4. Held(o) = 0 /\ Held(o)' = 0
      BY <1>7, <1>q DEF Held
    <3> QED
      BY <1>7, <3>2, <3>3, <3>4 DEF Bytes
  <2>3. WindowInv(o)'
    BY <1>0, <1>4, <1>5, <1>q, <2>1, <2>2 DEF WindowInv, Total, Owed
  <2>4. WindowInv(k)'
    <3>1. WindowInv(k)
      BY <1>0
    <3>2. Owed(k)' = Owed(k)
      BY <1>5, <2>1 DEF Owed
    <3>3. DataOf(k)' + (Held(k) + b) = DataOf(k) + Held(k)
      BY <1>1, <1>3
    <3>4. Total(k)' = Total(k)
      BY <2>2, <3>2, <3>3 DEF Total
    <3> QED
      BY <1>5, <3>1, <3>4 DEF WindowInv
  <2>5. in'[k] = in[k] - b /\ in'[o] = in[o]
    <3>1. in \in [Kinds -> Nat]
      BY Typed DEF IInv
    <3> QED
      BY <1>7, <1>q, <3>1
  <2>6. AllowedInv(k)'
    <3>1. in'[k] + (Held(k) + b) = in[k] + Held(k)
      BY <1>1, <1>3, <2>5
    <3> QED
      BY <1>0, <1>5, <2>2, <3>1 DEF AllowedInv
  <2>7. AllowedInv(o)'
    BY <1>0, <1>5, <1>q, <2>2, <2>5 DEF AllowedInv
  <2> QED
    BY <1>q, <2>3, <2>4, <2>6, <2>7
<1> QED
  BY <1>6, <1>7

\* Credit comes back to the sender.
LEMMA GrantAccount ==
    ASSUME IInv, AccountInv, TypeInv', NEW k \in Kinds, Heads("credit", Link(Other(k))),
           Link(Other(k))' = Tail(Link(Other(k))), Link(k)' = Link(k),
           Granted(k, Head(Link(Other(k))).bytes),
           UNCHANGED <<said, chain, in, held, srv, cli>>
    PROVE  \A x \in Kinds : WindowInv(x)' /\ AllowedInv(x)'
<1> DEFINE o == Other(k)
           b == Head(Link(o)).bytes
<1>0. BeginInv /\ \A x \in Kinds : WindowInv(x) /\ AllowedInv(x)
  BY DEF AccountInv
<1>q. o \in Kinds /\ o # k /\ Other(o) = k /\ \A x \in Kinds : x = k \/ x = o
  BY DEF Other, Kinds
<1>h. Link(o) # <<>> /\ Head(Link(o)).type = "credit"
  BY DEF Heads
<1>1. /\ DataOf(k) \in Nat /\ CreditOf(k) \in Nat /\ Held(k) \in Nat /\ Pending(k) \in Nat
      /\ out[k] \in Nat /\ StreamCredit \in Nat
  BY <1>0, Quantities
<1>2. /\ CreditInFlight(Link(o)') \in Nat /\ b \in Nat /\ DataOf(o) = DataOf(o)'
      /\ CreditInFlight(Link(o)) = b + CreditInFlight(Link(o)')
  BY <1>0, <1>h, <1>q, HeadAccount
<1>3. /\ CreditOf(k)' \in Nat /\ CreditOf(k) = b + CreditOf(k)' /\ DataOf(k)' = DataOf(k)
      /\ CreditOf(o)' = CreditOf(o)
  BY <1>2, <1>q DEF CreditOf, DataOf
<1>4. /\ out'[k] = out[k] + b /\ out'[o] = out[o] /\ stage'[o] = stage[o]
      /\ stage'[k] = (IF stage[k] = "waiting" THEN "woken" ELSE stage[k])
  <2>1. out \in [Kinds -> Nat] /\ stage \in [Kinds -> Stage]
    BY Typed DEF IInv
  <2> QED
    BY <1>q, <2>1 DEF Granted, Woken
<1> HIDE DEF b
<1>5. \A x \in Kinds : CanSend(x)' = CanSend(x) /\ Hears(x)' = Hears(x) /\ Knows(x)' = Knows(x)
                       /\ Held(x)' = Held(x) /\ Size(x)' = Size(x)
  BY DEF CanSend, Hears, Knows, Size, Held
<1>6. \A x \in Kinds : Pending(x)' = Pending(x)
  BY <1>4, <1>5, <1>q DEF Pending
<1>7. \A x \in Kinds : AllowedInv(x)'
  BY <1>0, <1>5 DEF AllowedInv
<1>8. WindowInv(o)'
  BY <1>0, <1>2, <1>3, <1>4, <1>5, <1>6, <1>q DEF WindowInv, Total, Owed, HasOutbound
<1>9. WindowInv(k)'
  <2>1. WindowInv(k)
    BY <1>0
  <2>2. out'[k] + CreditOf(k)' = out[k] + CreditOf(k)
    <3>1. PICK a, c, d : a = out[k] /\ c = CreditOf(k) /\ d = CreditOf(k)'
      OBVIOUS
    <3>2. a \in Nat /\ c \in Nat /\ d \in Nat /\ b \in Nat /\ c = b + d /\ out'[k] = a + b
      BY <1>1, <1>2, <1>3, <1>4, <3>1
    <3>3. (a + b) + d = a + c
      BY <3>2
    <3> QED
      BY <3>1, <3>2, <3>3
  <2>3. Total(k)' = Total(k)
    BY <1>3, <1>5, <1>6, <2>2 DEF Total, Owed
  <2>4. stage'[k] = "cleared" /\ CanSend(k)' => HasOutbound(k)'
    <3>1. ASSUME stage'[k] = "cleared", CanSend(k)' PROVE HasOutbound(k)'
      <4>1. HasOutbound(k) /\ stage[k] = "cleared"
        BY <1>4, <1>5, <2>1, <3>1 DEF WindowInv
      <4>2. Size(k) \in Nat
        BY <4>1, MessageTypes DEF IInv, StageInv
      <4>3. PICK a, z : a = out[k] /\ z = Size(k)
        OBVIOUS
      <4>4. a \in Nat /\ z \in Nat /\ b \in Nat /\ a >= z /\ out'[k] = a + b /\ Size(k)' = z
        BY <1>1, <1>2, <1>4, <1>5, <4>1, <4>2, <4>3 DEF HasOutbound
      <4>5. a + b >= z
        BY <4>4
      <4> QED
        BY <4>4, <4>5 DEF HasOutbound
    <3> QED
      BY <3>1
  <2> QED
    BY <1>5, <2>1, <2>3, <2>4 DEF WindowInv
<1>10. \A x \in Kinds : WindowInv(x)'
  BY <1>8, <1>9, <1>q
<1> QED
  BY <1>7, <1>10

\* The endpoint says one more message.
LEMMA SpeakAccount ==
    ASSUME IInv, AccountInv, TypeInv', NEW k \in Kinds, NEW bytes \in Nat, Speaks(k, bytes),
           chain' = chain \/ Enqueue(k), UNCHANGED <<srv, cli, stage, out, in, held, up, down>>
    PROVE  AccountInv'
<1>0. BeginInv /\ \A x \in Kinds : WindowInv(x) /\ AllowedInv(x)
  BY DEF AccountInv
<1>1. said \in [Kinds -> Seq(Nat)] /\ chain \in [Kinds -> Seq(Nat)] /\ held \in Seq(Nat)
  BY Typed, TypedRest DEF IInv
<1>2. /\ said'[k] = Append(said[k], bytes)
      /\ \A x \in Kinds : x # k => said'[x] = said[x] /\ chain'[x] = chain[x]
      /\ chain'[k] = chain[k] \/ chain'[k] = Append(chain[k], Len(said[k]) + 1)
  BY <1>1 DEF Speaks, Enqueue
<1>3. ASSUME NEW x \in Kinds
      PROVE  /\ \A m \in 1..Len(said[x]) : m \in 1..Len(said'[x]) /\ said'[x][m] = said[x][m]
             /\ DataOf(x)' = DataOf(x) /\ CreditOf(x)' = CreditOf(x) /\ Held(x)' = Held(x)
  <2>0. /\ said[x] \in Seq(Nat) /\ Link(x) \in Seq(Frame) /\ Spoken(said[x], Link(x))
        /\ x # "ws.server" => x = "ws.client"
    BY <1>0, Quantities
  <2>1. Link(x)' = Link(x) /\ Link(Other(x))' = Link(Other(x))
    BY DEF Link
  <2>2. CASE said'[x] = said[x]
    <3>1. Held(x)' = Held(x)
      BY <2>2 DEF Held
    <3> QED
      BY <2>1, <2>2, <3>1 DEF DataOf, CreditOf
  <2>3. CASE said'[x] = Append(said[x], bytes)
    <3>1. \A m \in 1..Len(said[x]) : m \in 1..Len(said'[x]) /\ said'[x][m] = said[x][m]
      BY <2>0, <2>3
    <3>2. DataOf(x)' = DataOf(x)
      BY <2>0, <2>1, <2>3, LinkStays DEF DataOf
    <3>3. CreditOf(x)' = CreditOf(x)
      BY <2>1 DEF CreditOf
    <3>4. CASE x = "ws.client"
      BY <3>1, <3>2, <3>3, <3>4 DEF Held
    <3>5. CASE x = "ws.server"
      <4>0. \A i \in DOMAIN held : held[i] \in 1..Len(said[x])
        BY <1>0, <3>5 DEF BeginInv
      <4>1. HeldBytes(Append(said[x], bytes), held) = HeldBytes(said[x], held)
        BY <1>1, <2>0, <4>0, HeldWeighs
      <4>2. Held(x) = HeldBytes(said[x], held) /\ Held(x)' = HeldBytes(said'[x], held)
        BY <3>5 DEF Held, HeldBytes
      <4> QED
        BY <2>3, <3>1, <3>2, <3>3, <4>1, <4>2
    <3> QED
      BY <2>0, <3>4, <3>5
  <2> QED
    BY <1>2, <2>2, <2>3
<1>4. ASSUME NEW x \in Kinds, chain[x] # <<>>
      PROVE  Size(x)' = Size(x)
  <2>1. Head(chain[x]) \in 1..Len(said[x])
    BY <1>4, MessageTypes
  <2>2. Head(chain'[x]) = Head(chain[x])
    <3>1. \A c \in Seq(Nat), n \in Nat : c # <<>> => Head(Append(c, n)) = Head(c)
      OBVIOUS
    <3>2. PICK n : n = Len(said[k]) + 1
      OBVIOUS
    <3>3. chain[x] \in Seq(Nat)
      BY <1>1
    <3>4. n \in Nat
      BY <1>1, <3>2
    <3>5. Head(Append(chain[x], n)) = Head(chain[x])
      BY <1>4, <3>1, <3>3, <3>4
    <3> QED
      BY <1>2, <3>2, <3>5
  <2> QED
    BY <1>3, <2>1, <2>2 DEF Size
<1>5. ASSUME NEW x \in Kinds PROVE WindowInv(x)' /\ AllowedInv(x)'
  <2>1. stage[x] = "cleared" => chain[x] # <<>>
    BY DEF IInv, StageInv
  <2>2. Pending(x)' = Pending(x)
    BY <1>4, <2>1 DEF Pending
  <2>3. CanSend(x)' = CanSend(x) /\ Hears(x)' = Hears(x) /\ Knows(x)' = Knows(x)
    BY DEF CanSend, Hears, Knows
  <2>4. Total(x)' = Total(x)
    BY <1>3, <2>2, <2>3 DEF Total, Owed
  <2>5. stage'[x] = "cleared" /\ CanSend(x)' => HasOutbound(x)'
    BY <1>0, <1>4, <2>1, <2>3 DEF WindowInv, HasOutbound
  <2>6. WindowInv(x)'
    BY <1>0, <2>3, <2>4, <2>5 DEF WindowInv
  <2>7. AllowedInv(x)'
    BY <1>0, <1>3, <2>3 DEF AllowedInv
  <2> QED
    BY <2>6, <2>7
<1>6. BeginInv'
  <2>1. \A i \in DOMAIN held : held[i] \in 1..Len(said'["ws.server"])
    BY <1>0, <1>3, TwoKinds DEF BeginInv
  <2> QED
    BY <1>0, <2>1 DEF BeginInv, Has
<1> QED
  BY <1>5, <1>6 DEF AccountInv

\* The stream begins, on the server and then on the client.
LEMMA ConnectAccount ==
    ASSUME IInv, AccountInv, TypeInv', PublicConnects
    PROVE  AccountInv'
<1>0. BeginInv /\ \A x \in Kinds : WindowInv(x) /\ AllowedInv(x)
  BY DEF AccountInv
<1>1. /\ srv = "absent" /\ srv' = "connecting" /\ cli' = cli /\ cli = "absent" /\ pub = "none"
      /\ down = <<>> /\ up = <<>> /\ held = <<>> /\ held' = <<>> /\ up' = <<>>
      /\ UNCHANGED <<said, chain, stage>>
      /\ chain["ws.client"] = <<>> /\ chain["ws.server"] = <<>>
  BY <1>0 DEF PublicConnects, ToClient, endpoints, IInv, CallInv, BeginInv
<1>2. PICK f : f = [type |-> "request"]
  OBVIOUS
<1>3. f \in Frame /\ f.type = "request" /\ down' = down \o <<f>> /\ down \in Seq(Frame)
      /\ up \in Seq(Frame)
  BY <1>2, FrameTypes, TypedRest DEF PublicConnects, ToClient, IInv
<1>4. LinkRests("ws.client")
  BY <1>0, <1>3, DownRests
<1>5. \A x \in Kinds : said[x] \in Seq(Nat)
  BY Typed DEF IInv
<1>6. \A type : ~Has(<<>>, type)
  BY DEF Has
<1>7. \A x \in Kinds : DataBytes(said[x], <<>>) = 0 /\ CreditInFlight(<<>>) = 0
  <2>1. <<>> \in Seq(Frame)
    OBVIOUS
  <2> QED
    BY <1>5, <1>6, <2>1, LinkStays
<1>8. Link("ws.client") = <<>> /\ Link("ws.server") = <<>> /\ Link("ws.server")' = <<>>
  BY <1>1 DEF Link
<1>9. /\ DataOf("ws.client")' = 0 /\ DataOf("ws.server")' = 0
      /\ CreditOf("ws.client")' = 0 /\ CreditOf("ws.server")' = 0
  <2>1. DataOf("ws.client") = 0
    BY <1>7, <1>8, TwoKinds DEF DataOf
  <2>2. DataOf("ws.client")' = 0
    BY <1>1, <1>4, <2>1 DEF LinkRests, DataOf
  <2>3. DataOf("ws.server")' = 0
    BY <1>1, <1>7, <1>8, TwoKinds DEF DataOf
  <2>4. CreditOf("ws.server")' = 0
    BY <1>4, <1>7, <1>8, TwoKinds DEF LinkRests, CreditOf, Other
  <2>5. CreditOf("ws.client")' = 0
    BY <1>7, <1>8, TwoKinds DEF CreditOf, Other
  <2> QED
    BY <2>2, <2>3, <2>4, <2>5
<1>10. \A x \in Kinds : stage'[x] = "idle" /\ Held(x)' = 0 /\ Pending(x)' = 0
  <2>1. \A x \in Kinds : stage[x] = "idle"
    BY <1>1 DEF IInv, StageInv, Kinds
  <2>2. SumFunction([i \in DOMAIN held' |-> said'["ws.server"][held'[i]]]) = 0
    <3>1. [i \in DOMAIN <<>> |-> said'["ws.server"][<<>>[i]]] = <<>>
      OBVIOUS
    <3> QED
      BY <1>1, <3>1, SumOfEmpty
  <2>3. \A x \in Kinds : Held(x)' = 0
    BY <2>2 DEF Held, Kinds
  <2> QED
    BY <1>1, <2>1, <2>3 DEF Pending
<1>11. out'["ws.client"] = StreamCredit /\ in'["ws.server"] = StreamCredit
       /\ StreamCredit \in Nat
  <2>1. out \in [Kinds -> Nat]
    BY Typed DEF IInv
  <2> QED
    BY <2>1, TwoKinds, LimitsAssumption DEF PublicConnects, Seeded
<1>12. WindowInv("ws.client")'
  <2>1. CanSend("ws.client")'
    BY <1>1 DEF CanSend
  <2>2. Total("ws.client")' = (0 + 0) + (StreamCredit + 0)
    BY <1>9, <1>10, <1>11, <2>1, TwoKinds DEF Total, Owed
  <2> QED
    BY <1>10, <1>11, <2>2, TwoKinds DEF WindowInv
<1>13. WindowInv("ws.server")'
  <2>1. ~CanSend("ws.server")'
    BY <1>1 DEF CanSend
  <2>2. Total("ws.server")' = (0 + 0) + 0
    BY <1>9, <1>10, <2>1, TwoKinds DEF Total, Owed
  <2> QED
    BY <1>10, <1>11, <2>1, <2>2, TwoKinds DEF WindowInv
<1>14. AllowedInv("ws.client")' /\ AllowedInv("ws.server")'
  BY <1>1, <1>10, <1>11, TwoKinds DEF AllowedInv, Knows
<1>15. BeginInv'
  <2>1. ~Has(down', "credit")
    BY <1>3, <1>6, <1>1, Pushes
  <2> QED
    BY <1>1, <2>1 DEF BeginInv
<1> QED
  BY <1>12, <1>13, <1>14, <1>15 DEF AccountInv, Kinds

\* The client that opens a local socket opens the accounts of both kinds.
LEMMA RequestAccount ==
    ASSUME IInv, AccountInv, TypeInv', ClientReceivesRequest
    PROVE  AccountInv'
<1>0. BeginInv /\ \A x \in Kinds : WindowInv(x) /\ AllowedInv(x)
  BY DEF AccountInv
<1>1. /\ down # <<>> /\ down' = Tail(down) /\ Head(down).type = "request"
      /\ cli' = "opening" /\ srv' = srv /\ UNCHANGED <<said, chain, stage, held, up>>
  BY DEF ClientReceivesRequest, Heads
<1>2. down \in Seq(Frame) /\ up \in Seq(Frame)
  BY TypedRest DEF IInv
<1>3. /\ cli = "absent" /\ up = <<>> /\ ~Has(down, "credit") /\ held = <<>>
      /\ chain["ws.server"] = <<>>
  <2>1. Has(down, "request")
    BY <1>1, <1>2, Leaves
  <2>2. cli = "absent" /\ chain["ws.server"] = <<>>
    BY <2>1 DEF IInv, CallInv
  <2>3. srv # "open"
    BY <2>2 DEF IInv, CallInv
  <2> QED
    BY <1>0, <2>2, <2>3 DEF BeginInv
<1>4. LinkRests("ws.client") /\ LinkRests("ws.server")
  BY <1>0, <1>1, DownRests, UpRests
<1>5. said["ws.server"] \in Seq(Nat)
  BY TwoKinds, Typed DEF IInv
<1>6. /\ Link("ws.client") = down /\ Link("ws.server") = <<>>
      /\ Link("ws.server")' = <<>> /\ Hears("ws.client")'
  BY <1>1, <1>3 DEF Link, Hears
<1>7. CreditInFlight(down) = 0 /\ DataBytes(said["ws.server"], <<>>) = 0
  <2>1. ~Has(<<>>, "data") /\ <<>> \in Seq(Frame)
    BY DEF Has
  <2> QED
    BY <1>2, <1>3, <1>5, <2>1, LinkStays
<1>8. /\ DataOf("ws.server")' = 0 /\ CreditOf("ws.server")' = 0
      /\ DataOf("ws.client")' = DataOf("ws.client") /\ CreditOf("ws.client")' = CreditOf("ws.client")
  <2>1. DataOf("ws.server")' = 0
    BY <1>1, <1>6, <1>7 DEF DataOf
  <2>2. CreditOf("ws.server")' = 0
    BY <1>4, <1>6, <1>7 DEF LinkRests, CreditOf, Other
  <2>3. DataOf("ws.client")' = DataOf("ws.client")
    BY <1>1, <1>4, <1>6 DEF LinkRests, DataOf
  <2>4. CreditOf("ws.client")' = CreditOf("ws.client")
    BY <1>6 DEF CreditOf, Other
  <2> QED
    BY <2>1, <2>2, <2>3, <2>4
<1>9. Held("ws.server")' = 0 /\ Held("ws.server") = 0 /\ Held("ws.client")' = 0
      /\ Held("ws.client") = 0
  <2>1. [i \in DOMAIN <<>> |-> said["ws.server"][<<>>[i]]] = <<>>
    OBVIOUS
  <2> QED
    BY <1>1, <1>3, <2>1, SumOfEmpty DEF Held
<1>10. stage["ws.server"] = "idle"
  BY <1>3, TwoKinds DEF IInv, StageInv
<1>11. /\ out'["ws.server"] = StreamCredit /\ in'["ws.client"] = StreamCredit
       /\ out'["ws.client"] = out["ws.client"] /\ in'["ws.server"] = in["ws.server"]
       /\ StreamCredit \in Nat
  <2>1. out \in [Kinds -> Nat]
    BY Typed DEF IInv
  <2> QED
    BY <2>1, TwoKinds, LimitsAssumption DEF ClientReceivesRequest, Seeded
<1>12. WindowInv("ws.server")'
  <2>1. CanSend("ws.server")'
    BY <1>1 DEF CanSend
  <2>2. Total("ws.server")' = (0 + 0) + (StreamCredit + 0)
    BY <1>8, <1>9, <1>11, <2>1, TwoKinds DEF Total, Owed
  <2> QED
    BY <1>1, <1>10, <1>11, <2>2, TwoKinds DEF WindowInv
<1>13. WindowInv("ws.client")'
  <2>1. CanSend("ws.client")' = CanSend("ws.client") /\ Hears("ws.client")
    BY <1>1, <1>3 DEF CanSend, Hears
  <2>2. Pending("ws.client")' = Pending("ws.client") /\ Size("ws.client")' = Size("ws.client")
    BY <1>1 DEF Pending, Size
  <2>3. Total("ws.client")' = Total("ws.client")
    BY <1>8, <1>9, <1>11, <2>1, <2>2, TwoKinds DEF Total, Owed
  <2>4. WindowInv("ws.client")
    BY <1>0, TwoKinds
  <2> QED
    BY <1>1, <1>6, <1>11, <2>1, <2>2, <2>3, <2>4 DEF WindowInv, HasOutbound
<1>14. AllowedInv("ws.client")' /\ AllowedInv("ws.server")'
  <2>1. AllowedInv("ws.server")
    BY <1>0, TwoKinds
  <2> QED
    BY <1>1, <1>9, <1>11, <2>1 DEF AllowedInv, Knows
<1>15. BeginInv'
  BY <1>0, <1>1 DEF BeginInv
<1> QED
  BY <1>12, <1>13, <1>14, <1>15 DEF AccountInv, Kinds


-----------------------------------------------------------------------------
(* What is received.                                                           *)

\* The server takes a data frame: it never fails the connection.
LEMMA ServerTakesAccount ==
    ASSUME IInv, AccountInv, TypeInv', Onward, ServerReceivesData
    PROVE  AccountInv' /\ fault' = fault
<1> DEFINE frame == Head(up)
           b == Bytes("ws.server", Head(up))
<1>0. BeginInv /\ down \in Seq(Frame) /\ up \in Seq(Frame)
  BY TypedRest DEF AccountInv, IInv
<1>l. /\ Link("ws.server") = up /\ Link("ws.server")' = up' /\ "ws.server" \in Kinds
      /\ Other("ws.server") = "ws.client"
      /\ Link("ws.client") = down /\ Link("ws.client")' = down'
  BY DEF Link, Kinds, Other
<1>1. Heads("data", up) /\ srv = "open" /\ up' = Tail(up) /\ up # <<>>
  BY DEF ServerReceivesData, Heads
<1>2. b \in Nat /\ b <= in["ws.server"] /\ in["ws.server"] \in Nat
      /\ frame.msg \in 1..Len(said["ws.server"])
  <2>1. Knows("ws.server")
    BY <1>1 DEF Knows
  <2>2. b <= in["ws.server"]
    BY <1>1, <1>l, <2>1, Affords
  <2> QED
    BY <1>0, <1>1, <1>l, <2>2, HeadTypes, Quantities
<1>3. InSequence("ws.server", frame)
  <2>1. Hears("ws.server")
    BY <1>1 DEF Hears
  <2> QED
    BY <1>1, <1>l, <2>1, FirstFrame DEF InSequence
<1>4. ~(b > in["ws.server"])
  BY <1>2
<1>5. ServerTakes(frame) \/ ServerCannotSend(frame) \/ ServerOverflows(frame)
  BY <1>3, <1>4 DEF ServerReceivesData
<1>6. CASE ServerCannotSend(frame)
  <2>1. Quietly
    BY <1>1, <1>6, QuietStops
  <2>2. fault' = fault
    BY <1>6 DEF ServerCannotSend
  <2> QED
    BY <2>1, <2>2, QuietKeeps
<1>7. CASE ServerTakes(frame)
  <2>1. UNCHANGED <<said, chain, stage, out, srv, cli, fault>>
    BY <1>7 DEF ServerTakes, stream, sender
  <2>2. cli' # "absent"
    BY <1>0, <1>1, <2>1 DEF BeginInv
  <2>3. CASE pub = "open"
    <3>1. down' = down \o Credit(b) /\ UNCHANGED <<in, held>>
      BY <1>7, <2>3 DEF ServerTakes
    <3>2. \A x \in Kinds : WindowInv(x)' /\ AllowedInv(x)'
      BY <1>1, <1>l, <2>1, <3>1, HearAccount
    <3>3. BeginInv'
      BY <1>0, <2>1, <2>2, <3>1 DEF BeginInv
    <3> QED
      BY <2>1, <3>2, <3>3 DEF AccountInv
  <2>4. CASE pub # "open"
    <3>1. /\ down' = down /\ held' = Append(held, frame.msg)
          /\ in' = [in EXCEPT !["ws.server"] = @ - b]
      BY <1>7, <2>4 DEF ServerTakes
    <3>2. \A x \in Kinds : WindowInv(x)' /\ AllowedInv(x)'
      BY <1>1, <1>2, <1>l, <2>1, <3>1, HearAccount
    <3>3. held \in Seq(Nat) /\ frame.msg \in Nat
      BY <1>2, TypedRest DEF IInv
    <3>4. \A i \in DOMAIN held' : held'[i] = frame.msg \/ (i \in DOMAIN held /\ held'[i] = held[i])
      BY <3>1, <3>3
    <3>5. \A i \in DOMAIN held' : held'[i] \in 1..Len(said'["ws.server"])
      BY <1>0, <1>2, <2>1, <3>4 DEF BeginInv
    <3>6. BeginInv'
      BY <1>1, <2>1, <2>2, <3>5 DEF BeginInv
    <3> QED
      BY <2>1, <3>2, <3>6 DEF AccountInv
  <2> QED
    BY <2>3, <2>4
<1>8. CASE ServerOverflows(frame)
  <2>1. Quietly
    BY <1>1, <1>8, QuietStops
  <2>2. fault' = fault
    BY <1>8 DEF ServerOverflows
  <2> QED
    BY <2>1, <2>2, QuietKeeps
<1> QED
  BY <1>5, <1>6, <1>7, <1>8

\* So does the client.
LEMMA ClientTakesAccount ==
    ASSUME IInv, AccountInv, TypeInv', Onward, ClientReceivesData
    PROVE  AccountInv' /\ fault' = fault
<1> DEFINE frame == Head(down)
           b == Bytes("ws.client", Head(down))
<1>0. BeginInv /\ down \in Seq(Frame) /\ up \in Seq(Frame)
  BY TypedRest DEF AccountInv, IInv
<1>l. /\ Link("ws.client") = down /\ Link("ws.client")' = down' /\ "ws.client" \in Kinds
      /\ Other("ws.client") = "ws.server"
      /\ Link("ws.server") = up /\ Link("ws.server")' = up'
  BY DEF Link, Kinds, Other
<1>1. Heads("data", down) /\ cli # "gone" /\ down' = Tail(down) /\ down # <<>>
  BY DEF ClientReceivesData, Heads
<1>2. cli = "open"
  <2>1. Has(down, "data")
    BY <1>0, <1>1, Leaves DEF Heads
  <2> QED
    BY <1>1, <2>1 DEF IInv, CallInv
<1>3. b \in Nat /\ b <= in["ws.client"] /\ in["ws.client"] \in Nat
  <2>1. Knows("ws.client")
    BY <1>2 DEF Knows
  <2>2. b <= in["ws.client"]
    BY <1>1, <1>l, <2>1, Affords
  <2> QED
    BY <1>0, <1>1, <1>l, <2>2, HeadTypes, Quantities
<1>4. InSequence("ws.client", frame)
  <2>1. Hears("ws.client")
    BY <1>1 DEF Hears
  <2> QED
    BY <1>1, <1>l, <2>1, FirstFrame DEF InSequence
<1>5. ~(b > in["ws.client"])
  BY <1>3
<1>6. ClientTakes(frame)
  BY <1>4, <1>5 DEF ClientReceivesData
<1>7. fault' = fault
  BY <1>6 DEF ClientTakes
<1>8. CASE ~(b > 0)
  <2>1. Quietly
    BY <1>1, <1>6, <1>8, QuietStops
  <2> QED
    BY <1>7, <2>1, QuietKeeps
<1>9. CASE b > 0
  <2>1. /\ UNCHANGED <<said, chain, stage, out, srv, cli, in, held>>
        /\ up' = up \o Credit(b)
    <3>1. ClientTakes(frame) /\ b > 0 /\ b = Bytes("ws.client", frame)
      BY <1>6, <1>9
    <3>2. UNCHANGED <<said, chain, srv>> /\ up' = up \o Credit(b)
          /\ UNCHANGED <<loc, cli, out, in, stage, held>>
      BY <3>1 DEF ClientTakes
    <3> QED
      BY <3>2
  <2>2. \A x \in Kinds : WindowInv(x)' /\ AllowedInv(x)'
    BY <1>1, <1>l, <2>1, HearAccount
  <2>3. BeginInv'
    BY <1>0, <1>2, <2>1 DEF BeginInv
  <2> QED
    BY <1>7, <2>2, <2>3 DEF AccountInv
<1> QED
  BY <1>8, <1>9

\* Credit that is received.
LEMMA CreditAccount ==
    ASSUME IInv, AccountInv, TypeInv', Onward, ServerReceivesCredit \/ ClientReceivesCredit
    PROVE  AccountInv'
<1>0. BeginInv /\ down \in Seq(Frame) /\ up \in Seq(Frame)
  BY TypedRest DEF AccountInv, IInv
<1>l. /\ Link("ws.client") = down /\ Link("ws.client")' = down' /\ "ws.client" \in Kinds
      /\ Link("ws.server") = up /\ Link("ws.server")' = up' /\ "ws.server" \in Kinds
      /\ Other("ws.client") = "ws.server" /\ Other("ws.server") = "ws.client"
  BY DEF Link, Kinds, Other
<1>1. CASE ServerReceivesCredit
  <2>1. /\ Heads("credit", up) /\ Granted("ws.client", Head(up).bytes) /\ up' = Tail(up)
        /\ UNCHANGED <<said, chain, srv, cli, in, held, down>> /\ up # <<>>
    BY <1>1 DEF ServerReceivesCredit, stream, receiver, Heads
  <2>2. \A x \in Kinds : WindowInv(x)' /\ AllowedInv(x)'
    BY <1>l, <2>1, GrantAccount
  <2>3. BeginInv'
    BY <1>0, <2>1 DEF BeginInv
  <2> QED
    BY <2>2, <2>3 DEF AccountInv
<1>2. CASE ClientReceivesCredit
  <2>1. /\ Heads("credit", down) /\ Granted("ws.server", Head(down).bytes) /\ down' = Tail(down)
        /\ UNCHANGED <<said, chain, srv, cli, in, held, up>> /\ down # <<>>
    BY <1>2 DEF ClientReceivesCredit, endpoints, stream, receiver, Heads
  <2>2. \A x \in Kinds : WindowInv(x)' /\ AllowedInv(x)'
    BY <1>l, <2>1, GrantAccount
  <2>3. Has(down', "credit") => Has(down, "credit")
    BY <1>0, <2>1, Leaves
  <2>4. BeginInv'
    BY <1>0, <2>1, <2>3 DEF BeginInv
  <2> QED
    BY <2>2, <2>4 DEF AccountInv
<1> QED
  BY <1>1, <1>2

\* An end fails the connection.
EndFails == /\ fault' = "lastSeq.mismatch" /\ said' = said
            /\ \/ up # <<>> /\ up' = Tail(up) /\ down' = down
               \/ down # <<>> /\ down' = Tail(down) /\ up' = up

\* Every step keeps the account, and only an end can fail the connection.
LEMMA AccountStep ==
    ASSUME IInv, AccountInv, Next
    PROVE  AccountInv' /\ (fault' = fault \/ EndFails)
<1>0. TypeInv' /\ Onward
  BY TypeStep, OnwardStep
<1>1. CASE \/ SendRequestEnd \/ PublicClosed \/ ServerReceivesStart \/ ServerReceivesEnd
           \/ ServerReceivesAbort \/ PublicLeaves \/ PublicBreaks \/ Timeouts
  <2>1. AccountInv'
    BY <1>0, <1>1, QuietServer, QuietKeeps
  <2>2. fault' = fault \/ EndFails
    BY <1>1
    DEF SendRequestEnd, PublicClosed, ServerReceivesStart, ServerReceivesEnd, Fail,
        ServerReceivesAbort, PublicLeaves, PublicBreaks, Timeouts, StartTimeout,
        PendingTimeout, Hibernate, OtherEvent, EndFails, endpoints, Heads
  <2> QED
    BY <2>1, <2>2
<1>2. CASE \/ SendResponseStart \/ SendResponseEnd \/ ClientReceivesEnd \/ ClientReceivesAbort
           \/ LocalAccepts \/ LocalRefuses \/ LocalCloses
  <2>1. AccountInv'
    BY <1>0, <1>2, QuietClient, QuietKeeps
  <2>2. fault' = fault \/ EndFails
    BY <1>2
    DEF SendResponseStart, SendResponseEnd, ClientReceivesEnd, Fail, ClientReceivesAbort,
        LocalAccepts, LocalRefuses, LocalCloses, EndFails, endpoints, Heads
  <2> QED
    BY <2>1, <2>2
<1>3. CASE ServerIgnores \/ ClientIgnores
  <2>1. AccountInv'
    BY <1>0, <1>3, QuietIgnores, QuietKeeps
  <2>2. fault' = fault
    BY <1>3 DEF ServerIgnores, ClientIgnores
  <2> QED
    BY <2>1, <2>2
<1>4. CASE Sends("ws.client") \/ Sends("ws.server")
  <2>1. PICK k \in Kinds : AskCredit(k) \/ SendData(k)
    BY <1>4, TwoKinds DEF Sends
  <2>2. AccountInv'
    BY <1>0, <2>1, AskAccount, SendAccount
  <2>3. fault' = fault
    BY <2>1 DEF AskCredit, SendData
  <2> QED
    BY <2>2, <2>3
<1>5. CASE ServerReceivesData \/ ClientReceivesData
  <2>1. AccountInv' /\ fault' = fault
    BY <1>0, <1>5, ServerTakesAccount, ClientTakesAccount
  <2> QED
    BY <2>1
<1>6. CASE ServerReceivesCredit \/ ClientReceivesCredit
  <2>1. AccountInv'
    BY <1>0, <1>6, CreditAccount
  <2>2. fault' = fault
    BY <1>6 DEF ServerReceivesCredit, ClientReceivesCredit
  <2> QED
    BY <2>1, <2>2
<1>7. CASE PublicConnects \/ ClientReceivesRequest
  <2>1. AccountInv'
    BY <1>0, <1>7, ConnectAccount, RequestAccount
  <2>2. fault' = fault
    BY <1>7 DEF PublicConnects, ClientReceivesRequest
  <2> QED
    BY <2>1, <2>2
<1>8. CASE \E bytes \in Sizes["ws.client"] : PublicSends(bytes)
  <2>1. PICK bytes \in Sizes["ws.client"] : PublicSends(bytes)
    BY <1>8
  <2>2. bytes \in Nat
    BY <2>1, TwoKinds, SizesAssumption
  <2>3. /\ Speaks("ws.client", bytes) /\ (chain' = chain \/ Enqueue("ws.client"))
        /\ UNCHANGED <<srv, cli, stage, out, in, held, up, down>> /\ fault' = fault
    BY <2>1 DEF PublicSends, stream, receiver
  <2>4. AccountInv'
    BY <1>0, <2>2, <2>3, TwoKinds, SpeakAccount
  <2> QED
    BY <2>3, <2>4
<1>9. CASE \E bytes \in Sizes["ws.server"] : LocalSends(bytes)
  <2>1. PICK bytes \in Sizes["ws.server"] : LocalSends(bytes)
    BY <1>9
  <2>2. bytes \in Nat
    BY <2>1, TwoKinds, SizesAssumption
  <2>3. /\ Speaks("ws.server", bytes) /\ (chain' = chain \/ Enqueue("ws.server"))
        /\ UNCHANGED <<srv, cli, stage, out, in, held, up, down>> /\ fault' = fault
    BY <2>1 DEF LocalSends, stream, receiver
  <2>4. AccountInv'
    BY <1>0, <2>2, <2>3, TwoKinds, SpeakAccount
  <2> QED
    BY <2>3, <2>4
<1> QED
  BY <1>1, <1>2, <1>3, <1>4, <1>5, <1>6, <1>7, <1>8, <1>9
  DEF Next, ServerSteps, ClientSteps, Endpoints

\* The accounts are right initially.
LEMMA AccountStart == Init => AccountInv
<1> SUFFICES ASSUME Init PROVE AccountInv
  OBVIOUS
<1>1. BeginInv
  BY DEF Init, BeginInv, Has
<1>2. ASSUME NEW k \in Kinds PROVE WindowInv(k) /\ AllowedInv(k)
  <2>1. /\ Link(k) = <<>> /\ Link(Other(k)) = <<>> /\ held = <<>> /\ said[k] = <<>>
        /\ stage[k] = "idle" /\ ~CanSend(k) /\ ~Knows(k)
    BY <1>2 DEF Init, Link, CanSend, Knows, Other, Kinds
  <2>2. <<>> \in Seq(Nat) /\ <<>> \in Seq(Frame)
    OBVIOUS
  <2>3. DataOf(k) = 0
    <3>1. PICK s, link : s = said[k] /\ link = Link(k)
      OBVIOUS
    <3>2. /\ s \in Seq(Nat) /\ link \in Seq(Frame) /\ Range(link) = {}
          /\ Spoken(s, link) /\ DataOf(k) = DataBytes(s, link)
      BY <2>1, <2>2, <3>1 DEF Range, Spoken, DataOf
    <3>3. Weigh(link, Carried(s)) = 0
      <4>1. Carried(s) \in [Frame -> Nat]
        BY <3>2, FrameWeights
      <4> QED
        BY <3>2, <4>1, Weightless
    <3> QED
      BY <3>2, <3>3, LinkWeighs
  <2>4. Held(k) = 0
    <3>1. PICK s : s = said[k]
      OBVIOUS
    <3>2. s \in Seq(Nat) /\ held \in Seq(Nat) /\ (\A i \in DOMAIN held : held[i] \in 1..Len(s))
      BY <2>1, <2>2, <3>1
    <3>3. HeldBytes(s, held) = 0
      BY <2>1, <3>2, HeldWeighs
    <3> QED
      BY <3>1, <3>3 DEF Held, HeldBytes
  <2>5. Total(k) = 0
    BY <2>1, <2>3, <2>4 DEF Total, Owed, Pending
  <2> QED
    BY <2>1, <2>5, LimitsAssumption DEF WindowInv, AllowedInv
<1> QED
  BY <1>1, <1>2 DEF AccountInv

\* Every message that travels was said, also when an end has failed the connection.
AllSpoken == \A k \in Kinds : Spoken(said[k], Link(k))

AccountsKept == Inv /\ AccountInv /\ OnlyCloseFaults /\ AllSpoken

\* Every data frame under way carries a message that was said.
LEMMA SpokenHolds == IInv /\ BeginInv => AllSpoken
<1> SUFFICES ASSUME IInv, BeginInv, NEW k \in Kinds PROVE Spoken(said[k], Link(k))
  BY DEF AllSpoken
<1> QED
  BY Quantities

\* So it does after a step that goes on or fails at an end.
LEMMA SpokenStep ==
    ASSUME IInv, AccountInv, Inv', AccountInv', fault' = fault \/ EndFails, fault = "none"
    PROVE  AllSpoken'
<1>1. ASSUME fault' = fault PROVE AllSpoken'
  <2>1. IInv' /\ BeginInv'
    BY <1>1 DEF Inv, IInv, AccountInv
  <2>2. (IInv /\ BeginInv => AllSpoken)'
    BY SpokenHolds, PTL
  <2> QED
    BY <2>1, <2>2
<1>2. ASSUME EndFails, NEW k \in Kinds PROVE Spoken(said[k], Link(k))'
  <2>1. said[k] \in Seq(Nat) /\ Link(k) \in Seq(Frame) /\ Spoken(said[k], Link(k))
    BY Quantities DEF AccountInv
  <2>2. Link(k)' = Link(k) \/ (Link(k) # <<>> /\ Link(k)' = Tail(Link(k)))
    BY <1>2 DEF EndFails, Link
  <2>3. Spoken(said[k], Link(k)')
    BY <2>1, <2>2, LinkLoses
  <2> QED
    BY <1>2, <2>3 DEF EndFails
<1> QED
  BY <1>1, <1>2 DEF AllSpoken

\* The accounts are right in every behaviour of the specification.
LEMMA AlwaysAccounts == Spec => []AccountsKept
<1>1. Init => AccountsKept
  <2>1. Init => OnlyCloseFaults /\ AllSpoken
    BY DEF Init, OnlyCloseFaults, AllSpoken, Spoken, Link
  <2> QED
    BY <2>1, Initially, AccountStart DEF AccountsKept
<1>2. AccountsKept /\ [Next]_vars => AccountsKept'
  <2>1. ASSUME AccountsKept, Next PROVE AccountsKept'
    <3>1. IInv /\ fault = "none"
      BY <2>1 DEF AccountsKept, Next, Inv, IInv
    <3>2. Inv' /\ AccountInv' /\ (fault' = fault \/ EndFails)
      BY <2>1, <3>1, Inductive, AccountStep DEF AccountsKept
    <3>3. AllSpoken'
      BY <2>1, <3>1, <3>2, SpokenStep DEF AccountsKept
    <3>4. OnlyCloseFaults'
      BY <3>1, <3>2 DEF OnlyCloseFaults, EndFails
    <3> QED
      BY <3>2, <3>3, <3>4 DEF AccountsKept
  <2>2. ASSUME AccountsKept, UNCHANGED vars PROVE AccountsKept'
    <3>1. UNCHANGED <<said, srv, cli, chain, stage, out, in, held, down, up, fault>>
      BY <2>2 DEF vars, endpoints, stream, sender, receiver
    <3>2. ASSUME NEW k \in Kinds
          PROVE  /\ Link(k)' = Link(k) /\ Held(k)' = Held(k) /\ DataOf(k)' = DataOf(k)
                 /\ CreditOf(k)' = CreditOf(k) /\ Pending(k)' = Pending(k)
                 /\ CanSend(k)' = CanSend(k) /\ Hears(k)' = Hears(k) /\ Knows(k)' = Knows(k)
                 /\ HasOutbound(k)' = HasOutbound(k)
      BY <3>1 DEF Link, Held, DataOf, CreditOf, Pending, CanSend, Hears, Knows, HasOutbound, Size
    <3>3. ASSUME NEW k \in Kinds PROVE WindowInv(k)' /\ AllowedInv(k)' /\ Spoken(said[k], Link(k))'
      <4>1. WindowInv(k) /\ AllowedInv(k) /\ Spoken(said[k], Link(k))
        BY <2>2 DEF AccountsKept, AccountInv, AllSpoken
      <4>2. Total(k)' = Total(k)
        BY <3>1, <3>2 DEF Total, Owed
      <4> QED
        BY <3>1, <3>2, <4>1, <4>2 DEF WindowInv, AllowedInv
    <3>4. BeginInv' /\ OnlyCloseFaults'
      BY <2>2, <3>1 DEF AccountsKept, AccountInv, BeginInv, Has, OnlyCloseFaults
    <3> QED
      BY <2>2, <3>3, <3>4, Inductive DEF AccountsKept, AccountInv, AllSpoken
  <2> QED
    BY <2>1, <2>2
<1> QED
  BY <1>1, <1>2, PTL DEF Spec

\* The credits of a WebSocket never fail the connection, on either side, whatever closes,
\* times out or hibernates: consumeInbound and checkReceiveSeq refuse no frame, and only
\* an end that does not count a message of the chain does.
THEOREM OnlyClosesFail == Spec => []OnlyCloseFaults
<1>1. AccountsKept => OnlyCloseFaults
  BY DEF AccountsKept
<1> QED
  BY <1>1, AlwaysAccounts, PTL

\* While both sides know the WebSocket, the credits that are left, the bytes that travel,
\* those that are held and the credit on its way back add up to each of its windows.
THEOREM WebSocketWindowsConserved == Spec => []StreamCreditConserved
<1>1. AccountsKept => StreamCreditConserved
  <2> SUFFICES ASSUME AccountsKept, cli \in {"opening", "starting", "open"},
                      srv \in {"connecting", "open"}
               PROVE  StreamCreditConserved
    BY DEF StreamCreditConserved
  <2> USE DEF AccountsKept
  <2>1. ASSUME NEW k \in Kinds
        PROVE  /\ (DataOf(k) + Held(k)) + (out[k] + CreditOf(k)) = StreamCredit
               /\ in[k] + Held(k) = StreamCredit
    <3>1. CanSend(k) /\ Hears(k) /\ Knows(k)
      BY DEF CanSend, Hears, Knows
    <3> QED
      BY <3>1 DEF AccountInv, WindowInv, AllowedInv, Total, Owed
  <2>2. ASSUME NEW k \in Kinds
        PROVE  DataOf(k) \in Nat /\ CreditOf(k) \in Nat /\ out[k] \in Nat /\ in[k] \in Nat
    <3>1. Other(k) \in Kinds /\ said[k] \in Seq(Nat) /\ \A x \in Kinds : Link(x) \in Seq(Frame)
      BY DEF Inv, TypeInv, TypeOK, Kinds, Other, Link
    <3>2. Spoken(said[k], Link(k))
      BY DEF AllSpoken
    <3>3. DataOf(k) \in Nat /\ CreditOf(k) \in Nat
      BY <3>1, <3>2, LinkWeighs DEF DataOf, CreditOf
    <3> QED
      BY <3>3 DEF Inv, TypeInv, TypeOK
  <2>3. Held("ws.client") = 0 /\ Held("ws.server") \in Nat
    <3>1. PICK s : s = said["ws.server"]
      OBVIOUS
    <3>2. s \in Seq(Nat) /\ held \in Seq(Nat) /\ (\A i \in DOMAIN held : held[i] \in 1..Len(s))
      BY <3>1, TwoKinds DEF Inv, TypeInv, TypeOK, AccountInv, BeginInv
    <3>3. HeldBytes(s, held) \in Nat
      BY <3>2, HeldWeighs
    <3> QED
      BY <3>1, <3>3 DEF Held, HeldBytes
  <2>4. /\ DataInFlight("ws.client", down) = DataOf("ws.client")
        /\ DataInFlight("ws.server", up) = DataOf("ws.server")
        /\ CreditInFlight(up) = CreditOf("ws.client")
        /\ CreditInFlight(down) = CreditOf("ws.server")
    BY TwoKinds, Flights DEF Link, CreditOf, Other
  <2>5. /\ out["ws.client"] + DataOf("ws.client") + CreditOf("ws.client") = StreamCredit
        /\ out["ws.server"] + DataOf("ws.server") + CreditOf("ws.server") + Held("ws.server")
              = StreamCredit
        /\ in["ws.server"] = StreamCredit - Held("ws.server")
    BY <2>1, <2>2, <2>3, TwoKinds
  <2> QED
    BY <2>4, <2>5 DEF StreamCreditConserved
<1> QED
  BY <1>1, AlwaysAccounts, PTL
=============================================================================
