----------------------------- MODULE MCExchange -----------------------------
(* Exchange on small instances.                                                *)
EXTENDS Exchange

Plain(word, bytes) == Text(word, bytes, {"token"})
Known == [both |-> {"te", "x-private"}]
Local == [tunnel |-> "localhost"]

Target == Text("/", 1, {"rooted"})
Get == [kind |-> "http", method |-> Plain("GET", 3), target |-> Target, hasBody |-> FALSE,
        headers |-> <<Header("host", Plain("tunnel", 1)),
                      Header("connection", Plain("both", 1)), Header("te", Plain("x", 1)),
                      Header("x-private", Plain("x", 1)), Header("cookie", Plain("x", 1)),
                      Header("origin", Plain("tunnel", 1)), Header("referer", Plain("other", 1)),
                      Header("accept-encoding", Plain("gzip", 1))>>]
Post == [Get EXCEPT !.hasBody = TRUE,
                    !.headers = <<Header("content-length", Plain("1", 1)),
                                  Header("upgrade", Plain("x", 1))>>]
Odd == {[Get EXCEPT !.target = Text("//", 2, {"rooted", "double-slash"})],
        [Get EXCEPT !.target = Text("/long", MaxUrl + 1, {"rooted"})],
        [Get EXCEPT !.headers = <<Header("x", Text("long", MaxValue + 1, {}))>>],
        [Get EXCEPT !.headers = [i \in 1 .. 4 |-> Header("x", Text("full", MaxValue, {}))]]}
Chat == [kind |-> "websocket", method |-> Plain("GET", 3), target |-> Target, hasBody |-> FALSE,
         headers |-> <<Header("sec-websocket-key", Plain("x", 1)),
                       Header("set-cookie", Plain("a", 1)), Header("cookie", Plain("x", 1)),
                       Header("set-cookie", Plain("b", 1))>>,
         protocols |-> <<Plain("chat", 4)>>]
Everything == {Get, Post, Chat} \cup Odd

Page == [kind |-> "http", status |-> Number(200), hasBody |-> TRUE,
         headers |-> <<Header("set-cookie", Plain("a", 1)), Header("x", Plain("x", 1)),
                       Header("set-cookie", Plain("b", 1)), Header("connection", Plain("both", 1)),
                       Header("x-private", Plain("x", 1)), Header("content-encoding", Plain("gzip", 1))>>]
Accept(protocol) == [kind |-> "websocket", protocol |-> protocol]
AllAnswers ==
    {Page, [Page EXCEPT !.status = Number(304), !.hasBody = FALSE],
     [Page EXCEPT !.status = Number(204)], [Page EXCEPT !.status = Number(999)],
     [Page EXCEPT !.headers = <<Header("x", Text("long", MaxValue + 1, {}))>>],
     [Page EXCEPT !.headers = [i \in 1 .. 4 |-> Header("x", Text("full", MaxValue, {}))]],
     Accept(Undefined), Accept(Plain("chat", 4)), Accept(Plain("other", 5)),
     Accept(Text("not a token", 11, {}))}

Reason(bytes) == Text("reason", bytes, {"line-break"})
Close(code, bytes) == [code |-> Number(code), reason |-> Reason(bytes)]
AllCloses == {Close(1000, 0), Close(1005, 0), Close(1006, 1), Close(4999, MaxReason + 1)}

\* A channel credit as another version writes it, or with something amiss.
Good == Frame("channel_credit", [bytes |-> Number(1)])
Changed(at, byte) == [Good EXCEPT !.bytes = [@ EXCEPT ![at] = byte]]
AllStrays == {Good, Changed(3, 3), Changed(1, 0), Changed(4, 50), Changed(5, 1), Changed(7, 1),
              Changed(HeaderBytes, 1), [Good EXCEPT !.payload.json = [bytes |-> Number(0)]],
              Frame("stream_credit", [kind |-> Text("ws.client", 1, {}), bytes |-> Number(1)]),
              [Good EXCEPT !.bytes = SubSeq(@, 1, 4)]}

ShortTroubles == {Reason(1)}
LongTroubles == {Reason(MaxReason + 1)}
==============================================================================
