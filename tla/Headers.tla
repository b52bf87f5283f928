------------------------------- MODULE Headers -------------------------------
(* What becomes of the headers of a request and of a response on the way through *)
(* a tunnel: the filters of src/packages/protocol/src/index.ts, which both sides *)
(* use, and the rewriting of src/packages/client/src/adapters/local-origin.ts.   *)
(* A header is a record of two texts; header names are in lower case (the code   *)
(* compares them so).                                                            *)
EXTENDS Protocol

CONSTANTS
    Tokens,     \* Tokens[word]: the names a value of the Connection header lists
    Localised   \* Localised[word]: a public origin or page, as the local server knows it

Header(name, value) == [name |-> Text(name, 1, {"token"}), value |-> value]
Named(h, names) == h.name.word \in names
\* The headers that are in a set, in the order they came.
Part(headers, keep) ==
    LET upto[k \in 0 .. Len(headers)] ==
            IF k = 0 THEN <<>>
            ELSE IF headers[k] \in keep THEN Append(upto[k - 1], headers[k]) ELSE upto[k - 1]
    IN upto[Len(headers)]
With(headers, names) == Part(headers, {h \in Range(headers) : Named(h, names)})
Without(headers, names) == Part(headers, {h \in Range(headers) : ~Named(h, names)})

HopByHop == {"connection", "keep-alive", "proxy-authenticate", "proxy-authorization",
             "te", "trailer", "transfer-encoding", "upgrade"}

\* The headers that a Connection header names go with it.
Listed(headers) ==
    UNION {Tokens[h.value.word] : h \in {x \in Range(With(headers, {"connection"})) :
                                             x.value.word \in DOMAIN Tokens}}
\* Mutant: the headers that Connection names are passed on.
FilterFixedNames(headers) == Without(headers, HopByHop)
FilterHopByHop(headers) == Without(headers, HopByHop \cup Listed(headers))

\* headersToEntries: one entry for each cookie that is set, behind the others.
Entries(headers) == Without(headers, {"set-cookie"}) \o With(headers, {"set-cookie"})

FilterRequest(headers) == Without(FilterHopByHop(headers), {"host", "content-length"})
WebSocketNames == {"sec-websocket-accept", "sec-websocket-extensions", "sec-websocket-key",
                   "sec-websocket-protocol", "sec-websocket-version"}
FilterWebSocketRequest(headers) == Without(FilterRequest(headers), WebSocketNames)
FilterResponse(headers) ==
    Without(FilterHopByHop(headers), {"content-encoding", "content-length"})

\* Origin and Referer name the local server; a value that is not the tunnel's stays.
Localise(value) == IF value.word \in DOMAIN Localised
                   THEN [value EXCEPT !.word = Localised[value.word]] ELSE value
Identity == Text("identity", 8, {})

\* rewriteLocalRequestHeaders
RewriteHeader(h) ==
    CASE Named(h, {"accept-encoding"}) -> [h EXCEPT !.value = Identity]
      [] Named(h, {"origin", "referer"}) -> [h EXCEPT !.value = Localise(@)]
      [] OTHER -> h
RewriteLocal(headers) ==
    LET rewritten == [i \in DOMAIN headers |-> RewriteHeader(headers[i])]
    IN IF With(headers, {"accept-encoding"}) # <<>> THEN rewritten
       ELSE Append(rewritten, Header("accept-encoding", Identity))

\* Object.fromEntries: a header of a name that is there already takes its place. (That
\* an object puts names that are numbers first is left out.)
SetEntry(entries, h) ==
    IF With(entries, {h.name.word}) = <<>> THEN Append(entries, h)
    ELSE [i \in DOMAIN entries |-> IF Named(entries[i], {h.name.word}) THEN h ELSE entries[i]]
FromEntries(headers) ==
    LET upto[k \in 0 .. Len(headers)] ==
            IF k = 0 THEN <<>> ELSE SetEntry(upto[k - 1], headers[k])
    IN upto[Len(headers)]

\* From the public request to the one the local server gets, in two halves: what
\* request.start carries, and what the adapter makes of it.
ForwardedHttp(headers) == FilterRequest(Entries(headers))
ForwardedWebSocket(headers) == FilterWebSocketRequest(Entries(headers))
LocalHttp(headers) == FilterRequest(RewriteLocal(headers))
LocalWebSocket(headers) == FromEntries(FilterWebSocketRequest(RewriteLocal(headers)))
=============================================================================
