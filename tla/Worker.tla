------------------------------- MODULE Worker -------------------------------
(* Where the Worker sends a request (src/apps/server/src/index.ts, router.ts),   *)
(* which tokens it takes (token.ts) and which URLs it hands out. Pure functions: *)
(* the Worker keeps nothing between requests.                                    *)
(*                                                                               *)
(* A host is the sequence of its labels, without the port and the final dot,     *)
(* which the code strips first; a path is the sequence of its parts, a part      *)
(* either a text or a number.                                                    *)
EXTENDS Protocol

CONSTANTS
    Base,          \* env.PUBLIC_BASE_DOMAIN, normalised
    AllowLocal,    \* env.ALLOW_LOCAL_TUNNEL_HEADER === "1"
    DefaultChannels, \* DEFAULT_DATA_CHANNELS
    NoHost

ASSUME ChannelsAssumption == IsChannelCount(DefaultChannels)
\* wrangler.jsonc: a domain of its own, hostc.dev or envoq.dev. All of localhost is local.
ASSUME BaseAssumption == Base \in Seq(STRING) /\ Base # <<>> /\ Last(Base) # "localhost"

Words(texts) == [i \in DOMAIN texts |-> texts[i].word]
App == [kind |-> "app"]
Unknown == [kind |-> "unknown"]
ToTunnel(label) == [kind |-> "tunnel", tunnel |-> label.word]

\* isValidTunnelId
IsTunnelId(label) == "id" \in label.looks

IsLocalApp(host) == host # <<>> /\ \/ Last(host).word = "localhost"
                                   \/ Words(host) \in {<<"127.0.0.1">>, <<"::1">>}
Under(host, base) == Len(host) > Len(base) /\ IsSuffix(base, Words(host))

\* Mutant: whatever ends in the base domain is the application.
ClassifyHostLoosely(host) ==
    IF IsLocalApp(host) \/ IsSuffix(Base, Words(host)) THEN App ELSE Unknown
\* classifyHost: one label under the base domain, in lower case, is a tunnel.
ClassifyHost(host) ==
    IF IsLocalApp(host) \/ Words(host) = Base THEN App
    ELSE IF /\ Under(host, Base) /\ Len(host) = Len(Base) + 1
            /\ "capitals" \notin host[1].looks
            /\ host[1].word \notin {"api", "www"} /\ IsTunnelId(host[1])
         THEN ToTunnel(host[1])
    ELSE Unknown

\* getEffectiveHostRoute: a local server is told by a header which tunnel is meant.
IsLocalName(host) == Words(host) \in {<<"localhost">>, <<"127.0.0.1">>, <<"::1">>}
EffectiveRoute(host, header) ==
    IF /\ AllowLocal \/ IsLocalName(host)
       /\ header # NoHost /\ ClassifyHost(header).kind = "tunnel"
    THEN ClassifyHost(header) ELSE ClassifyHost(host)

\* parseApiRoute
Route(kind) == [kind |-> kind]
ForMethod(method, wanted, route) ==
    IF method = wanted THEN route ELSE Route("method-not-allowed")
ParseChannel(method, path, conn) ==
    IF path[3].is # "text" \/ ~IsTunnelId(path[3]) THEN Route("invalid")
    ELSE IF method # "GET" THEN Route("method-not-allowed")
    ELSE IF path[5].is # "number" \/ ~IsChannelId(path[5].n, MaxChannels) THEN Route("invalid")
    ELSE IF conn # Undefined /\ "id" \notin conn.looks THEN Route("invalid")
    ELSE [kind |-> "channel", tunnel |-> path[3].word, channel |-> path[5].n, conn |-> conn]
IsChannelPath(path) ==
    /\ Len(path) = 5
    /\ OneOf(path[1], {"api"}) /\ OneOf(path[2], {"tunnels"}) /\ OneOf(path[4], {"channels"})
ParseApiRoute(method, path, conn) ==
    IF Len(path) = 1 /\ OneOf(path[1], {"health"}) THEN ForMethod(method, "GET", Route("health"))
    ELSE IF Len(path) = 3 /\ OneOf(path[1], {"api"}) /\ OneOf(path[2], {"tunnels"})
                          /\ OneOf(path[3], {"ephemeral"})
    THEN ForMethod(method, "POST", Route("create"))
    ELSE IF IsChannelPath(path) THEN ParseChannel(method, path, conn)
    ELSE Route("not-found")

\* parseCreateTunnelDataChannels: what is not a number of channels counts as nothing.
AskedChannels(asked) ==
    IF asked \in Int /\ IsChannelCount(asked) THEN asked ELSE DefaultChannels

\* buildPublicUrl and the data URL, and buildDataChannelUrl.
Label(word) == Text(word, 1, {"id"})
Part(word) == Text(word, 1, {})
PublicHost(tunnel) == <<Label(tunnel)>> \o [i \in DOMAIN Base |-> Label(Base[i])]
DataUrl(host, tunnel) ==
    [scheme |-> "wss", host |-> host,
     path |-> <<Part("api"), Part("tunnels"), Label(tunnel), Part("channels")>>]
ChannelUrl(url, channel) == [url EXCEPT !.path = Append(@, Number(channel))]

\* createTokenPayload, verifyToken, with what is left of the token's life. Its signature
\* is genuine, for nobody but the Worker makes tokens here.
Token(tunnel, conn) == [aud |-> "connect", tunnel |-> tunnel, conn |-> conn]
Verified(token, left, tunnel, conn) ==
    token.aud = "connect" /\ left >= 0 /\ token.tunnel = tunnel /\ token.conn = conn

\* createTunnel's answer, to a request for that host.
CreateResponse(host, tunnel, conn, channels, version) ==
    [kind |-> "ephemeral", version |-> version, tunnel |-> Label(tunnel),
     conn |-> Label(conn), publicUrl |-> [scheme |-> "https", host |-> PublicHost(tunnel)],
     dataUrl |-> DataUrl(host, tunnel), token |-> Token(tunnel, conn),
     channels |-> channels, limits |-> DefaultLimits]

\* connectChannel up to the Durable Object, for a request with that URL and token.
ConnectRoute(url, conn, token, left) ==
    LET route == ParseApiRoute("GET", url.path, conn) IN
    IF /\ EffectiveRoute(url.host, NoHost).kind = "app" /\ route.kind = "channel"
       /\ Verified(token, left, route.tunnel, conn.word)
    THEN route ELSE Route("refused")
=============================================================================
