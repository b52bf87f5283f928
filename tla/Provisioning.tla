---------------------------- MODULE Provisioning ----------------------------
(* How a client gets a tunnel. `hostc <port>` reads the config                   *)
(* (src/apps/cli/src/config.ts), which runs of `hostc config set` may be writing, *)
(* asks the Worker for a tunnel (src/packages/client/src/tunnel-api.ts), dials    *)
(* its data channels with the token it was given, and starts over when that      *)
(* fails. On the other side the Worker makes ids and tokens                      *)
(* (src/apps/server/src/index.ts), and the object of the tunnel                  *)
(* (durable/tunnel.ts) waits for its channels until the alarm.                   *)
(*                                                                               *)
(* Time goes in units of 15 s, and every timer is what is left of it. Messages   *)
(* take any time: an answer may come when nobody waits for it any more.          *)
EXTENDS Worker

CONSTANTS
    Pool,       \* tunnel ids as the Worker makes them, one for an attempt (bound)
    Editors,    \* runs of `hostc config set` and `hostc config unset`
    Stored,     \* dataChannels in the config file when everything starts
    Edits,      \* what the editors make of it: a number, Unset, or Keep for another key
    Flags,      \* the option --data-channels, or Unset
    SeenAs,     \* server -> hosts under which the Worker sees its requests
    Versions,   \* protocol versions that servers speak
    Unset, Keep, Torn

\* createTunnelId: t- and ten letters or digits.
ASSUME PoolAssumption == /\ Pool \in Seq(STRING \ {"api", "www"})
                         /\ Len(Pool) >= 1 /\ IsInjective(Pool)
\* A server is where a Worker has the API, and only a local one (wrangler with routes)
\* takes its host for another.
ASSUME ServersAssumption == \A server \in DOMAIN SeenAs :
    /\ SeenAs[server] # {} /\ \A seen \in SeenAs[server] : ClassifyHost(seen).kind = "app"
    /\ ~IsLocalName(server) => SeenAs[server] = {server}
ASSUME ConfigAssumption == Torn \notin Stored \cup Edits

VARIABLES
    file,     \* the config file: its dataChannels, Unset without, Torn if half written
    draft,    \* the temporary files
    editor,   \* [phase, value]
    client,   \* [phase, server, asked, attempt, tunnel, left, again, stopped]
    open,     \* data channels of the attempt that are open
    posted,   \* create requests on their way
    answered, \* and their answers
    dialled,  \* channel connects on their way
    replies,  \* and their answers
    object,   \* what the objects of the tunnels store
    alarm,    \* what is left until their alarms, or -1
    ttl       \* what is left of the connect tokens

config == <<file, draft, editor>>
wire == <<posted, answered, dialled, replies>>
tunnels == <<object, alarm, ttl>>
vars == <<config, client, open, wire, tunnels>>

Attempts == DOMAIN Pool
\* 15 s for createEphemeralTunnel and for openWebSocket, 60 s for a token, and 120 s
\* until the alarm.
CreateTimeout == 1
ConnectTimeout == 1
\* Mutant: a token of 15 s.
ShortTtl == 1
TokenTtl == 4
AlarmTime == 8

NoConn == <<>>
Conn(i) == <<"c", Pool[i]>>
Nowhere == [conn |-> NoConn, expected |-> 0, up |-> {}, lost |-> FALSE]
All(channels) == 0 .. channels - 1

Init == /\ file \in Stored
        /\ draft = [e \in Editors |-> Unset]
        /\ editor = [e \in Editors |-> [phase |-> "idle", value |-> Unset]]
        /\ client = [phase |-> "idle", server |-> NoHost, asked |-> 0, attempt |-> 0,
                     tunnel |-> NoHost, left |-> 0, again |-> FALSE, stopped |-> FALSE]
        /\ open = {} /\ posted = {} /\ answered = {} /\ dialled = {} /\ replies = {}
        /\ object = [i \in Attempts |-> Nowhere]
        /\ alarm = [i \in Attempts |-> -1] /\ ttl = [i \in Attempts |-> -1]

-----------------------------------------------------------------------------
(* The config file.                                                            *)

\* readConfig throws for a file that is not whole JSON, or that a validator refuses.
Sane(value) == value = Unset \/ (value # Torn /\ IsChannelCount(value))
Editing(e, from, to) == /\ editor[e].phase = from
                        /\ editor' = [editor EXCEPT ![e].phase = to]
                        /\ UNCHANGED <<client, open, wire, tunnels>>

\* setConfigValue, unsetConfigValue: the other keys stay as they were read.
EditorReads(e, edit) ==
    LET value == IF edit = Keep THEN file ELSE edit
    IN /\ editor[e].phase = "idle"
       /\ editor' = [editor EXCEPT ![e] = IF Sane(file) /\ Sane(value)
                                          THEN [phase |-> "reading", value |-> value]
                                          ELSE [phase |-> "over", value |-> Unset]]
       /\ UNCHANGED <<file, draft, client, open, wire, tunnels>>

\* Mutant: all write into one temporary file.
OneDraft(e) == CHOOSE other \in Editors : TRUE
\* The name has the process id and the time in it.
DraftOf(e) == e

\* writeConfig: open, write, rename.
EditorOpens(e) == /\ Editing(e, "reading", "writing")
                  /\ draft' = [draft EXCEPT ![DraftOf(e)] = Torn] /\ UNCHANGED file
EditorWrites(e) == /\ Editing(e, "writing", "renaming")
                   /\ draft' = [draft EXCEPT ![DraftOf(e)] = editor[e].value] /\ UNCHANGED file
EditorRenames(e) == /\ Editing(e, "renaming", "over")
                    /\ file' = draft[DraftOf(e)]
                    /\ draft' = [draft EXCEPT ![DraftOf(e)] = Unset]
EditorDies(e) == \E phase \in {"reading", "writing", "renaming"} :
                     Editing(e, phase, "over") /\ UNCHANGED <<file, draft>>

-----------------------------------------------------------------------------
(* The client.                                                                 *)

At(phase) == client.phase = phase
Goes(phase) == client' = [client EXCEPT !.phase = phase]

\* resolveConfig, once, when `hostc <port>` starts. The number is validated wherever it
\* comes from.
Asked(flag) == IF flag # Unset THEN flag ELSE IF file # Unset THEN file ELSE DefaultChannels
Resolves(server, flag) ==
    /\ At("idle")
    /\ client' = IF Sane(file) /\ IsChannelCount(Asked(flag))
                 THEN [client EXCEPT !.phase = "waiting", !.server = server, !.asked = Asked(flag)]
                 ELSE [client EXCEPT !.phase = "over"]
    /\ UNCHANGED <<config, open, wire, tunnels>>

\* createEphemeralTunnel, with the next id the Worker is going to make.
Posts(seen) ==
    /\ At("waiting") /\ client.attempt < Len(Pool) /\ seen \in SeenAs[client.server]
    /\ client' = [client EXCEPT !.phase = "creating", !.attempt = @ + 1, !.left = CreateTimeout]
    /\ posted' = posted \cup {[attempt |-> client'.attempt, asked |-> client.asked, seen |-> seen]}
    /\ UNCHANGED <<config, open, answered, dialled, replies, tunnels>>

\* An attempt that fails ends start() before the first ready, and what it opened is closed.
Fails == /\ open' = {}
         /\ client' = [client EXCEPT !.phase = IF client.again /\ ~client.stopped
                                               THEN "waiting" ELSE "over"]

IsLocalServer(host) == IsLocalName(host)
\* rewriteLocalDataUrl: what a local server takes for its host may lead elsewhere.
Dialled(url) == IF IsLocalServer(client.server) THEN [url EXCEPT !.host = client.server] ELSE url

\* parseCreateEphemeralTunnelResponse, then connect dials all channels at once.
CreateAnswered(m) ==
    LET tunnel == m.response
        url == Dialled(tunnel.dataUrl)
    IN /\ m \in answered /\ answered' = answered \ {m}
       /\ At("creating") /\ m.attempt = client.attempt
       /\ IF IsCreateResponse(tunnel)
          THEN /\ client' = [client EXCEPT !.phase = "connecting", !.tunnel = tunnel,
                                           !.left = ConnectTimeout]
               /\ dialled' = dialled \cup {[attempt |-> m.attempt, channel |-> c,
                                            url |-> ChannelUrl(url, c)] : c \in All(tunnel.channels)}
               /\ UNCHANGED open
          ELSE Fails /\ UNCHANGED dialled
       /\ UNCHANGED <<config, posted, replies, tunnels>>

\* openWebSocket of one channel resolves or rejects; with the last one the client is
\* ready, unless it was stopped meanwhile.
ChannelOpens(channel) ==
    /\ open' = open \cup {channel}
    /\ IF open' = All(client.tunnel.channels)
       THEN client' = [client EXCEPT !.phase = "ready", !.again = TRUE]
       ELSE UNCHANGED client
ConnectAnswered(r) ==
    /\ r \in replies /\ replies' = replies \ {r}
    /\ At("connecting") /\ r.attempt = client.attempt
    /\ IF r.ok /\ ~(client.stopped /\ open \cup {r.channel} = All(client.tunnel.channels))
       THEN ChannelOpens(r.channel) ELSE Fails
    /\ UNCHANGED <<config, posted, answered, dialled, tunnels>>

\* A timeout of fetch or of a connect.
TimesOut == /\ client.phase \in {"creating", "connecting"} /\ client.left = 0 /\ Fails
            /\ UNCHANGED <<config, wire, tunnels>>
\* An error of the network, a socket that closes, forceReconnect.
Breaks == /\ client.phase \in {"creating", "connecting", "ready"} /\ Fails
          /\ UNCHANGED <<config, wire, tunnels>>
\* The sleep before another attempt; the first one has none.
BacksOff == At("waiting") /\ client.again
\* stop: a back-off or a create that is under way goes on, and so does what comes after
\* it, the connect included.
Stops == /\ client.phase # "over" /\ ~client.stopped
         /\ IF At("creating") \/ BacksOff
            THEN client' = [client EXCEPT !.stopped = TRUE] /\ UNCHANGED open
            ELSE Goes("over") /\ open' = {}
         /\ UNCHANGED <<config, wire, tunnels>>

-----------------------------------------------------------------------------
(* The Worker and the objects.                                                 *)

Alive(i) == object[i].conn # NoConn
Ready(i) == Alive(i) /\ object[i].up = All(object[i].expected)

\* Mutant: initialising an object sets no alarm.
NoAlarm(i) == alarm
AlarmSet(i) == [alarm EXCEPT ![i] = AlarmTime]

\* createTunnel, and handleInit of the object.
WorkerCreates(m, version) ==
    LET channels == AskedChannels(m.asked)
    IN /\ m \in posted /\ posted' = posted \ {m}
       /\ object' = [object EXCEPT ![m.attempt] = [Nowhere EXCEPT !.conn = Conn(m.attempt),
                                                                  !.expected = channels]]
       /\ alarm' = AlarmSet(m.attempt) /\ ttl' = [ttl EXCEPT ![m.attempt] = TokenTtl]
       /\ answered' = answered \cup
              {[attempt |-> m.attempt,
                response |-> CreateResponse(m.seen, Pool[m.attempt], Conn(m.attempt),
                                            channels, version)]}
       /\ UNCHANGED <<config, client, open, dialled, replies>>

\* handleChannelConnect
Takes(i, route) == /\ route.kind = "channel" /\ Alive(i) /\ route.conn.word = object[i].conn
                   /\ route.channel \in All(object[i].expected)
\* connectChannel; the token is up to one unit older than the clock says. A connect to
\* another host does not come here.
WorkerConnects(m, seen, lag) ==
    LET i == m.attempt
        route == ConnectRoute([m.url EXCEPT !.host = seen], Label(Conn(i)),
                              Token(Pool[i], Conn(i)), ttl[i] - lag)
        ok == m.url.host = client.server /\ Takes(i, route)
    IN /\ m \in dialled /\ dialled' = dialled \ {m}
       /\ replies' = replies \cup {[attempt |-> i, channel |-> m.channel, ok |-> ok]}
       /\ object' = IF ok THEN [object EXCEPT ![i].up = @ \cup {m.channel}] ELSE object
       /\ alarm' = IF ok /\ object'[i].up = All(object[i].expected)
                   THEN [alarm EXCEPT ![i] = -1] ELSE alarm
       /\ UNCHANGED <<config, client, open, posted, answered, ttl>>

\* failClientConnection
Dropped(i, lost) == /\ object' = [object EXCEPT ![i] = [Nowhere EXCEPT !.lost = lost]]
                    /\ alarm' = [alarm EXCEPT ![i] = -1]
                    /\ UNCHANGED <<config, client, open, wire, ttl>>
\* A data channel closed, on whichever side.
ObjectFails(i) == Alive(i) /\ object[i].up # {} /\ Dropped(i, TRUE)
\* alarm, on time or late.
AlarmRings(i) == /\ alarm[i] = 0 /\ Alive(i) /\ ~Ready(i) /\ Dropped(i, FALSE)

\* Time passes, but no timeout of the client is overdue.
Less(t) == IF t < 0 THEN t ELSE t - 1
Tick == /\ client.phase \in {"creating", "connecting"} => client.left > 0
        /\ client' = IF client.left > 0 THEN [client EXCEPT !.left = @ - 1] ELSE client
        /\ alarm' = [i \in Attempts |-> IF alarm[i] > 0 THEN alarm[i] - 1 ELSE alarm[i]]
        /\ ttl' = [i \in Attempts |-> Less(ttl[i])]
        /\ UNCHANGED <<config, open, wire, object>>

Connects == \E m \in dialled : \E seen \in SeenAs[client.server], lag \in {0, 1} :
                WorkerConnects(m, seen, lag)
Edit == \E e \in Editors :
            \/ \E edit \in Edits : EditorReads(e, edit)
            \/ EditorOpens(e) \/ EditorWrites(e) \/ EditorRenames(e) \/ EditorDies(e)
Next == \/ Edit
        \/ \E server \in DOMAIN SeenAs, flag \in Flags : Resolves(server, flag)
        \/ \E server \in DOMAIN SeenAs : \E seen \in SeenAs[server] : Posts(seen)
        \/ \E m \in answered : CreateAnswered(m)
        \/ \E r \in replies : ConnectAnswered(r)
        \/ TimesOut \/ Breaks \/ Stops
        \/ \E m \in posted : \E version \in Versions : WorkerCreates(m, version)
        \/ Connects
        \/ \E i \in Attempts : ObjectFails(i) \/ AlarmRings(i)
        \/ Tick

\* Timers run out, and the sockets a client left are closed for the object too.
Left(i) == ~(client.attempt = i /\ client.phase \in {"connecting", "ready"})
Fairness == /\ WF_vars(Tick) /\ WF_vars(TimesOut)
            /\ \A i \in Attempts : WF_vars(AlarmRings(i)) /\ WF_vars(Left(i) /\ ObjectFails(i))
Spec == Init /\ [][Next]_vars /\ Fairness

-----------------------------------------------------------------------------
(* Properties.                                                                 *)

\* TypeOK: every variable keeps its kind of value.
TypeOK ==
    /\ file \in Stored \cup (Edits \ {Keep}) \cup {Torn}
    /\ client.attempt \in 0 .. Len(Pool) /\ client.left \in 0 .. CreateTimeout
    /\ open \subseteq All(MaxChannels)
    /\ \A i \in Attempts : alarm[i] \in -1 .. AlarmTime /\ ttl[i] \in -1 .. TokenTtl
    /\ \A i \in Attempts : object[i].up \subseteq All(object[i].expected)

\* ConfigWhole: whoever edits the config with whom, and dies at whatever point, the file
\* is never half written, and holds what it held or what some editor meant to write
\* (writeConfig writes a file of its own and renames it).
ConfigWhole == file \in Stored \cup (Edits \ {Keep}) /\ (file \notin Stored => Sane(file))

\* ConnectsAreAccepted: while the client still waits for a data channel, the Worker and
\* the object do not refuse it, neither for the token nor for the URL nor by the alarm,
\* unless another channel of the tunnel was lost (CONNECT_TOKEN_TTL_SECONDS against the
\* timeouts of tunnel-api.ts and socket.ts, and rewriteLocalDataUrl).
ConnectsAreAccepted ==
    \A r \in replies : (At("connecting") /\ r.attempt = client.attempt /\ ~r.ok)
        => object[r.attempt].lost

\* ReadyIsReachable: when the client announces its public URL, a request for that URL
\* goes to the object that has all the channels the client asked for, until the object
\* loses one (classifyHost against buildPublicUrl, AskedChannels against resolveConfig).
ReadyIsReachable ==
    At("ready") => LET i == client.attempt
                   IN /\ EffectiveRoute(client.tunnel.publicUrl.host, NoHost) = [kind |-> "tunnel", tunnel |-> Pool[i]]
                      /\ client.tunnel.channels = client.asked
                      /\ ~object[i].lost => object[i].up = All(client.asked) /\ Ready(i)

\* OrphansExpire: a tunnel that was created, for a client that gave up before the answer,
\* failed to connect, stopped or went away, does not keep its object for ever: it has a
\* client that is ready, or it is dropped.
OrphansExpire == \A i \in Attempts : Alive(i) ~> ~Alive(i) \/ (At("ready") /\ client.attempt = i)
=============================================================================
