---------------------------- MODULE HostcClient ----------------------------
(* The SDK's reconnect loop (src/packages/client/src/hostc-client.ts) and the    *)
(* data sockets of the client connections it makes (client-connection.ts,        *)
(* connect and close; socket.ts, openWebSocket).                                 *)
(*                                                                               *)
(* start() is one coroutine, cut where it waits: for the back-off, for the       *)
(* tunnel API, for the data channels, for the loss of the connection. stop,      *)
(* forceReconnect and the events of the sockets come in between.                 *)
EXTENDS Integers, FiniteSets

CONSTANTS
    Conns,          \* bound: client connections that exist at the same time
    NoConn,         \* null
    Channels        \* data channels of a connection

ASSUME NoConnAssumption == NoConn \notin Conns
ASSUME ChannelsAssumption == IsFiniteSet(Channels) /\ Channels # {}

VARIABLES
    listening, \* whether the embedder listens to "error" events
    loop,      \* where start() is
    mine,      \* its local variable connection
    current,   \* this.connection
    closed,    \* stop() was called
    state,     \* the public state
    hasReady,  \* hasReadyConnection
    retried,   \* reconnectAttempt > 0
    channel,   \* per connection and channel: how far connect() is
    dead,      \* connections whose close() ran
    open       \* data sockets that are open, as <<connection, channel>>

vars == <<listening, loop, mine, current, closed, state, hasReady, retried, channel, dead, open>>
start == <<listening, loop, mine, hasReady, retried>>

Place == {"idle", "sleeping", "creating", "connecting", "connected", "returned", "rejected"}
State == {"idle", "creatingTunnel", "connecting", "ready", "reconnecting", "closed"}
Progress == {"none", "opening", "registered", "refused"}

Pairs(c) == {c} \X Channels
Settled(c) == \A ch \in Channels : channel[c][ch] # "opening"

\* Connections nothing refers to any more may be taken for new ones.
Unused(c) == c # mine /\ Settled(c)

\* Listeners are registered before start(): the CLI has none for "error".
Init == /\ listening \in BOOLEAN
        /\ loop = "idle" /\ mine = NoConn /\ current = NoConn
        /\ closed = FALSE /\ state = "idle"
        /\ hasReady = FALSE /\ retried = FALSE
        /\ channel = [c \in Conns |-> [ch \in Channels |-> "none"]]
        /\ dead = Conns /\ open = {}

-----------------------------------------------------------------------------
(* ClientConnection.                                                          *)

\* Mutant: a connection that is closed keeps its sockets.
SocketsLeft(c) == {}

\* What closeSockets closes: the sockets connect() has registered.
SocketsClosed(c) == Pairs(c)

\* ClientConnection.close: also resolves waitForDisconnect.
Close(c) == /\ dead' = dead \cup ({c} \ {NoConn})
            /\ open' = open \ SocketsClosed(c)

\* Mutant: connect() does not look whether it was closed meanwhile.
NeverTooLate(c) == FALSE

TooLate(c) == c \in dead

\* openWebSocket resolves; a connection closed meanwhile closes the socket again.
Opened(c, ch) ==
    /\ channel[c][ch] = "opening"
    /\ IF TooLate(c)
       THEN /\ channel' = [channel EXCEPT ![c][ch] = "refused"]
            /\ UNCHANGED open
       ELSE /\ channel' = [channel EXCEPT ![c][ch] = "registered"]
            /\ open' = open \cup {<<c, ch>>}
    /\ UNCHANGED <<start, current, closed, state, dead>>

\* openWebSocket rejects: an error, a close before open, the connect timeout.
Refused(c, ch) ==
    /\ channel[c][ch] = "opening"
    /\ channel' = [channel EXCEPT ![c][ch] = "refused"]
    /\ UNCHANGED <<start, current, closed, state, dead, open>>

\* close or error of a registered socket, or a frame it cannot accept:
\* failConnection.
SocketLost(c, ch) ==
    /\ <<c, ch>> \in open
    /\ Close(c)
    /\ UNCHANGED <<start, current, closed, state, channel>>

-----------------------------------------------------------------------------
(* start().                                                                   *)

\* The head of the loop, with the values of its variables when it gets there.
Iterate(ready, again) ==
    /\ mine' = NoConn /\ hasReady' = ready /\ retried' = again
    /\ UNCHANGED listening
    /\ IF closed THEN loop' = "returned" /\ UNCHANGED state
       ELSE IF ready \/ again THEN loop' = "sleeping" /\ state' = "reconnecting"
       ELSE loop' = "creating" /\ state' = "creatingTunnel"

\* The finally block.
Finally == IF mine # NoConn /\ current = mine
           THEN Close(mine) /\ current' = NoConn
           ELSE UNCHANGED <<dead, open, current>>

\* Mutant: any failure ends the loop.
AnyAttempt == TRUE

FirstAttempt == ~hasReady /\ ~retried

\* The catch block: an "error" event nobody listens to throws.
Caught ==
    /\ Finally
    /\ IF FirstAttempt \/ (~closed /\ ~listening)
       THEN /\ loop' = "rejected"
            /\ UNCHANGED <<listening, mine, hasReady, retried, state>>
       ELSE Iterate(hasReady, retried \/ ~closed)

Start ==
    /\ loop = "idle"
    /\ Iterate(FALSE, FALSE)
    /\ UNCHANGED <<current, closed, channel, dead, open>>

\* The back-off is over; closed is not looked at.
Awake ==
    /\ loop = "sleeping"
    /\ loop' = "creating"
    /\ UNCHANGED <<listening, mine, hasReady, retried, current, closed, state, channel,
                   dead, open>>

\* createEphemeralTunnel resolves: a new connection starts to open its channels.
Created(c) ==
    /\ loop = "creating" /\ Unused(c)
    /\ loop' = "connecting"
    /\ mine' = c /\ current' = c
    /\ state' = "connecting"
    /\ dead' = dead \ {c}
    /\ channel' = [channel EXCEPT ![c] = [ch \in Channels |-> "opening"]]
    /\ UNCHANGED <<listening, hasReady, retried, closed, open>>

CreateFails ==
    /\ loop = "creating"
    /\ Caught
    /\ UNCHANGED <<closed, channel>>

\* Mutant: connect() resolves with its first channel.
AnyRegistered(c) == \E ch \in Channels : channel[c][ch] = "registered"

AllRegistered(c) == \A ch \in Channels : channel[c][ch] = "registered"

\* connect() resolves.
Connected ==
    /\ loop = "connecting" /\ AllRegistered(mine)
    /\ IF closed \/ current # mine
       THEN /\ Close(mine)
            /\ current' = IF current = mine THEN NoConn ELSE current
            /\ Iterate(hasReady, retried)
       ELSE /\ loop' = "connected" /\ state' = "ready"
            /\ hasReady' = TRUE /\ retried' = FALSE
            /\ UNCHANGED <<listening, mine, current, dead, open>>
    /\ UNCHANGED <<closed, channel>>

\* connect() rejects with the first channel that does.
ConnectFails ==
    /\ loop = "connecting"
    /\ \E ch \in Channels : channel[mine][ch] = "refused"
    /\ Caught
    /\ UNCHANGED <<closed, channel>>

\* Mutant: only a forced reconnect ends the wait.
Replaced == current # mine

Lost == mine \in dead

\* waitForDisconnect resolves.
Disconnected ==
    /\ loop = "connected" /\ Lost
    /\ Finally
    /\ Iterate(hasReady, retried \/ ~closed)
    /\ UNCHANGED <<closed, channel>>

-----------------------------------------------------------------------------
(* The embedder.                                                              *)

\* Mutant: stop leaves the connection to the loop.
StopLater == UNCHANGED <<dead, open>>

StopCloses == Close(current)

Stop ==
    /\ ~closed
    /\ closed' = TRUE
    /\ StopCloses
    /\ current' = NoConn
    /\ state' = "closed"
    /\ UNCHANGED <<start, channel>>

ForceReconnect ==
    /\ ~closed /\ current # NoConn
    /\ Close(current)
    /\ UNCHANGED <<start, current, closed, state, channel>>

-----------------------------------------------------------------------------
Sockets == \E c \in Conns, ch \in Channels : Opened(c, ch) \/ Refused(c, ch)
Loop == \/ Awake \/ (\E c \in Conns : Created(c)) \/ CreateFails
        \/ Connected \/ ConnectFails \/ Disconnected

Next == \/ Start \/ Loop \/ Stop \/ ForceReconnect \/ Sockets
        \/ \E c \in Conns, ch \in Channels : SocketLost(c, ch)

Spec == Init /\ [][Next]_vars

\* Requests to the tunnel API and the opening of sockets have timeouts, sleeps end:
\* the loop goes on. Success is not assumed, nor is any call of the embedder.
FairSpec == Spec /\ WF_vars(Loop) /\ WF_vars(Sockets)

-----------------------------------------------------------------------------
(* Properties.                                                                *)

\* Type invariant.
TypeOK ==
    /\ listening \in BOOLEAN
    /\ loop \in Place /\ mine \in Conns \cup {NoConn}
    /\ current \in {mine, NoConn}
    /\ closed \in BOOLEAN /\ state \in State
    /\ hasReady \in BOOLEAN /\ retried \in BOOLEAN
    /\ channel \in [Conns -> [Channels -> Progress]]
    /\ dead \subseteq Conns /\ open \subseteq Conns \X Channels

\* At most one connection is alive, the one the loop works on; the loop never
\* ends, fails or starts over with a connection alive behind it.
OneLiveConnection ==
    \A c \in Conns \ dead : c = mine /\ loop \in {"connecting", "connected"}

\* A data socket is open only under a live connection: neither a close in the
\* middle of connect() nor a late open leaves one behind.
NoSocketLeak == \A s \in open : s[1] \notin dead

\* A client that is ready is served by a connection all of whose data sockets were
\* registered, until the loss of one is noticed.
ReadyIsConnected ==
    state = "ready" => /\ loop = "connected" /\ current = mine
                       /\ mine \in dead \/ Pairs(mine) \subseteq open

\* A client that was ready once gives up by itself only if nobody listens to its
\* "error" events: with a listener start() goes on after every failure. Without one,
\* as in the CLI (apps/cli/src/index.ts), the first failure after a loss ends it.
OnceReadyKeepsTrying == hasReady /\ loop = "rejected" => ~listening

\* A lost connection leads to another attempt, unless the client is stopped.
LossLeadsToRetry == (loop = "connected" /\ mine \in dead) ~> (loop = "creating" \/ closed)

\* stop ends the loop and closes every socket, also when it falls into the back-off,
\* the creation of a tunnel or the opening of the channels.
StopEnds == (closed /\ loop # "idle") ~> (loop \in {"returned", "rejected"} /\ open = {})

-----------------------------------------------------------------------------
(* What does not hold.                                                        *)

\* A client that was ready once goes on until it is stopped, whoever listens: the
\* CLI says that it reconnects and retries after every loss.
NeverGivesUp == hasReady => loop # "rejected"
=============================================================================
