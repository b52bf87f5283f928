------------------------- MODULE HostcClientProofs -------------------------
(* Theorems about HostcClient: however stop, forceReconnect, late sockets and    *)
(* failures interleave, for every number of channels and every pool of           *)
(* connections, at most one connection is alive, no closed connection keeps a    *)
(* socket, and a ready client has all its sockets.                               *)
(*                                                                               *)
(* The code compares this.connection with its local variable to learn whether    *)
(* stop came in between. The invariant says why that is enough: the two differ   *)
(* only when stop has closed the loop's connection (CurrentInv), and sockets are *)
(* missing from a live connection only as long as connect() waits for them       *)
(* (RegisteredInv).                                                              *)
EXTENDS HostcClient, TLAPS

\* this.connection is the loop's connection, unless stop took it away.
CurrentInv == /\ mine # NoConn /\ current # mine => mine \in dead
              /\ loop \in {"idle", "sleeping", "creating", "returned"} => mine = NoConn
              /\ loop \in {"connecting", "connected"} => mine \in Conns

\* A live connection has lost none of the sockets it registered.
RegisteredInv == \A c \in Conns \ dead, ch \in Channels :
                     channel[c][ch] = "registered" => <<c, ch>> \in open

\* The loop waits for a loss only after every channel was registered.
ReadyInv == /\ loop = "connected" => AllRegistered(mine)
            /\ closed => state # "ready"
            /\ state = "ready" => loop = "connected" /\ current = mine

IInv == /\ TypeOK /\ OneLiveConnection /\ NoSocketLeak
        /\ CurrentInv /\ RegisteredInv /\ ReadyInv

-----------------------------------------------------------------------------
(* What closing does.                                                         *)

\* close leaves no socket behind and takes none from another connection.
LEMMA CloseInv ==
    ASSUME TypeOK, NoSocketLeak, RegisteredInv, channel' = channel,
           NEW c \in Conns \cup {NoConn}, Close(c)
    PROVE  /\ NoSocketLeak' /\ RegisteredInv'
           /\ dead' \subseteq Conns /\ open' \subseteq Conns \X Channels
           /\ dead \subseteq dead'
           /\ c # NoConn => c \in dead'
<1>1. /\ dead' \subseteq Conns /\ open' \subseteq Conns \X Channels
      /\ dead \subseteq dead'
      /\ c # NoConn => c \in dead'
  BY DEF TypeOK, Close
<1>2. NoSocketLeak'
  <2> SUFFICES ASSUME NEW s \in open' PROVE s[1] \notin dead'
    BY DEF NoSocketLeak
  <2>1. s \in open /\ s \notin Pairs(c) /\ s \in Conns \X Channels
    BY DEF TypeOK, Close, SocketsClosed
  <2>2. s[1] # c
    BY <2>1 DEF Pairs
  <2> QED
    BY <2>1, <2>2 DEF NoSocketLeak, Close
<1>3. RegisteredInv'
  <2> SUFFICES ASSUME NEW k \in Conns \ dead', NEW ch \in Channels,
                      channel[k][ch] = "registered"
               PROVE  <<k, ch>> \in open'
    BY DEF RegisteredInv
  <2>1. <<k, ch>> \in open
    BY <1>1 DEF RegisteredInv
  <2>2. k # c
    BY <1>1, NoConnAssumption
  <2> QED
    BY <2>1, <2>2 DEF Close, SocketsClosed, Pairs
<1> QED
  BY <1>1, <1>2, <1>3

\* After the finally block no connection is alive.
LEMMA FinallyInv ==
    ASSUME IInv, Finally, channel' = channel
    PROVE  /\ NoSocketLeak' /\ RegisteredInv'
           /\ dead' \subseteq Conns /\ open' \subseteq Conns \X Channels
           /\ current' = NoConn /\ Conns \subseteq dead'
<1> USE DEF IInv
<1>1. CASE mine # NoConn /\ current = mine
  <2>1. Close(mine) /\ current' = NoConn /\ mine \in Conns \cup {NoConn}
    BY <1>1 DEF Finally, TypeOK
  <2> QED
    BY <1>1, <2>1, CloseInv DEF OneLiveConnection
<1>2. CASE ~(mine # NoConn /\ current = mine)
  <2>1. UNCHANGED <<dead, open, current>>
    BY <1>2 DEF Finally
  <2>2. current = NoConn /\ Conns \subseteq dead
    BY <1>2, NoConnAssumption DEF TypeOK, CurrentInv, OneLiveConnection
  <2> QED
    BY <2>1, <2>2 DEF TypeOK, NoSocketLeak, RegisteredInv
<1> QED
  BY <1>1, <1>2

\* The loop starts over, or returns, only with every connection closed.
LEMMA IterateInv ==
    ASSUME IInv, NEW ready \in BOOLEAN, NEW again \in BOOLEAN, Iterate(ready, again),
           channel' = channel, closed' = closed, current' = NoConn,
           Conns \subseteq dead', dead' \subseteq Conns,
           open' \subseteq Conns \X Channels, NoSocketLeak', RegisteredInv'
    PROVE  IInv'
<1> USE DEF IInv
<1>1. /\ mine' = NoConn /\ listening' = listening /\ hasReady' \in BOOLEAN /\ retried' \in BOOLEAN
      /\ loop' \in {"returned", "sleeping", "creating"}
      /\ \/ closed /\ state' = state
         \/ ~closed /\ state' \in {"reconnecting", "creatingTunnel"}
  BY DEF Iterate
<1>2. TypeOK'
  BY <1>1 DEF TypeOK, Place, State
<1>3. OneLiveConnection' /\ CurrentInv'
  BY <1>1 DEF OneLiveConnection, CurrentInv
<1>4. ReadyInv'
  BY <1>1 DEF ReadyInv
<1> QED
  BY <1>2, <1>3, <1>4

\* A failed attempt ends the loop, or starts it over, with every connection closed.
LEMMA CaughtInv ==
    ASSUME IInv, loop \in {"creating", "connecting"}, Caught, UNCHANGED <<closed, channel>>
    PROVE  IInv'
<1> USE DEF IInv
<1>1. /\ NoSocketLeak' /\ RegisteredInv'
      /\ dead' \subseteq Conns /\ open' \subseteq Conns \X Channels
      /\ current' = NoConn /\ Conns \subseteq dead'
  BY FinallyInv DEF Caught
<1>2. CASE loop' = "rejected" /\ UNCHANGED <<listening, mine, hasReady, retried, state>>
  <2>1. TypeOK'
    BY <1>1, <1>2 DEF TypeOK, Place
  <2>2. OneLiveConnection' /\ CurrentInv'
    BY <1>1, <1>2 DEF TypeOK, OneLiveConnection, CurrentInv
  <2>3. ReadyInv'
    BY <1>2 DEF ReadyInv
  <2> QED
    BY <1>1, <2>1, <2>2, <2>3
<1>3. CASE Iterate(hasReady, retried \/ ~closed)
  <2>1. hasReady \in BOOLEAN /\ (retried \/ ~closed) \in BOOLEAN
    BY DEF TypeOK
  <2> QED
    BY <1>1, <1>3, <2>1, IterateInv
<1> QED
  BY <1>2, <1>3 DEF Caught

-----------------------------------------------------------------------------
(* The actions.                                                               *)

\* A new client has no connection.
LEMMA InitInv == Init => IInv
<1> SUFFICES ASSUME Init PROVE IInv
  OBVIOUS
<1>1. TypeOK
  BY DEF Init, TypeOK, Place, State, Progress
<1>2. OneLiveConnection /\ NoSocketLeak /\ CurrentInv /\ RegisteredInv /\ ReadyInv
  BY DEF Init, OneLiveConnection, NoSocketLeak, CurrentInv, RegisteredInv, ReadyInv
<1> QED
  BY <1>1, <1>2 DEF IInv

\* A created tunnel: the new connection has no socket and awaits all of them.
LEMMA CreatedInv == ASSUME IInv, NEW c \in Conns, Created(c) PROVE IInv'
<1> USE DEF IInv
<1>1. /\ mine = NoConn /\ loop' = "connecting" /\ mine' = c /\ current' = c
      /\ state' = "connecting" /\ dead' = dead \ {c} /\ open' = open
      /\ UNCHANGED <<listening, hasReady, retried, closed>>
  BY DEF Created, CurrentInv
<1>2. channel' = [channel EXCEPT ![c] = [ch \in Channels |-> "opening"]]
  BY DEF Created
<1>3. dead = Conns /\ open = {}
  <2>1. dead = Conns
    BY <1>1, NoConnAssumption DEF OneLiveConnection, TypeOK
  <2>2. \A s \in open : s[1] \in Conns
    BY DEF TypeOK
  <2> QED
    BY <2>1, <2>2 DEF NoSocketLeak
<1>4. TypeOK'
  <2>1. channel' \in [Conns -> [Channels -> Progress]]
    BY <1>2 DEF TypeOK, Progress
  <2> QED
    BY <1>1, <2>1 DEF TypeOK, Place, State
<1>5. OneLiveConnection' /\ NoSocketLeak' /\ CurrentInv'
  BY <1>1, <1>3 DEF OneLiveConnection, NoSocketLeak, CurrentInv
<1>6. RegisteredInv'
  <2>1. \A ch \in Channels : channel'[c][ch] = "opening"
    BY <1>2 DEF TypeOK
  <2> QED
    BY <1>1, <1>3, <2>1 DEF RegisteredInv
<1>7. ReadyInv'
  BY <1>1 DEF ReadyInv
<1> QED
  BY <1>4, <1>5, <1>6, <1>7

\* connect() resolved: a superseded connection is closed, any other one is ready.
LEMMA ConnectedInv == ASSUME IInv, Connected PROVE IInv'
<1> USE DEF IInv
<1>1. /\ loop = "connecting" /\ mine \in Conns /\ AllRegistered(mine)
      /\ UNCHANGED <<closed, channel>>
  BY DEF Connected, CurrentInv
<1>2. CASE closed \/ current # mine
  <2>1. /\ Close(mine) /\ Iterate(hasReady, retried)
        /\ current' = IF current = mine THEN NoConn ELSE current
    BY <1>2 DEF Connected
  <2>2. current' = NoConn /\ hasReady \in BOOLEAN /\ retried \in BOOLEAN
    BY <2>1 DEF TypeOK
  <2>3. /\ NoSocketLeak' /\ RegisteredInv'
        /\ dead' \subseteq Conns /\ open' \subseteq Conns \X Channels
        /\ dead \subseteq dead' /\ mine \in dead'
    BY <1>1, <2>1, CloseInv, NoConnAssumption
  <2>4. Conns \subseteq dead'
    BY <2>3 DEF OneLiveConnection
  <2> QED
    BY <1>1, <2>1, <2>2, <2>3, <2>4, IterateInv
<1>3. CASE ~(closed \/ current # mine)
  <2>1. /\ loop' = "connected" /\ state' = "ready" /\ hasReady' = TRUE /\ retried' = FALSE
        /\ UNCHANGED <<listening, mine, current, dead, open>>
    BY <1>3 DEF Connected
  <2>2. TypeOK'
    BY <1>1, <2>1 DEF TypeOK, Place, State
  <2>3. OneLiveConnection' /\ NoSocketLeak' /\ CurrentInv' /\ RegisteredInv'
    BY <1>1, <2>1 DEF OneLiveConnection, NoSocketLeak, CurrentInv, RegisteredInv
  <2>4. ReadyInv'
    BY <1>1, <1>3, <2>1 DEF ReadyInv, AllRegistered
  <2> QED
    BY <2>2, <2>3, <2>4
<1> QED
  BY <1>2, <1>3

\* The wait for a loss is over.
LEMMA DisconnectedInv == ASSUME IInv, Disconnected PROVE IInv'
<1>1. /\ NoSocketLeak' /\ RegisteredInv'
      /\ dead' \subseteq Conns /\ open' \subseteq Conns \X Channels
      /\ current' = NoConn /\ Conns \subseteq dead'
  BY FinallyInv DEF Disconnected
<1>2. hasReady \in BOOLEAN /\ (retried \/ ~closed) \in BOOLEAN
  BY DEF IInv, TypeOK
<1> QED
  BY <1>1, <1>2, IterateInv DEF Disconnected

\* The connection is closed behind the loop's back: by stop, by forceReconnect, or
\* because a socket is lost.
LEMMA ClosedInv ==
    ASSUME IInv, NEW c \in Conns \cup {NoConn}, Close(c), UNCHANGED <<start, channel>>,
           \/ UNCHANGED <<current, closed, state>>
           \/ c = current /\ closed' = TRUE /\ current' = NoConn /\ state' = "closed"
    PROVE  IInv'
<1> USE DEF IInv, start
<1>1. /\ NoSocketLeak' /\ RegisteredInv'
      /\ dead' \subseteq Conns /\ open' \subseteq Conns \X Channels
      /\ dead \subseteq dead'
      /\ c # NoConn => c \in dead'
  BY CloseInv
<1>2. TypeOK'
  BY <1>1 DEF TypeOK, State
<1>3. OneLiveConnection' /\ CurrentInv'
  BY <1>1 DEF TypeOK, OneLiveConnection, CurrentInv
<1>4. ReadyInv'
  BY DEF ReadyInv, AllRegistered
<1> QED
  BY <1>1, <1>2, <1>3, <1>4

\* A socket opens or fails to: a late one is closed at once.
LEMMA OpenedInv ==
    ASSUME IInv, NEW c \in Conns, NEW k \in Channels, Opened(c, k) \/ Refused(c, k)
    PROVE  IInv'
<1> USE DEF IInv, start
<1>1. /\ channel[c][k] = "opening"
      /\ UNCHANGED <<listening, loop, mine, hasReady, retried, current, closed, state, dead>>
  BY DEF Opened, Refused
<1>2. PICK p \in {"registered", "refused"} :
         /\ channel' = [channel EXCEPT ![c][k] = p]
         /\ \/ p = "refused" /\ open' = open
            \/ p = "registered" /\ c \notin dead /\ open' = open \cup {<<c, k>>}
  BY DEF Opened, Refused, TooLate
<1>3. /\ channel'[c][k] = p
      /\ \A j \in Conns, ch \in Channels :
            j # c \/ ch # k => channel'[j][ch] = channel[j][ch]
  BY <1>2 DEF TypeOK
<1>4. TypeOK'
  <2>1. channel' \in [Conns -> [Channels -> Progress]]
    BY <1>2 DEF TypeOK, Progress
  <2>2. open' \subseteq Conns \X Channels
    BY <1>2 DEF TypeOK
  <2> QED
    BY <1>1, <2>1, <2>2 DEF TypeOK
<1>5. OneLiveConnection' /\ CurrentInv'
  BY <1>1 DEF OneLiveConnection, CurrentInv
<1>6. NoSocketLeak'
  BY <1>1, <1>2 DEF NoSocketLeak
<1>7. RegisteredInv'
  <2> SUFFICES ASSUME NEW j \in Conns \ dead', NEW ch \in Channels,
                      channel'[j][ch] = "registered"
               PROVE  <<j, ch>> \in open'
    BY DEF RegisteredInv
  <2>1. CASE j = c /\ ch = k
    BY <1>2, <1>3, <2>1
  <2>2. CASE j # c \/ ch # k
    BY <1>1, <1>2, <1>3, <2>2 DEF RegisteredInv
  <2> QED
    BY <2>1, <2>2
<1>8. ReadyInv'
  BY <1>1, <1>3 DEF ReadyInv, AllRegistered, CurrentInv
<1> QED
  BY <1>4, <1>5, <1>6, <1>7, <1>8

\* Every step keeps the invariant.
LEMMA NextInv == IInv /\ [Next]_vars => IInv'
<1> SUFFICES ASSUME IInv, [Next]_vars PROVE IInv'
  OBVIOUS
<1>1. CASE Start
  <2>1. Iterate(FALSE, FALSE) /\ UNCHANGED <<current, closed, channel, dead, open>>
    BY <1>1 DEF Start
  <2>2. mine = NoConn /\ current = NoConn /\ Conns \subseteq dead
    BY <1>1, NoConnAssumption
       DEF Start, IInv, TypeOK, CurrentInv, OneLiveConnection
  <2>3. /\ dead' \subseteq Conns /\ open' \subseteq Conns \X Channels
        /\ NoSocketLeak' /\ RegisteredInv'
    BY <2>1 DEF IInv, TypeOK, NoSocketLeak, RegisteredInv
  <2> QED
    BY <2>1, <2>2, <2>3, IterateInv
<1>2. CASE Awake
  <2>1. /\ loop = "sleeping" /\ loop' = "creating"
        /\ UNCHANGED <<listening, mine, hasReady, retried, current, closed, state, channel,
                       dead, open>>
    BY <1>2 DEF Awake
  <2> QED
    BY <2>1 DEF IInv, TypeOK, Place, OneLiveConnection, NoSocketLeak, CurrentInv,
                RegisteredInv, ReadyInv
<1>3. ASSUME NEW c \in Conns, Created(c) PROVE IInv'
  BY <1>3, CreatedInv
<1>4. CASE CreateFails
  BY <1>4, CaughtInv DEF CreateFails
<1>5. CASE Connected
  BY <1>5, ConnectedInv
<1>6. CASE ConnectFails
  BY <1>6, CaughtInv DEF ConnectFails
<1>7. CASE Disconnected
  BY <1>7, DisconnectedInv
<1>8. CASE Stop
  <2>1. current \in Conns \cup {NoConn}
    BY DEF IInv, TypeOK
  <2> QED
    BY <1>8, <2>1, ClosedInv DEF Stop, StopCloses
<1>9. CASE ForceReconnect
  <2>1. current \in Conns \cup {NoConn}
    BY DEF IInv, TypeOK
  <2> QED
    BY <1>9, <2>1, ClosedInv DEF ForceReconnect
<1>10. ASSUME NEW c \in Conns, NEW ch \in Channels, Opened(c, ch) \/ Refused(c, ch)
       PROVE  IInv'
  BY <1>10, OpenedInv
<1>11. ASSUME NEW c \in Conns, NEW ch \in Channels, SocketLost(c, ch) PROVE IInv'
  BY <1>11, ClosedInv DEF SocketLost
<1>12. CASE UNCHANGED vars
  BY <1>12 DEF vars, IInv, TypeOK, OneLiveConnection, NoSocketLeak, CurrentInv,
               RegisteredInv, ReadyInv, AllRegistered
<1> QED
  BY <1>1, <1>2, <1>3, <1>4, <1>5, <1>6, <1>7, <1>8, <1>9, <1>10, <1>11, <1>12
     DEF Next, Loop, Sockets

\* The invariant holds in every state.
LEMMA Invariant == Spec => []IInv
  BY InitInv, NextInv, PTL DEF Spec

-----------------------------------------------------------------------------
\* Every reachable state is well typed, and this.connection is the connection of
\* the loop or null.
THEOREM TypeCorrect == Spec => []TypeOK
<1>1. IInv => TypeOK
  BY DEF IInv
<1> QED
  BY <1>1, Invariant, PTL

\* Whatever comes in between, the loop never has two live connections, and never
\* ends or starts over with one.
THEOREM AtMostOneLive == Spec => []OneLiveConnection
<1>1. IInv => OneLiveConnection
  BY DEF IInv
<1> QED
  BY <1>1, Invariant, PTL

\* A data socket that opens late, or whose connection is closed while connect()
\* waits for the others, is closed with it.
THEOREM SocketsGoWithConnection == Spec => []NoSocketLeak
<1>1. IInv => NoSocketLeak
  BY DEF IInv
<1> QED
  BY <1>1, Invariant, PTL

\* A client that reports ready has every data socket of its connection open, or
\* the loss of one is about to be noticed.
THEOREM ReadyMeansConnected == Spec => []ReadyIsConnected
<1>1. IInv => ReadyIsConnected
  <2> SUFFICES ASSUME IInv, state = "ready" PROVE mine \in dead \/ Pairs(mine) \subseteq open
    BY DEF IInv, ReadyInv, ReadyIsConnected
  <2>1. mine \in Conns /\ AllRegistered(mine)
    BY DEF IInv, ReadyInv, CurrentInv
  <2> QED
    BY <2>1 DEF IInv, RegisteredInv, AllRegistered, Pairs
<1> QED
  BY <1>1, Invariant, PTL

\* Whatever fails and whenever: a client that was ready once, and whose "error" events
\* somebody hears, never gives up by itself. start() rejects after the failure of the
\* very first attempt, or because emitting "error" throws where nobody listens.
THEOREM KeepsTrying == Spec => []OnceReadyKeepsTrying
<1>1. Init => OnceReadyKeepsTrying
  BY DEF Init, OnceReadyKeepsTrying
<1>2. OnceReadyKeepsTrying /\ [Next]_vars => OnceReadyKeepsTrying'
  <2> SUFFICES ASSUME OnceReadyKeepsTrying, [Next]_vars, hasReady', listening'
               PROVE  loop' # "rejected"
    BY DEF OnceReadyKeepsTrying
  <2>1. CASE Caught
    <3>1. CASE FirstAttempt \/ (~closed /\ ~listening)
      <4>1. listening' = listening /\ hasReady' = hasReady
        BY <2>1, <3>1 DEF Caught
      <4>2. ~hasReady \/ ~listening
        BY <3>1 DEF FirstAttempt
      <4> QED
        BY <4>1, <4>2
    <3>2. CASE ~(FirstAttempt \/ (~closed /\ ~listening))
      BY <2>1, <3>2 DEF Caught, Iterate
    <3> QED
      BY <3>1, <3>2
  <2>2. CASE Start \/ Disconnected \/ Connected
    BY <2>2 DEF Start, Disconnected, Connected, Iterate
  <2>3. CASE Awake \/ \E c \in Conns : Created(c)
    <3>1. loop' \in {"creating", "connecting"}
      BY <2>3 DEF Awake, Created
    <3> QED
      BY <3>1
  <2>4. CASE UNCHANGED <<listening, loop, hasReady>>
    BY <2>4 DEF OnceReadyKeepsTrying
  <2>5. CASE Stop \/ ForceReconnect \/ Sockets
    BY <2>4, <2>5 DEF Stop, ForceReconnect, Sockets, Opened, Refused, start
  <2>6. CASE \E c \in Conns, ch \in Channels : SocketLost(c, ch)
    BY <2>4, <2>6 DEF SocketLost, start
  <2> QED
    BY <2>1, <2>2, <2>3, <2>4, <2>5, <2>6
       DEF Next, Loop, CreateFails, ConnectFails, vars
<1> QED
  BY <1>1, <1>2, PTL DEF Spec
=============================================================================
