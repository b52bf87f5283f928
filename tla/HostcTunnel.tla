---------------------------- MODULE HostcTunnel ----------------------------
(* The Durable Object behind one tunnel (src/apps/server/src/durable/tunnel.ts): *)
(* which client connection is active, its data sockets, the streams multiplexed  *)
(* on them, the accepted public WebSockets, and what of all this is durable.     *)
(*                                                                               *)
(* One action is one event the runtime delivers. Storage operations inside a     *)
(* handler hold further events back (input gate), and nothing leaves the object  *)
(* before its writes are durable (output gate), so a handler that only awaits    *)
(* storage is one step. Credits, payloads and the waits for socket capacity are  *)
(* the subject of other modules.                                                 *)
EXTENDS Integers, FiniteSets

CONSTANTS
    Conns,        \* client connection ids (createClientConnectionId: all distinct)
    NoConn,       \* null
    MaxChannels,  \* MAX_DATA_CHANNELS
    MaxStreamId,  \* bound: public requests stop at this stream id
    MaxSockets,   \* bound: data sockets accepted over a behaviour
    MaxCrashes    \* bound: restarts that lose every socket

ASSUME NoConnAssumption == NoConn \notin Conns
ASSUME BoundsAssumption == /\ MaxChannels \in Nat \ {0}
                           /\ MaxStreamId \in Nat
                           /\ MaxSockets \in Nat
                           /\ MaxCrashes \in Nat

VARIABLES
    active,        \* activeClientConnectionId
    expected,      \* expectedDataChannels
    nextStreamId,
    nextChannel,   \* nextChannelIndex
    streams,       \* the streams map, as a set of records
    closed,        \* closedStreamIds
    data,          \* data sockets the runtime still lists
    openData,      \* those of them whose readyState is OPEN
    gen,           \* the last socketGeneration handed out
    public,        \* accepted public WebSockets the runtime still lists
    openPublic,    \* those of them whose readyState is OPEN
    stored,        \* the three storage keys
    alarm,         \* whether an alarm is set
    used,          \* history: client connections initialised so far
    issued,        \* history: <<client connection, stream id>> handed to a client
    newest,        \* history: by channel of the stored connection, its last socket
    crashes        \* restarts so far

memory == <<active, expected, nextStreamId, nextChannel, streams, closed>>
sockets == <<data, openData, gen, public, openPublic>>
durable == <<stored, alarm>>
history == <<used, issued, newest, crashes>>
vars == <<memory, sockets, durable, history>>

Kind == {"http", "websocket"}
Channel == 0..(MaxChannels - 1)
DataSocket == [conn : Conns, ch : Channel, gen : Nat]
PublicSocket == [conn : Conns, id : Nat]
Stream == [conn : Conns, id : Nat, kind : Kind, ch : Channel,
           phase : {"waiting", "open"}]
Record == [conn : Conns \cup {NoConn}, channels : 0..MaxChannels, nextId : Nat]

\* What loadConnectionState reads when the keys are absent.
NoRecord == [conn |-> NoConn, channels |-> 0, nextId |-> 1]

-----------------------------------------------------------------------------
(* loadConnectionState: every event handler starts by restoring the connection *)
(* from storage when memory holds none. The four operators below are the       *)
(* values the rest of the handler sees.                                        *)

NeedsLoad == active = NoConn /\ expected = 0
Active == IF NeedsLoad THEN stored.conn ELSE active
Expected == IF NeedsLoad THEN stored.channels ELSE expected
NextId == IF NeedsLoad THEN stored.nextId ELSE nextStreamId

\* Mutant: sockets without a stream stay open.
OpenPublicKept == openPublic

\* closeUnrecoverablePublicSockets
OpenPublic == IF NeedsLoad /\ streams = {} THEN {} ELSE openPublic

\* The handler keeps the connection it found.
Resident == /\ active' = Active
            /\ expected' = Expected
            /\ nextStreamId' = NextId

-----------------------------------------------------------------------------
(* Data sockets.                                                              *)

SocketsOf(c) == {d \in data : d.conn = c}
Peers(d) == {e \in data : e.conn = d.conn /\ e.ch = d.ch}
IsLatest(d) == \A e \in Peers(d) : e.gen <= d.gen

\* Mutant: the generations are not compared.
IsOfActive(d) == Active # NoConn /\ d.conn = Active

IsCurrent(d) == Active # NoConn /\ d.conn = Active /\ IsLatest(d)

\* getDataSocket finds a socket to send on.
HasDataSocket(ch) == \E d \in openData : d.conn = Active /\ d.ch = ch

IsReady == /\ Active # NoConn
           /\ Expected >= 1
           /\ {d.ch : d \in {e \in openData : e.conn = Active}} = 0..(Expected - 1)

-----------------------------------------------------------------------------
(* Ending streams and connections.                                            *)

\* The public sockets that are some stream's publicSocket.
SocketsOfStreams(S) ==
    {p \in public : \E s \in S : /\ s.kind = "websocket" /\ s.phase = "open"
                                 /\ s.conn = p.conn /\ s.id = p.id}
Ids(S) == {s.id : s \in S}

\* abortStream, or finishStreamDirection and handlePublicSocketClose up to
\* cleanupStream: the stream leaves the map and its public socket is closed.
CloseStreams(S) ==
    /\ streams' = streams \ S
    /\ closed' = closed \cup Ids(S)
    /\ openPublic' = OpenPublic \ SocketsOfStreams(S)

\* Mutant: streams that still wait for their response are forgotten.
AbortAcceptedOnly == {s \in streams : s.phase = "open"}

\* What abortAllStreams aborts.
AllStreams == streams

\* Mutant: storage.delete is forgotten.
RecordKept == stored

\* What failClientConnection leaves in storage.
RecordOfFailed == NoRecord

\* failClientConnection, past its early return.
FailClientConnection ==
    /\ openData' = openData \ SocketsOf(Active)
    /\ CloseStreams(AllStreams)
    /\ active' = NoConn
    /\ expected' = 0
    /\ nextStreamId' = NextId
    /\ stored' = RecordOfFailed
    /\ alarm' = FALSE
    /\ UNCHANGED <<nextChannel, gen, history>>

-----------------------------------------------------------------------------
Init == /\ active = NoConn /\ expected = 0
        /\ nextStreamId = 1 /\ nextChannel = 0
        /\ streams = {} /\ closed = {}
        /\ data = {} /\ openData = {} /\ gen = 0
        /\ public = {} /\ openPublic = {}
        /\ stored = NoRecord /\ alarm = FALSE
        /\ used = {} /\ issued = {} /\ newest = [ch \in Channel |-> 0]
        /\ crashes = 0

\* Any event whose handler does nothing but restore the connection: a refused
\* request, a credit frame, a frame for a closed stream.
WakeUp ==
    /\ NeedsLoad
    /\ Resident
    /\ openPublic' = OpenPublic
    /\ UNCHANGED <<nextChannel, streams, closed, data, openData, gen, public,
                   durable, history>>

-----------------------------------------------------------------------------
(* Requests of the tunnel API, forwarded by the Worker.                       *)

\* Mutant: the stream counter of the previous connection stays in storage.
RecordKeepsNextId(c, n) == [stored EXCEPT !.conn = c, !.channels = n]

RecordOf(c, n) == [conn |-> c, channels |-> n, nextId |-> 1]

\* replaceClientConnection
ReplaceClientConnection(c, n) ==
    /\ active' = c
    /\ expected' = n
    /\ nextStreamId' = 1
    /\ nextChannel' = 0
    /\ streams' = streams \ AllStreams
    /\ closed' = {}
    /\ openData' = openData \ SocketsOf(Active)
    /\ openPublic' = OpenPublic \ SocketsOfStreams(AllStreams)
    /\ stored' = RecordOf(c, n)
    /\ alarm' = TRUE
    /\ newest' = [k \in Channel |-> 0]
    /\ UNCHANGED <<data, gen, public, issued, crashes>>

\* handleInit: createTunnel draws a fresh client connection id.
InitConnection(c, n) ==
    /\ c \notin used
    /\ used' = used \cup {c}
    /\ ReplaceClientConnection(c, n)

\* Mutant: the channel's older socket is not closed.
NothingReplaced(d) == {}

\* The sockets handleChannelConnect closes in favour of d.
ReplacedBy(d) == Peers(d)

\* handleChannelConnect: the socket takes the channel over from older ones, and
\* the last missing channel disarms the alarm.
ConnectChannel(ch) ==
    /\ Active # NoConn /\ ch \in 0..(Expected - 1)
    /\ gen < MaxSockets
    /\ gen' = gen + 1
    /\ LET new == [conn |-> Active, ch |-> ch, gen |-> gen + 1]
       IN /\ data' = data \cup {new}
          /\ openData' = (openData \ ReplacedBy(new)) \cup {new}
    /\ Resident
    /\ openPublic' = OpenPublic
    /\ alarm' = (alarm /\ ~IsReady')
    /\ newest' = [newest EXCEPT ![ch] = gen + 1]
    /\ UNCHANGED <<nextChannel, streams, closed, public, stored, used, issued, crashes>>

-----------------------------------------------------------------------------
(* Public requests.                                                           *)

NextStream(kind) ==
    [conn |-> Active, id |-> NextId, kind |-> kind,
     ch |-> nextChannel % Expected, phase |-> "waiting"]

\* Mutant: the stream counter only lives in memory.
RecordBehind == stored

RecordOfNextStream == [stored EXCEPT !.nextId = NextId + 1]

\* createStream
CreateStream(kind) ==
    /\ nextChannel' = nextChannel + 1
    /\ nextStreamId' = NextId + 1
    /\ stored' = RecordOfNextStream
    /\ streams' = {s \in streams : s.id # NextId} \cup {NextStream(kind)}
    /\ closed' = closed \ {NextId}
    /\ issued' = issued \cup {<<Active, NextId>>}

\* handlePublicHttp and handlePublicWebSocket up to the wait for response.start
PublicRequest(kind) ==
    /\ IsReady
    /\ NextId <= MaxStreamId
    /\ CreateStream(kind)
    /\ active' = Active
    /\ expected' = Expected
    /\ openPublic' = OpenPublic
    /\ UNCHANGED <<data, openData, gen, public, alarm, used, newest, crashes>>

\* abortStream from a timer, a failed send or the public response's consumer:
\* none of these is an event that restores the connection.
AbortStream(s) ==
    /\ CloseStreams({s})
    /\ UNCHANGED <<active, expected, nextStreamId, nextChannel, data, openData,
                   gen, public, durable, history>>

-----------------------------------------------------------------------------
(* Messages on a data socket.                                                 *)

\* handleDataChannelMessage: a message of a replaced socket or connection.
OldSocketMessage(d) ==
    /\ ~IsCurrent(d)
    /\ Resident
    /\ openData' = openData \ {d}
    /\ openPublic' = OpenPublic
    /\ UNCHANGED <<nextChannel, streams, closed, data, gen, public, durable, history>>

\* A text message, an undecodable frame, a frame of the wrong direction or
\* channel, a credit violation, a gap in the sequence numbers.
ProtocolError(d) ==
    /\ IsCurrent(d)
    /\ FailClientConnection
    /\ UNCHANGED <<data, public>>

\* Mutant: only tombstones are consulted.
KnownByTombstone(id) == id \in closed

KnownStreamId(id) == id \in closed \/ id < NextId

\* A frame for a stream that is not in the map.
UnknownStreamFrame(d, id) ==
    /\ IsCurrent(d)
    /\ id \notin Ids(streams)
    /\ ~KnownStreamId(id)
    /\ FailClientConnection
    /\ UNCHANGED <<data, public>>

\* RESPONSE_START that the public handler accepts with a body to stream or, for a
\* WebSocket, by accepting the public socket.
ResponseStart(d, s) ==
    /\ IsCurrent(d) /\ s.ch = d.ch
    /\ s.phase = "waiting"
    /\ streams' = (streams \ {s}) \cup {[s EXCEPT !.phase = "open"]}
    /\ LET accepted == IF s.kind = "websocket"
                       THEN {[conn |-> s.conn, id |-> s.id]} ELSE {}
       IN /\ public' = public \cup accepted
          /\ openPublic' = OpenPublic \cup accepted
    /\ Resident
    /\ UNCHANGED <<nextChannel, closed, data, openData, gen, durable, history>>

\* RESPONSE_START without a body or refused by the handler, RESPONSE_END,
\* RESPONSE_ABORT.
ResponseFinished(d, s) ==
    /\ IsCurrent(d) /\ s.ch = d.ch
    /\ CloseStreams({s})
    /\ Resident
    /\ UNCHANGED <<nextChannel, data, openData, gen, public, durable, history>>

-----------------------------------------------------------------------------
(* Events of public sockets. The attachment names the stream id alone.        *)

\* streams.get(attachment.streamId), kept when it is a WebSocket stream.
StreamOf(p) == {s \in streams : s.id = p.id /\ s.kind = "websocket"}

\* Those of them that REQUEST_END can be sent for. Without an open data socket
\* sending throws and the stream stays until the connection fails.
EndableStreams(p) == {s \in StreamOf(p) : HasDataSocket(s.ch)}

\* handlePublicSocketMessage: a message over the limit ends the stream.
PublicMessageTooBig(p) ==
    /\ StreamOf(p) # {}
    /\ Resident
    /\ streams' = streams \ EndableStreams(p)
    /\ closed' = closed \cup Ids(EndableStreams(p))
    /\ openPublic' = OpenPublic \ SocketsOfStreams(StreamOf(p))
    /\ UNCHANGED <<nextChannel, data, openData, gen, public, durable, history>>

\* handlePublicSocketMessage: sending the message fails although the stream's
\* data socket is open (sendDataPayload spends more credit than there is).
PublicMessageSendFails(p) ==
    /\ \E s \in StreamOf(p) : HasDataSocket(s.ch)
    /\ FailClientConnection
    /\ UNCHANGED <<data, public>>

\* The peer's close reaches the runtime before its event is delivered.
PublicSocketClosing(p) ==
    /\ p \in openPublic
    /\ openPublic' = openPublic \ {p}
    /\ UNCHANGED <<memory, data, openData, gen, public, durable, history>>

\* webSocketClose of a public socket: handlePublicSocketClose.
PublicSocketClose(p) ==
    /\ p \notin openPublic
    /\ Resident
    /\ streams' = streams \ EndableStreams(p)
    /\ closed' = closed \cup Ids(EndableStreams(p))
    /\ public' = public \ {p}
    /\ openPublic' = OpenPublic \ SocketsOfStreams(EndableStreams(p))
    /\ UNCHANGED <<nextChannel, data, openData, gen, durable, history>>

\* webSocketError of a public socket only logs.
PublicSocketError(p) ==
    /\ Resident
    /\ public' = public \ {p}
    /\ openPublic' = OpenPublic \ {p}
    /\ UNCHANGED <<nextChannel, streams, closed, data, openData, gen, durable, history>>

-----------------------------------------------------------------------------
(* Events of data sockets.                                                    *)

\* The peer's close, or the loss of the link, before its event is delivered.
DataSocketClosing(d) ==
    /\ d \in openData
    /\ openData' = openData \ {d}
    /\ UNCHANGED <<memory, data, gen, public, openPublic, durable, history>>

\* webSocketClose and webSocketError of a data socket.
DataSocketClose(d) ==
    /\ d \notin openData
    /\ data' = data \ {d}
    /\ UNCHANGED public
    /\ IF IsCurrent(d)
       THEN FailClientConnection
       ELSE /\ Resident
            /\ openPublic' = OpenPublic
            /\ UNCHANGED <<nextChannel, streams, closed, openData, gen, durable, history>>

-----------------------------------------------------------------------------
(* The alarm, hibernation and restarts.                                       *)

\* Mutant: the alarm looks whether there is a connection, not whether it is ready.
AlarmSatisfied == FALSE

AlarmFails == Active # NoConn /\ ~IsReady

\* alarm(): drops a connection whose channels did not all connect in time.
Alarm ==
    /\ alarm
    /\ IF AlarmFails
       THEN FailClientConnection /\ UNCHANGED <<data, public>>
       ELSE /\ Resident
            /\ openPublic' = OpenPublic
            /\ alarm' = FALSE
            /\ UNCHANGED <<nextChannel, streams, closed, data, openData, gen, public,
                           stored, history>>

ForgetMemory ==
    /\ active' = NoConn /\ expected' = 0
    /\ nextStreamId' = 1 /\ nextChannel' = 0
    /\ streams' = {} /\ closed' = {}

\* The runtime evicts an idle object and keeps its sockets: no request is in
\* progress and no timer is pending, so every stream is an accepted WebSocket.
Hibernate ==
    /\ \A s \in streams : s.kind = "websocket" /\ s.phase = "open"
    /\ ForgetMemory
    /\ UNCHANGED <<sockets, durable, history>>

\* The object restarts elsewhere (a new version, a lost machine): its sockets are
\* gone and no close event will report it.
Crash ==
    /\ crashes < MaxCrashes
    /\ crashes' = crashes + 1
    /\ ForgetMemory
    /\ data' = {} /\ openData' = {} /\ public' = {} /\ openPublic' = {}
    /\ UNCHANGED <<gen, durable, used, issued, newest>>

-----------------------------------------------------------------------------
DataEvent(d) ==
    \/ OldSocketMessage(d)
    \/ ProtocolError(d)
    \/ \E id \in 1..MaxStreamId : UnknownStreamFrame(d, id)
    \/ \E s \in streams : ResponseStart(d, s) \/ ResponseFinished(d, s)
    \/ DataSocketClosing(d)
    \/ DataSocketClose(d)

PublicEvent(p) ==
    \/ PublicMessageTooBig(p)
    \/ PublicMessageSendFails(p)
    \/ PublicSocketClosing(p)
    \/ PublicSocketClose(p)
    \/ PublicSocketError(p)

Next ==
    \/ WakeUp
    \/ \E c \in Conns, n \in 1..MaxChannels : InitConnection(c, n)
    \/ \E ch \in Channel : ConnectChannel(ch)
    \/ \E kind \in Kind : PublicRequest(kind)
    \/ \E s \in streams : AbortStream(s)
    \/ \E d \in data : DataEvent(d)
    \/ \E p \in public : PublicEvent(p)
    \/ Alarm
    \/ Hibernate
    \/ Crash

Spec == Init /\ [][Next]_vars

\* A set alarm goes off, and the close of a socket that is not open any more is
\* reported: both are the runtime's obligations, not the peers'.
FairSpec ==
    /\ Spec
    /\ WF_vars(Alarm)
    /\ WF_vars(\E d \in data : DataSocketClose(d))

-----------------------------------------------------------------------------
(* Properties.                                                                *)

\* Every field of the object, its sockets and its storage has its type.
TypeOK ==
    /\ active \in Conns \cup {NoConn}
    /\ expected \in 0..MaxChannels
    /\ nextStreamId \in Nat
    /\ nextChannel \in Nat
    /\ streams \subseteq Stream
    /\ closed \subseteq Nat
    /\ data \subseteq DataSocket /\ openData \subseteq data
    /\ gen \in Nat
    /\ public \subseteq PublicSocket /\ openPublic \subseteq public
    /\ stored \in Record
    /\ alarm \in BOOLEAN
    /\ used \subseteq Conns
    /\ issued \subseteq Conns \X Nat
    /\ newest \in [Channel -> Nat]
    /\ crashes \in Nat

\* Whenever memory holds a connection, storage holds the same connection with the
\* same channels and the same next stream id, so that an eviction at any point
\* between two events loses none of the three; without a connection neither
\* counts any channel.
DurableRecord ==
    /\ active # NoConn =>
           stored = [conn |-> active, channels |-> expected, nextId |-> nextStreamId]
    /\ active = NoConn => expected = 0
    /\ stored.conn = NoConn => stored.channels = 0

\* Live streams belong to the active connection: they were created under it, are
\* pinned to one of its channels, carry distinct ids below the next one, and are
\* not remembered as closed.
StreamsOfActiveConnection ==
    /\ \A s \in streams : /\ s.conn = active
                          /\ s.ch < expected
                          /\ s.id < nextStreamId
                          /\ s.id \notin closed
    /\ \A s, t \in streams : s.id = t.id => s = t

\* No stream the active client was told of is ever unknown to the object, across
\* tombstones, hibernation and restarts: a late frame for it can not fail the
\* connection ("Unknown stream" in handleDataChannelMessage).
IssuedStreamsKnown ==
    \A i \in issued : i[1] = Active => i[2] \in Ids(streams) \/ KnownStreamId(i[2])

\* createStream never hands out an id twice within one client connection, also
\* when the object was evicted or restarted in between.
NoStreamIdReuse ==
    [][\A s \in streams' :
          \/ \E t \in streams : t.conn = s.conn /\ t.id = s.id
          \/ <<s.conn, s.id>> \notin issued]_vars

\* d belongs to another connection than the stored one, or the object has accepted
\* a later socket for its channel since.
Superseded(d) == d.conn # stored.conn \/ d.gen < newest[d.ch]

\* Whatever still arrives on a data socket that a later one replaced, or whose
\* connection was replaced or failed (frames, malformed ones too, its close, its
\* error), also when the object was evicted since: it changes neither the active
\* connection nor its streams, tombstones and record, leaves its alarm set and
\* closes no other socket. The code has no list of replaced sockets: it goes by the
\* generations in the attachments of the sockets the runtime still lists.
OldSocketsInert ==
    [][\A d \in data :
          Superseded(d) /\ DataEvent(d) =>
              /\ Active' = Active
              /\ UNCHANGED <<streams, closed, durable>>
              /\ openData \ {d} \subseteq openData']_vars

\* Every open data socket is the one whose events count: no socket of a failed or
\* replaced connection and no replaced channel stays open, so getDataSocket always
\* sends on a socket whose loss fails the connection.
OpenSocketsCurrent == \A d \in openData : IsCurrent(d)

\* Once the object has restored its connection, an open public WebSocket has its
\* live stream: neither hibernation nor the end of a stream or of the connection
\* leaves a visitor on a socket nobody serves.
NoOrphanPublicSocket ==
    ~NeedsLoad => \A p \in openPublic :
        \E s \in streams : /\ s.conn = p.conn /\ s.id = p.id
                           /\ s.kind = "websocket" /\ s.phase = "open"

Stranded == /\ Active # NoConn /\ ~IsReady
            /\ ~alarm
            /\ ~\E d \in data \ openData : IsCurrent(d)
\* As long as no restart dropped the sockets silently, a connection that is not
\* ready has an alarm set or the close of one of its current sockets coming:
\* something is left that will drop it.
NotStranded == crashes = 0 => ~Stranded

\* The server notes say it for every case: unconnected tunnels expire by an alarm.
UnconnectedTunnelsExpire == ~Stranded

\* A connection that is not ready gets ready or is dropped, unless a restart dropped
\* its sockets without an event: its alarm, the closes of its sockets, those of older
\* sockets and connections and further connects race.
SettlesOrDrops ==
    \A c \in Conns : (Active = c /\ ~IsReady) ~> (Active # c \/ IsReady \/ crashes > 0)
============================================================================
