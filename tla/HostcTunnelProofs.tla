------------------------- MODULE HostcTunnelProofs -------------------------
(* Theorems about HostcTunnel for every set of client connections and every    *)
(* bound.                                                                      *)
EXTENDS HostcTunnel, TLAPS

(* The inductive invariant. Durable, restored and remembered state agree, so   *)
(* each conjunct is stated about stored, which no eviction touches.            *)

IssuedInv ==
    /\ stored.conn # NoConn => stored.conn \in used
    /\ \A i \in issued : /\ i[1] \in used
                         /\ i[1] = stored.conn => i[2] < stored.nextId

SocketInv ==
    /\ \A d \in data : d.gen <= gen
    /\ \A d \in openData : d.conn = stored.conn /\ IsLatest(d)

IInv == TypeOK /\ DurableRecord /\ StreamsOfActiveConnection /\ IssuedInv /\ SocketInv

-----------------------------------------------------------------------------
\* What a handler sees after loadConnectionState is what storage holds.
LEMMA Loaded ==
    ASSUME TypeOK, DurableRecord
    PROVE  /\ Active = stored.conn
           /\ Expected = stored.channels
           /\ NextId = stored.nextId
  BY NoConnAssumption DEF TypeOK, DurableRecord, Active, Expected, NextId, NeedsLoad, Record

\* Restoring keeps types and agreement.
LEMMA ResidentRecord ==
    ASSUME TypeOK, DurableRecord, Resident, stored' = stored
    PROVE  /\ active' \in Conns \cup {NoConn} /\ expected' \in 0..MaxChannels
           /\ nextStreamId' \in Nat
           /\ active' = stored.conn /\ expected' = stored.channels
           /\ nextStreamId' = stored.nextId
  BY Loaded DEF TypeOK, Resident, Record

\* A new object, with empty storage and no socket, satisfies the invariant.
LEMMA InitInv == Init => IInv
<1> SUFFICES ASSUME Init PROVE IInv
  OBVIOUS
<1>1. TypeOK
  <2>1. /\ active \in Conns \cup {NoConn} /\ expected \in 0..MaxChannels
        /\ nextStreamId \in Nat /\ nextChannel \in Nat
        /\ gen \in Nat /\ crashes \in Nat
    BY BoundsAssumption DEF Init
  <2>2. /\ streams \subseteq Stream /\ closed \subseteq Nat
        /\ data \subseteq DataSocket /\ openData \subseteq data
        /\ public \subseteq PublicSocket /\ openPublic \subseteq public
        /\ used \subseteq Conns
        /\ issued \subseteq Conns \X Nat
        /\ newest \in [Channel -> Nat]
    BY DEF Init
  <2>3. stored \in Record
    BY BoundsAssumption DEF Init, NoRecord, Record
  <2>4. alarm \in BOOLEAN
    BY DEF Init
  <2> QED
    BY <2>1, <2>2, <2>3, <2>4 DEF TypeOK
<1>2. DurableRecord
  BY DEF Init, DurableRecord, NoRecord
<1>3. StreamsOfActiveConnection /\ SocketInv
  BY DEF Init, StreamsOfActiveConnection, SocketInv
<1>4. IssuedInv
  BY DEF Init, IssuedInv, NoRecord
<1> QED
  BY <1>1, <1>2, <1>3, <1>4 DEF IInv

-----------------------------------------------------------------------------
(* Handlers that at most restore the connection, end streams and lose sockets. *)

\* Losing sockets does not disturb what is known of the open ones.
LEMMA FewerSockets ==
    ASSUME SocketInv, gen' = gen, stored'.conn = stored.conn,
           data' \subseteq data, openData' \subseteq openData
    PROVE  SocketInv'
<1>1. \A d \in openData' : IsLatest(d)'
  BY DEF SocketInv, IsLatest, Peers
<1> QED
  BY <1>1 DEF SocketInv

\* The streams that remain keep their connection, restored or not.
LEMMA FewerStreams ==
    ASSUME TypeOK, DurableRecord, StreamsOfActiveConnection,
           \/ Resident
           \/ UNCHANGED <<active, expected, nextStreamId>>,
           NEW S \in SUBSET streams,
           streams' = streams \ S, closed' = closed \cup Ids(S)
    PROVE  StreamsOfActiveConnection'
<1>1. streams # {} => UNCHANGED <<active, expected, nextStreamId>>
  <2>1. streams # {} => active # NoConn
    BY NoConnAssumption DEF TypeOK, StreamsOfActiveConnection, Stream
  <2> QED
    BY <2>1 DEF Resident, Active, Expected, NextId, NeedsLoad
<1>2. \A s \in streams' : s.id \notin closed'
  BY DEF StreamsOfActiveConnection, Ids
<1> QED
  BY <1>1, <1>2 DEF StreamsOfActiveConnection

\* Types and agreement with storage survive restoring as well as doing nothing.
LEMMA SameRecord ==
    ASSUME TypeOK, DurableRecord, stored' = stored,
           \/ Resident
           \/ UNCHANGED <<active, expected, nextStreamId>>
    PROVE  /\ DurableRecord'
           /\ active' \in Conns \cup {NoConn} /\ expected' \in 0..MaxChannels
           /\ nextStreamId' \in Nat
<1>1. CASE Resident
  BY <1>1, ResidentRecord DEF TypeOK, DurableRecord, Record
<1>2. CASE UNCHANGED <<active, expected, nextStreamId>>
  BY <1>2 DEF TypeOK, DurableRecord
<1> QED
  BY <1>1, <1>2

\* One lemma for the handlers that keep the connection.
LEMMA QuietInv ==
    ASSUME IInv,
           \/ Resident
           \/ UNCHANGED <<active, expected, nextStreamId>>,
           NEW S \in SUBSET streams,
           streams' = streams \ S, closed' = closed \cup Ids(S),
           data' \subseteq data, openData' \subseteq openData, openData' \subseteq data',
           public' \subseteq public, openPublic' \subseteq public',
           alarm' \in BOOLEAN,
           UNCHANGED <<nextChannel, gen, stored, history>>
    PROVE  IInv'
<1> USE DEF IInv, history
<1>1. DurableRecord' /\ StreamsOfActiveConnection' /\ SocketInv'
  BY SameRecord, FewerStreams, FewerSockets
<1>2. TypeOK'
  <2>1. closed' \subseteq Nat
    BY DEF TypeOK, Ids, Stream
  <2> QED
    BY <2>1, SameRecord DEF TypeOK
<1>3. IssuedInv'
  BY DEF IssuedInv
<1> QED
  BY <1>1, <1>2, <1>3

\* failClientConnection leaves no stream, no open socket and no record.
LEMMA FailInv ==
    ASSUME IInv, Active # NoConn, FailClientConnection,
           data' \subseteq data, openData \subseteq data', public' = public
    PROVE  IInv'
<1> USE DEF IInv, history
<1>1. openData' = {}
  BY Loaded DEF FailClientConnection, SocketInv, SocketsOf, TypeOK
<1>2. streams' = {} /\ closed' \subseteq Nat /\ openPublic' \subseteq public
  BY DEF FailClientConnection, CloseStreams, AllStreams, Ids, TypeOK, Stream, OpenPublic
<1>3. stored' = [conn |-> NoConn, channels |-> 0, nextId |-> 1]
  BY DEF FailClientConnection, RecordOfFailed, NoRecord
<1>4. TypeOK'
  <2>1. nextStreamId' \in Nat
    BY Loaded DEF FailClientConnection, TypeOK, Record
  <2>2. stored' \in Record
    BY <1>3, BoundsAssumption DEF Record
  <2>3. /\ active' \in Conns \cup {NoConn} /\ expected' \in 0..MaxChannels
        /\ nextChannel' \in Nat /\ gen' \in Nat /\ crashes' \in Nat
        /\ used' \subseteq Conns /\ issued' \subseteq Conns \X Nat
        /\ newest' \in [Channel -> Nat]
    BY BoundsAssumption DEF FailClientConnection, TypeOK
  <2>4. alarm' \in BOOLEAN
    BY DEF FailClientConnection
  <2>5. /\ data' \subseteq DataSocket /\ openData' \subseteq data'
        /\ public' \subseteq PublicSocket /\ openPublic' \subseteq public'
        /\ streams' \subseteq Stream
    BY <1>1, <1>2 DEF TypeOK
  <2> QED
    BY <1>2, <2>1, <2>2, <2>3, <2>4, <2>5 DEF TypeOK
<1>5. DurableRecord'
  BY <1>3 DEF DurableRecord, FailClientConnection
<1>6. StreamsOfActiveConnection'
  BY <1>2 DEF StreamsOfActiveConnection
<1>7. IssuedInv'
  BY <1>3, NoConnAssumption DEF IssuedInv, FailClientConnection, TypeOK
<1>8. SocketInv'
  BY <1>1 DEF SocketInv, FailClientConnection
<1> QED
  BY <1>4, <1>5, <1>6, <1>7, <1>8

-----------------------------------------------------------------------------
(* The handlers that change the record: initialisation, a new channel and a    *)
(* public request.                                                             *)

\* handleInit replaces whatever connection there is: no stream and no open socket
\* of the old one is left to disturb the new record.
LEMMA InitConnectionInv ==
    ASSUME IInv, NEW c \in Conns, NEW n \in 1..MaxChannels, InitConnection(c, n)
    PROVE  IInv'
<1> USE DEF IInv, InitConnection, ReplaceClientConnection, AllStreams, RecordOf
<1>1. openData' = {}
  BY Loaded DEF SocketInv, SocketsOf, TypeOK
<1>2. openPublic' \subseteq public
  BY DEF OpenPublic, TypeOK
<1>3. TypeOK'
  <2>1. stored' \in Record
    BY DEF Record
  <2>2. /\ active' \in Conns \cup {NoConn} /\ expected' \in 0..MaxChannels
        /\ nextStreamId' \in Nat /\ nextChannel' \in Nat
        /\ gen' \in Nat /\ crashes' \in Nat
        /\ used' \subseteq Conns /\ issued' \subseteq Conns \X Nat
        /\ newest' \in [Channel -> Nat]
    BY BoundsAssumption DEF TypeOK
  <2>3. alarm' \in BOOLEAN
    OBVIOUS
  <2> QED
    BY <1>1, <1>2, <2>1, <2>2, <2>3 DEF TypeOK
<1>4. DurableRecord'
  BY NoConnAssumption DEF DurableRecord
<1>5. StreamsOfActiveConnection' /\ SocketInv'
  BY <1>1 DEF StreamsOfActiveConnection, SocketInv
<1>6. IssuedInv'
  BY DEF IssuedInv
<1> QED
  BY <1>3, <1>4, <1>5, <1>6

\* handleChannelConnect gives the new socket the highest generation and closes
\* its predecessors, so the open sockets stay the latest ones.
LEMMA ConnectChannelInv ==
    ASSUME IInv, NEW ch \in Channel, ConnectChannel(ch)
    PROVE  IInv'
<1> USE DEF IInv, ConnectChannel, ReplacedBy
<1> DEFINE new == [conn |-> Active, ch |-> ch, gen |-> gen + 1]
<1>1. new \in DataSocket /\ gen + 1 \in Nat
  BY Loaded DEF TypeOK, Record, DataSocket
<1>2. DurableRecord' /\ StreamsOfActiveConnection'
  <2>1. streams' = streams \ {} /\ closed' = closed \cup Ids({})
    BY DEF Ids
  <2> QED
    BY <2>1, SameRecord, FewerStreams
<1>3. TypeOK'
  <2>1. alarm' \in BOOLEAN
    OBVIOUS
  <2>2. data' \subseteq DataSocket /\ openData' \subseteq data'
    BY <1>1 DEF TypeOK
  <2>3. openPublic' \subseteq public
    BY DEF OpenPublic, TypeOK
  <2>4. newest' \in [Channel -> Nat]
    BY <1>1 DEF TypeOK
  <2> QED
    BY <1>1, <2>1, <2>2, <2>3, <2>4, SameRecord DEF TypeOK
<1>4. IssuedInv'
  BY DEF IssuedInv
<1>5. SocketInv'
  <2>1. \A d \in data' : d.gen <= gen'
    BY DEF SocketInv, TypeOK, DataSocket
  <2>2. ASSUME NEW d \in openData' PROVE d.conn = stored'.conn /\ IsLatest(d)'
    <3>1. CASE d = new
      BY <2>1, <3>1, Loaded DEF IsLatest, Peers
    <3>2. CASE d # new
      <4>1. d \in openData /\ d \notin Peers(new)
        BY <3>2
      <4>2. new \notin Peers(d)'
        BY <4>1 DEF Peers, TypeOK
      <4>3. Peers(d)' \subseteq Peers(d)
        BY <4>2 DEF Peers
      <4> QED
        BY <4>1, <4>3 DEF SocketInv, IsLatest
    <3> QED
      BY <3>1, <3>2
  <2> QED
    BY <2>1, <2>2 DEF SocketInv
<1> QED
  BY <1>2, <1>3, <1>4, <1>5

\* createStream writes the next id to storage before the id is used by anyone, and
\* pins the stream to a channel of the active connection.
LEMMA PublicRequestInv ==
    ASSUME IInv, NEW kind \in Kind, PublicRequest(kind)
    PROVE  IInv'
<1> USE DEF IInv, PublicRequest, CreateStream, RecordOfNextStream
<1> DEFINE new == NextStream(kind)
<1>1. /\ Active \in Conns /\ Expected \in 1..MaxChannels /\ NextId \in Nat
      /\ active' = stored.conn /\ expected' = stored.channels
      /\ nextStreamId' = stored.nextId + 1
  BY Loaded DEF IsReady, TypeOK, Record
<1>2. nextChannel % Expected \in 0..(Expected - 1)
  BY <1>1 DEF TypeOK
<1>3. /\ new \in Stream /\ new.conn = Active /\ new.id = NextId
      /\ new.ch < Expected
  BY <1>1, <1>2, BoundsAssumption DEF NextStream, Stream, Channel
<1>4. streams # {} => /\ active = Active /\ expected = Expected
                      /\ nextStreamId = NextId
  BY NoConnAssumption DEF StreamsOfActiveConnection, TypeOK, Stream, Active, Expected, NextId, NeedsLoad
<1>5. stored' = [conn |-> stored.conn, channels |-> stored.channels,
                 nextId |-> stored.nextId + 1]
  BY Loaded DEF TypeOK, Record
<1>6. TypeOK'
  <2>1. streams' \subseteq Stream
    BY <1>3 DEF TypeOK
  <2>2. closed' \subseteq Nat /\ nextChannel' \in Nat
    BY DEF TypeOK
  <2>3. openPublic' \subseteq public
    BY DEF OpenPublic, TypeOK
  <2>4. stored' \in Record
    BY <1>5 DEF TypeOK, Record
  <2>5. issued' \subseteq Conns \X Nat
    BY <1>1 DEF TypeOK
  <2>6. /\ active' \in Conns \cup {NoConn} /\ expected' \in 0..MaxChannels
        /\ nextStreamId' \in Nat
    BY <1>1, BoundsAssumption DEF TypeOK, Record
  <2> QED
    BY <2>1, <2>2, <2>3, <2>4, <2>5, <2>6 DEF TypeOK
<1>7. DurableRecord'
  BY <1>1, <1>5, Loaded, NoConnAssumption DEF DurableRecord
<1>8. StreamsOfActiveConnection'
  <2>1. ASSUME NEW s \in streams'
        PROVE  /\ s.conn = active' /\ s.ch < expected'
               /\ s.id < nextStreamId' /\ s.id \notin closed'
    BY <1>1, <1>3, <1>4, Loaded DEF StreamsOfActiveConnection, TypeOK, Stream
  <2>2. \A s, t \in streams' : s.id = t.id => s = t
    BY <1>3 DEF StreamsOfActiveConnection
  <2> QED
    BY <2>1, <2>2 DEF StreamsOfActiveConnection
<1>9. IssuedInv'
  <2>1. ASSUME NEW i \in issued'
        PROVE  i[1] \in used' /\ (i[1] = stored'.conn => i[2] < stored'.nextId)
    <3>1. CASE i \in issued
      BY <1>1, <1>5, <3>1 DEF IssuedInv, TypeOK, Record
    <3>2. CASE i = <<Active, NextId>>
      BY <1>1, <1>5, <3>2, Loaded, NoConnAssumption DEF IssuedInv
    <3> QED
      BY <3>1, <3>2
  <2>2. stored'.conn # NoConn => stored'.conn \in used'
    BY <1>5 DEF IssuedInv
  <2> QED
    BY <2>1, <2>2 DEF IssuedInv
<1>10. SocketInv'
  BY <1>5 DEF SocketInv, IsLatest, Peers
<1> QED
  BY <1>6, <1>7, <1>8, <1>9, <1>10

\* RESPONSE_START changes the phase of one stream, and for a WebSocket adds its
\* public socket.
LEMMA ResponseStartInv ==
    ASSUME IInv, NEW d \in data, NEW s \in streams, ResponseStart(d, s)
    PROVE  IInv'
<1> USE DEF IInv, ResponseStart, history, durable
<1> DEFINE opened == [s EXCEPT !.phase = "open"]
<1>1. /\ opened \in Stream /\ opened.conn = s.conn /\ opened.id = s.id
      /\ opened.ch = s.ch /\ s.conn \in Conns /\ s.id \in Nat
  BY DEF TypeOK, Stream
<1>2. DurableRecord' /\ SocketInv'
  BY SameRecord, FewerSockets
<1>3. UNCHANGED <<active, expected, nextStreamId>>
  BY <1>1, NoConnAssumption
  DEF StreamsOfActiveConnection, Resident, Active, Expected, NextId, NeedsLoad
<1>4. TypeOK'
  <2>1. streams' \subseteq Stream
    BY <1>1 DEF TypeOK
  <2>2. public' \subseteq PublicSocket /\ openPublic' \subseteq public'
    BY <1>1 DEF TypeOK, PublicSocket, OpenPublic
  <2> QED
    BY <1>3, <2>1, <2>2 DEF TypeOK
<1>5. StreamsOfActiveConnection'
  <2>1. ASSUME NEW u \in streams'
        PROVE  /\ u.conn = active' /\ u.ch < expected'
               /\ u.id < nextStreamId' /\ u.id \notin closed'
    BY <1>1, <1>3 DEF StreamsOfActiveConnection
  <2>2. \A u \in streams' : u = opened \/ (u \in streams /\ u # s)
    OBVIOUS
  <2>3. \A u, v \in streams : u.id = v.id => u = v
    BY DEF StreamsOfActiveConnection
  <2>4. \A u \in streams' : u # opened => u.id # opened.id
    BY <1>1, <2>2, <2>3
  <2>5. \A u, v \in streams' : u.id = v.id => u = v
    BY <2>2, <2>3, <2>4
  <2> QED
    BY <2>1, <2>5 DEF StreamsOfActiveConnection
<1>6. IssuedInv'
  BY DEF IssuedInv
<1> QED
  BY <1>2, <1>4, <1>5, <1>6

\* Losing the memory of the object, and with it possibly its sockets, disturbs
\* nothing that is stated about storage.
LEMMA ForgetInv ==
    ASSUME IInv, Hibernate \/ Crash
    PROVE  IInv'
<1> USE DEF IInv, ForgetMemory, Hibernate, Crash, history, sockets, durable
<1>1. /\ UNCHANGED <<gen, stored, alarm, used, issued, newest>> /\ crashes' \in Nat
      /\ data' \subseteq data /\ openData' \subseteq openData
      /\ openData' \subseteq data'
      /\ public' \subseteq public /\ openPublic' \subseteq public'
      /\ streams' = {} /\ closed' = {} /\ active' = NoConn /\ expected' = 0
      /\ nextStreamId' = 1 /\ nextChannel' = 0
  BY DEF TypeOK
<1>2. TypeOK'
  BY <1>1, BoundsAssumption DEF TypeOK
<1>3. DurableRecord' /\ StreamsOfActiveConnection'
  BY <1>1 DEF DurableRecord, StreamsOfActiveConnection
<1>4. IssuedInv' /\ SocketInv'
  BY <1>1, FewerSockets DEF IssuedInv
<1> QED
  BY <1>2, <1>3, <1>4

-----------------------------------------------------------------------------
\* Every handler, timer, hibernation and restart preserves the invariant.
LEMMA NextInv == IInv /\ [Next]_vars => IInv'
<1> SUFFICES ASSUME IInv, [Next]_vars PROVE IInv'
  OBVIOUS
<1> USE DEF history, durable
<1>1. TypeOK /\ alarm \in BOOLEAN /\ OpenPublic \subseteq public
      /\ openPublic \subseteq public /\ openData \subseteq data
  BY DEF IInv, TypeOK, OpenPublic
<1>2. streams \ {} = streams /\ closed \cup Ids({}) = closed
  BY DEF Ids
<1>3. CASE WakeUp
  BY <1>1, <1>2, <1>3, QuietInv DEF WakeUp
<1>4. ASSUME NEW c \in Conns, NEW n \in 1..MaxChannels, InitConnection(c, n) PROVE IInv'
  BY <1>4, InitConnectionInv
<1>5. ASSUME NEW ch \in Channel, ConnectChannel(ch) PROVE IInv'
  BY <1>5, ConnectChannelInv
<1>6. ASSUME NEW kind \in Kind, PublicRequest(kind) PROVE IInv'
  BY <1>6, PublicRequestInv
<1>7. ASSUME NEW s \in streams, AbortStream(s) PROVE IInv'
  BY <1>1, <1>7, QuietInv DEF AbortStream, CloseStreams
<1>8. ASSUME NEW d \in data, DataEvent(d) PROVE IInv'
  <2>1. CASE OldSocketMessage(d)
    BY <1>1, <1>2, <2>1, QuietInv DEF OldSocketMessage
  <2>2. CASE ProtocolError(d) \/ \E id \in 1..MaxStreamId : UnknownStreamFrame(d, id)
    BY <1>1, <2>2, FailInv DEF ProtocolError, UnknownStreamFrame, IsCurrent
  <2>3. ASSUME NEW s \in streams, ResponseStart(d, s) PROVE IInv'
    BY <2>3, ResponseStartInv
  <2>4. ASSUME NEW s \in streams, ResponseFinished(d, s) PROVE IInv'
    BY <1>1, <2>4, QuietInv DEF ResponseFinished, CloseStreams
  <2>5. CASE DataSocketClosing(d)
    BY <1>1, <1>2, <2>5, QuietInv DEF DataSocketClosing, memory, IInv, TypeOK
  <2>6. CASE DataSocketClose(d)
    <3>1. data' \subseteq data /\ openData \subseteq data' /\ public' = public
      BY <1>1, <2>6 DEF DataSocketClose
    <3>2. CASE IsCurrent(d)
      BY <2>6, <3>1, <3>2, FailInv DEF DataSocketClose, IsCurrent
    <3>3. CASE ~IsCurrent(d)
      BY <1>1, <1>2, <2>6, <3>1, <3>3, QuietInv DEF DataSocketClose
    <3> QED
      BY <3>2, <3>3
  <2> QED
    BY <1>8, <2>1, <2>2, <2>3, <2>4, <2>5, <2>6 DEF DataEvent
<1>9. ASSUME NEW p \in public, PublicEvent(p) PROVE IInv'
  <2>1. EndableStreams(p) \in SUBSET streams
    BY DEF EndableStreams, StreamOf
  <2>2. CASE PublicMessageTooBig(p)
    BY <1>1, <2>1, <2>2, QuietInv DEF PublicMessageTooBig
  <2>3. CASE PublicMessageSendFails(p)
    <3>1. Active # NoConn
      BY <2>3, <1>1, NoConnAssumption DEF PublicMessageSendFails, HasDataSocket, TypeOK, DataSocket
    <3> QED
      BY <1>1, <2>3, <3>1, FailInv DEF PublicMessageSendFails
  <2>4. CASE PublicSocketClosing(p)
    BY <1>1, <1>2, <2>4, QuietInv DEF PublicSocketClosing, memory, IInv, TypeOK
  <2>5. CASE PublicSocketClose(p)
    BY <1>1, <2>1, <2>5, QuietInv DEF PublicSocketClose, OpenPublic, IInv, TypeOK
  <2>6. CASE PublicSocketError(p)
    BY <1>1, <1>2, <2>6, QuietInv DEF PublicSocketError
  <2> QED
    BY <1>9, <2>2, <2>3, <2>4, <2>5, <2>6 DEF PublicEvent
<1>10. CASE Alarm
  <2>1. CASE AlarmFails
    BY <1>1, <1>10, <2>1, FailInv DEF Alarm, AlarmFails
  <2>2. CASE ~AlarmFails
    BY <1>1, <1>2, <1>10, <2>2, QuietInv DEF Alarm
  <2> QED
    BY <2>1, <2>2
<1>11. CASE Hibernate \/ Crash
  BY <1>11, ForgetInv
<1>12. CASE UNCHANGED vars
  BY <1>1, <1>2, <1>12, QuietInv DEF vars, memory, sockets
<1> QED
  BY <1>3, <1>4, <1>5, <1>6, <1>7, <1>8, <1>9, <1>10, <1>11, <1>12 DEF Next

-----------------------------------------------------------------------------
(* The theorems.                                                              *)

\* The inductive invariant holds of every behaviour of the object.
THEOREM Invariance == Spec => []IInv
<1>1. Init => IInv
  BY InitInv
<1>2. IInv /\ [Next]_vars => IInv'
  BY NextInv
<1> QED
  BY <1>1, <1>2, PTL DEF Spec

\* Type correctness, for the fields of HostcTunnel, its sockets and its storage.
THEOREM TypeCorrect == Spec => []TypeOK
<1>1. IInv => TypeOK
  BY DEF IInv
<1> QED
  BY <1>1, Invariance, PTL

\* Storage agrees with memory between any two events, so that loadConnectionState
\* after an eviction restores exactly the connection that was evicted.
THEOREM RecordIsDurable == Spec => []DurableRecord
<1>1. IInv => DurableRecord
  BY DEF IInv
<1> QED
  BY <1>1, Invariance, PTL

\* createStream, cleanupStream, replacement, failure and eviction together keep
\* every live stream on a channel of the active connection, under its own id.
THEOREM StreamsBelong == Spec => []StreamsOfActiveConnection
<1>1. IInv => StreamsOfActiveConnection
  BY DEF IInv
<1> QED
  BY <1>1, Invariance, PTL

\* handleDataChannelMessage never takes a stream it issued to the active client
\* for an unknown one: the id is below nextStreamId whether or not the tombstone
\* set still holds it.
THEOREM NoIssuedStreamUnknown == Spec => []IssuedStreamsKnown
<1>1. IInv => IssuedStreamsKnown
  BY Loaded DEF IInv, IssuedInv, IssuedStreamsKnown, KnownStreamId
<1> QED
  BY <1>1, Invariance, PTL

\* getDataSocket only ever finds a socket whose close event counts.
THEOREM SendsOnCurrentSocket == Spec => []OpenSocketsCurrent
<1>1. IInv => OpenSocketsCurrent
  BY Loaded, NoConnAssumption
  DEF IInv, SocketInv, OpenSocketsCurrent, IsCurrent, TypeOK, DataSocket
<1> QED
  BY <1>1, Invariance, PTL

\* Streams that stay, also under a changed phase, are found again by their id; the
\* only new one comes from createStream under an id never handed out before.
LEMMA NewStreamIsFresh ==
    ASSUME IInv, [Next]_vars,
           NEW s \in streams', \A t \in streams : ~(t.conn = s.conn /\ t.id = s.id)
    PROVE  <<s.conn, s.id>> \notin issued
<1>1. s \notin streams
  OBVIOUS
<1>2. \E kind \in Kind : PublicRequest(kind)
  <2>1. CASE \E u \in streams, d \in data : ResponseStart(d, u)
    <3>1. PICK u \in streams, d \in data : ResponseStart(d, u)
      BY <2>1
    <3>2. s = [u EXCEPT !.phase = "open"]
      BY <1>1, <3>1 DEF ResponseStart
    <3>3. s.conn = u.conn /\ s.id = u.id
      BY <3>2 DEF IInv, TypeOK, Stream
    <3> QED
      BY <3>3
  <2>2. CASE UNCHANGED vars
    BY <1>1, <2>2 DEF vars, memory
  <2>3. ASSUME NEW d \in data, DataEvent(d),
               ~\E u \in streams : ResponseStart(d, u)
        PROVE  FALSE
    BY <1>1, <2>3
    DEF DataEvent, OldSocketMessage, ProtocolError, UnknownStreamFrame, ResponseFinished,
        DataSocketClosing, DataSocketClose, FailClientConnection, CloseStreams, memory
  <2>4. ASSUME NEW p \in public, PublicEvent(p) PROVE FALSE
    BY <1>1, <2>4
    DEF PublicEvent, PublicMessageTooBig, PublicMessageSendFails, PublicSocketClosing,
        PublicSocketClose, PublicSocketError, FailClientConnection, CloseStreams, memory
  <2>5. CASE WakeUp \/ Alarm \/ Hibernate \/ Crash
    BY <1>1, <2>5
    DEF WakeUp, Alarm, Hibernate, Crash, ForgetMemory, FailClientConnection, CloseStreams
  <2>6. ASSUME NEW c \in Conns, NEW n \in 1..MaxChannels, InitConnection(c, n) PROVE FALSE
    BY <2>6 DEF InitConnection, ReplaceClientConnection, AllStreams
  <2>7. ASSUME NEW ch \in Channel, ConnectChannel(ch) PROVE FALSE
    BY <1>1, <2>7 DEF ConnectChannel
  <2>8. ASSUME NEW u \in streams, AbortStream(u) PROVE FALSE
    BY <1>1, <2>8 DEF AbortStream, CloseStreams
  <2> QED
    BY <2>1, <2>2, <2>3, <2>4, <2>5, <2>6, <2>7, <2>8 DEF Next
<1>3. s.conn = Active /\ s.id = NextId
  BY <1>1, <1>2 DEF PublicRequest, CreateStream, NextStream
<1> QED
  BY <1>3, Loaded DEF IInv, IssuedInv, TypeOK, Record

\* A stream id is used once within a client connection, whatever evictions and
\* restarts happen between two public requests.
THEOREM StreamIdsFresh == Spec => NoStreamIdReuse
<1>1. IInv /\ [Next]_vars =>
        [\A s \in streams' :
            \/ \E t \in streams : t.conn = s.conn /\ t.id = s.id
            \/ <<s.conn, s.id>> \notin issued]_vars
  BY NewStreamIsFresh
<1> QED
  BY <1>1, Invariance, PTL DEF Spec, NoStreamIdReuse

-----------------------------------------------------------------------------
(* Public sockets and their streams.                                          *)

LiveStream(s, p) == /\ s.conn = p.conn /\ s.id = p.id
                    /\ s.kind = "websocket" /\ s.phase = "open"

\* What a handler that restored the connection may call open has its stream.
LEMMA OpenIsLive ==
    ASSUME IInv, NoOrphanPublicSocket, NEW p \in OpenPublic
    PROVE  p \in public /\ \E s \in streams : LiveStream(s, p)
<1>1. NeedsLoad => streams = {}
  BY NoConnAssumption DEF IInv, TypeOK, StreamsOfActiveConnection, Stream, NeedsLoad
<1> QED
  BY <1>1 DEF OpenPublic, NoOrphanPublicSocket, LiveStream, IInv, TypeOK

\* Closing streams closes their public sockets with them.
LEMMA ClosedTogether ==
    ASSUME IInv, NoOrphanPublicSocket, NEW S \in SUBSET streams, NEW R \in SUBSET S,
           streams' = streams \ R, openPublic' \subseteq OpenPublic \ SocketsOfStreams(R)
    PROVE  NoOrphanPublicSocket'
<1>1. ASSUME NEW p \in openPublic' PROVE \E s \in streams' : LiveStream(s, p)
  <2>1. PICK s \in streams : LiveStream(s, p)
    BY OpenIsLive
  <2>2. s \notin R
    BY <2>1, OpenIsLive DEF SocketsOfStreams, LiveStream
  <2> QED
    BY <2>1, <2>2
<1> QED
  BY <1>1 DEF NoOrphanPublicSocket, LiveStream

\* A failed or forgotten connection leaves nothing to orphan: whoever restores the
\* next one closes the public sockets first.
LEMMA NothingActive ==
    ASSUME active' = NoConn, expected' = 0
    PROVE  NoOrphanPublicSocket'
  BY DEF NoOrphanPublicSocket, NeedsLoad

\* Every handler, timer, hibernation and restart keeps the public sockets served.
LEMMA NextOrphan == IInv /\ NoOrphanPublicSocket /\ [Next]_vars => NoOrphanPublicSocket'
<1> SUFFICES ASSUME IInv, NoOrphanPublicSocket, [Next]_vars PROVE NoOrphanPublicSocket'
  OBVIOUS
<1> USE DEF history, durable
<1>1. {} \in SUBSET streams /\ streams \ {} = streams /\ SocketsOfStreams({}) = {}
  BY DEF SocketsOfStreams
<1>2. CASE WakeUp \/ \E ch \in Channel : ConnectChannel(ch)
  BY <1>1, <1>2, ClosedTogether DEF WakeUp, ConnectChannel
<1>3. ASSUME NEW c \in Conns, NEW n \in 1..MaxChannels, InitConnection(c, n)
      PROVE  NoOrphanPublicSocket'
  BY <1>3, <1>1, ClosedTogether DEF InitConnection, ReplaceClientConnection, AllStreams
<1>4. ASSUME NEW kind \in Kind, PublicRequest(kind) PROVE NoOrphanPublicSocket'
  <2>1. ASSUME NEW p \in openPublic' PROVE \E s \in streams' : LiveStream(s, p)
    <3>1. PICK s \in streams : LiveStream(s, p)
      BY <1>4, OpenIsLive DEF PublicRequest
    <3>2. s.id # NextId
      <4>1. active # NoConn
        BY NoConnAssumption DEF IInv, TypeOK, StreamsOfActiveConnection, Stream
      <4> QED
        BY <4>1 DEF IInv, TypeOK, StreamsOfActiveConnection, Stream, NextId, NeedsLoad
    <3> QED
      BY <1>4, <3>1, <3>2 DEF PublicRequest, CreateStream
  <2> QED
    BY <2>1 DEF NoOrphanPublicSocket, LiveStream
<1>5. ASSUME NEW s \in streams, AbortStream(s) PROVE NoOrphanPublicSocket'
  BY <1>5, ClosedTogether DEF AbortStream, CloseStreams
<1>6. CASE \E d \in data : DataEvent(d)
  <2> PICK d \in data : DataEvent(d)
    BY <1>6
  <2>1. CASE OldSocketMessage(d) \/ (DataSocketClose(d) /\ ~IsCurrent(d))
    BY <1>1, <2>1, ClosedTogether DEF OldSocketMessage, DataSocketClose
  <2>2. CASE \/ ProtocolError(d) \/ (DataSocketClose(d) /\ IsCurrent(d))
             \/ \E id \in 1..MaxStreamId : UnknownStreamFrame(d, id)
    BY <2>2, NothingActive
    DEF ProtocolError, UnknownStreamFrame, DataSocketClose, FailClientConnection
  <2>3. ASSUME NEW s \in streams, ResponseStart(d, s) PROVE NoOrphanPublicSocket'
    <3> DEFINE opened == [s EXCEPT !.phase = "open"]
    <3>1. /\ opened \in streams' /\ opened.conn = s.conn /\ opened.id = s.id
          /\ opened.kind = s.kind /\ opened.phase = "open"
      BY <2>3 DEF ResponseStart, IInv, TypeOK, Stream
    <3>2. ASSUME NEW p \in openPublic' PROVE \E u \in streams' : LiveStream(u, p)
      <4>1. CASE p \in OpenPublic
        <5>1. PICK u \in streams : LiveStream(u, p)
          BY <4>1, OpenIsLive
        <5>2. u # s
          BY <2>3, <5>1 DEF ResponseStart, LiveStream
        <5> QED
          BY <2>3, <5>1, <5>2 DEF ResponseStart
      <4>2. CASE p \notin OpenPublic
        <5>1. s.kind = "websocket" /\ p.conn = s.conn /\ p.id = s.id
          BY <2>3, <4>2 DEF ResponseStart
        <5> QED
          BY <3>1, <5>1 DEF LiveStream
      <4> QED
        BY <4>1, <4>2
    <3> QED
      BY <3>2 DEF NoOrphanPublicSocket, LiveStream
  <2>4. ASSUME NEW s \in streams, ResponseFinished(d, s) PROVE NoOrphanPublicSocket'
    BY <2>4, ClosedTogether DEF ResponseFinished, CloseStreams
  <2>5. CASE DataSocketClosing(d)
    BY <2>5 DEF DataSocketClosing, memory, NoOrphanPublicSocket, NeedsLoad
  <2> QED
    BY <2>1, <2>2, <2>3, <2>4, <2>5 DEF DataEvent
<1>7. CASE \E p \in public : PublicEvent(p)
  <2> PICK p \in public : PublicEvent(p)
    BY <1>7
  <2> DEFINE R == EndableStreams(p)
  <2>1. /\ R \in SUBSET streams
        /\ SocketsOfStreams(R) \subseteq SocketsOfStreams(StreamOf(p))
    BY DEF EndableStreams, StreamOf, SocketsOfStreams
  <2>2. CASE PublicMessageTooBig(p) \/ PublicSocketClose(p)
    <3>1. /\ streams' = streams \ R
          /\ openPublic' \subseteq OpenPublic \ SocketsOfStreams(R)
      BY <2>1, <2>2 DEF PublicMessageTooBig, PublicSocketClose
    <3> QED
      BY <2>1, <3>1, ClosedTogether
  <2>3. CASE PublicMessageSendFails(p)
    BY <2>3, NothingActive DEF PublicMessageSendFails, FailClientConnection
  <2>4. CASE PublicSocketClosing(p)
    BY <2>4 DEF PublicSocketClosing, memory, NoOrphanPublicSocket, NeedsLoad
  <2>5. CASE PublicSocketError(p)
    BY <1>1, <2>5, ClosedTogether DEF PublicSocketError
  <2> QED
    BY <2>2, <2>3, <2>4, <2>5 DEF PublicEvent
<1>8. CASE Alarm
  <2>1. CASE AlarmFails
    BY <1>8, <2>1, NothingActive DEF Alarm, FailClientConnection
  <2>2. CASE ~AlarmFails
    BY <1>1, <1>8, <2>2, ClosedTogether DEF Alarm
  <2> QED
    BY <2>1, <2>2
<1>9. CASE Hibernate \/ Crash
  BY <1>9, NothingActive DEF Hibernate, Crash, ForgetMemory
<1>10. CASE UNCHANGED vars
  BY <1>10 DEF vars, memory, sockets, NoOrphanPublicSocket, NeedsLoad
<1> QED
  BY <1>2, <1>3, <1>4, <1>5, <1>6, <1>7, <1>8, <1>9, <1>10 DEF Next

\* No visitor is left on an open public WebSocket that nobody serves: neither the end
\* of a stream or connection nor an eviction (closeUnrecoverablePublicSockets).
THEOREM NobodyOrphaned == Spec => []NoOrphanPublicSocket
<1>1. Init => NoOrphanPublicSocket
  BY DEF Init, NoOrphanPublicSocket
<1> QED
  BY <1>1, NextOrphan, Invariance, PTL DEF Spec

-----------------------------------------------------------------------------
(* What is left to drop a connection that is not ready.                       *)

\* d is the latest socket of its channel in the connection that storage holds.
Standing(d) == d.conn = stored.conn /\ IsLatest(d)

\* The socket a channel of the stored connection got last is still listed whenever
\* an older one is: its own loss would have failed the connection.
NewestInv ==
    \A d \in data : d.conn = stored.conn =>
        /\ d.gen <= newest[d.ch]
        /\ \E e \in Peers(d) : e.gen = newest[d.ch]

\* Sockets belong to initialised connections and to channels of theirs. Without an
\* alarm every channel has a latest socket, open or with its close still to come.
AlarmInv ==
    /\ NewestInv
    /\ stored.conn # NoConn => stored.channels >= 1
    /\ \A d \in data : /\ d.conn \in used
                       /\ d.conn = stored.conn => d.ch < stored.channels
    /\ crashes = 0 /\ stored.conn # NoConn /\ ~alarm =>
           \A ch \in 0..(stored.channels - 1) : \E d \in data : d.ch = ch /\ Standing(d)

\* What IsReady says in terms of storage.
LEMMA ReadyByStorage ==
    ASSUME IInv, AlarmInv
    PROVE  IsReady <=> /\ stored.conn # NoConn
                       /\ \A ch \in 0..(stored.channels - 1) : \E d \in openData : d.ch = ch
<1>1. /\ Active = stored.conn /\ Expected = stored.channels /\ stored.channels \in Nat
      /\ \A d \in openData : d \in data /\ d.conn = stored.conn /\ d.ch \in Nat
  BY Loaded, BoundsAssumption DEF IInv, TypeOK, SocketInv, Record, DataSocket, Channel
<1>2. \A d \in openData : d.ch \in 0..(stored.channels - 1)
  BY <1>1 DEF AlarmInv
<1>3. {d.ch : d \in {e \in openData : e.conn = Active}} = {d.ch : d \in openData}
  BY <1>1
<1> QED
  BY <1>1, <1>2, <1>3 DEF IsReady, AlarmInv

\* A connection that is not ready, without an alarm, has a close to come.
LEMMA CloseToCome == IInv /\ AlarmInv => NotStranded
<1> SUFFICES ASSUME IInv, AlarmInv, crashes = 0, Stranded PROVE FALSE
  BY DEF NotStranded
<1>1. Active = stored.conn /\ stored.conn # NoConn /\ ~alarm
  BY Loaded DEF IInv, Stranded
<1>2. PICK ch \in 0..(stored.channels - 1) : \A d \in openData : d.ch # ch
  BY <1>1, ReadyByStorage DEF Stranded
<1>3. PICK d \in data : d.ch = ch /\ Standing(d)
  BY <1>1 DEF AlarmInv
<1> QED
  BY <1>1, <1>2, <1>3 DEF Stranded, IsCurrent, Standing

\* Handlers that at most lose sockets which do not count.
LEMMA QuietAlarm ==
    ASSUME IInv, AlarmInv, UNCHANGED <<stored, used, newest, crashes>>,
           data' \subseteq data, \A d \in data \ data' : ~Standing(d),
           \/ alarm' = alarm
           \/ \A ch \in 0..(stored.channels - 1) : \E d \in data : d.ch = ch /\ Standing(d)
    PROVE  AlarmInv'
<1>1. \A d \in data : Standing(d) => d \in data' /\ Standing(d)'
  BY DEF Standing, IsLatest, Peers
<1>2. NewestInv'
  <2>1. ASSUME NEW d \in data', d.conn = stored'.conn
        PROVE  d.gen <= newest'[d.ch] /\ \E e \in Peers(d)' : e.gen = newest'[d.ch]
    <3>1. /\ d \in data /\ d.conn = stored.conn /\ d.gen <= newest[d.ch]
          /\ newest' = newest
      BY <2>1 DEF AlarmInv, NewestInv
    <3>2. PICK e \in Peers(d) : e.gen = newest[d.ch]
      BY <3>1 DEF AlarmInv, NewestInv
    <3>3. e \in data /\ e.conn = d.conn /\ e.ch = d.ch
      BY DEF Peers
    <3>4. Standing(e)
      BY <3>1, <3>2, <3>3 DEF Standing, IsLatest, Peers, AlarmInv, NewestInv
    <3>5. e \in Peers(d)'
      BY <1>1, <3>3, <3>4 DEF Peers
    <3> QED
      BY <3>1, <3>2, <3>5
  <2> QED
    BY <2>1 DEF NewestInv
<1> QED
  BY <1>1, <1>2 DEF AlarmInv

\* Without a connection there is nothing to drop.
LEMMA FailAlarm ==
    ASSUME IInv, AlarmInv, data' \subseteq data, stored' = NoRecord, UNCHANGED used
    PROVE  AlarmInv'
<1>1. stored'.conn = NoConn
  BY DEF NoRecord
<1>2. \A d \in data' : d.conn # NoConn /\ d.conn \in used'
  BY NoConnAssumption DEF IInv, TypeOK, DataSocket, AlarmInv
<1> QED
  BY <1>1, <1>2 DEF AlarmInv, NewestInv

\* An alarm is set with the connection.
LEMMA InitConnectionAlarm ==
    ASSUME IInv, AlarmInv, NEW c \in Conns, NEW n \in 1..MaxChannels, InitConnection(c, n)
    PROVE  AlarmInv'
<1>1. stored' = [conn |-> c, channels |-> n, nextId |-> 1] /\ alarm' /\ data' = data
  BY DEF InitConnection, ReplaceClientConnection, RecordOf
<1>2. \A d \in data : d.conn # c
  BY DEF AlarmInv, InitConnection
<1>3. \A d \in data' : d.conn \in used'
  BY <1>1 DEF AlarmInv, InitConnection
<1>4. stored'.conn = c /\ stored'.channels = n /\ n >= 1
  BY <1>1, BoundsAssumption
<1> QED
  BY <1>1, <1>2, <1>3, <1>4 DEF AlarmInv, NewestInv

\* The socket that completes the connection disarms the alarm: then all channels have
\* an open one. A socket that takes a channel over stands for it.
LEMMA ConnectChannelAlarm ==
    ASSUME IInv, IInv', AlarmInv, NEW ch \in Channel, ConnectChannel(ch)
    PROVE  AlarmInv'
<1>0. PICK new : new = [conn |-> Active, ch |-> ch, gen |-> gen + 1]
  OBVIOUS
<1>1. /\ Active = stored.conn /\ Expected = stored.channels /\ stored' = stored
      /\ new \in data' /\ new.ch = ch /\ ch < stored.channels /\ used' = used
      /\ data' = data \cup {new} /\ stored.conn # NoConn /\ crashes' = crashes
      /\ new.conn = stored.conn /\ new.gen = gen + 1
      /\ newest' = [newest EXCEPT ![ch] = new.gen]
  BY <1>0, Loaded DEF IInv, TypeOK, Record, ConnectChannel, history
<1>2. \A d \in data' : d.conn \in used' /\ (d.conn = stored'.conn => d.ch < stored'.channels)
  BY <1>1 DEF AlarmInv, IInv, IssuedInv
<1>3. stored'.conn # NoConn => stored'.channels >= 1
  BY <1>1 DEF AlarmInv
<1>4. new.gen > gen /\ \A d \in data : d.gen <= gen /\ d.gen \in Nat
  BY <1>1 DEF IInv, TypeOK, SocketInv, DataSocket
<1>5. Standing(new)'
  <2>1. \A d \in data' : d.gen <= new.gen
    BY <1>1, <1>4 DEF IInv, TypeOK
  <2> QED
    BY <1>1, <2>1 DEF Standing, IsLatest, Peers
<1>6. ASSUME NEW d \in data, d.ch # ch, Standing(d) PROVE Standing(d)'
  BY <1>1, <1>6 DEF Standing, IsLatest, Peers
<1>7. ASSUME crashes' = 0, ~alarm', NEW k \in 0..(stored'.channels - 1)
      PROVE  \E d \in data' : d.ch = k /\ Standing(d)'
  <2>1. CASE alarm
    <3>1. IsReady'
      BY <1>7, <2>1 DEF ConnectChannel
    <3>2. PICK d \in openData' : d.ch = k
      <4>1. /\ Active' = stored'.conn /\ Expected' = stored'.channels
        BY <1>1, Loaded, NoConnAssumption
        DEF IInv, TypeOK, DurableRecord, Active, Expected, NeedsLoad, Record
      <4>2. k \in {d.ch : d \in {e \in openData' : e.conn = Active'}}
        BY <1>7, <3>1, <4>1 DEF IsReady
      <4> QED
        BY <4>2
    <3>3. d \in data' /\ d.conn = stored'.conn /\ IsLatest(d)'
      BY DEF IInv, TypeOK, SocketInv
    <3> QED
      BY <3>2, <3>3 DEF Standing
  <2>2. CASE ~alarm
    <3>1. CASE k = ch
      BY <1>1, <1>5, <3>1
    <3>2. CASE k # ch
      <4>1. PICK d \in data : d.ch = k /\ Standing(d)
        BY <1>1, <1>7, <2>2 DEF AlarmInv
      <4> QED
        BY <1>1, <1>6, <3>2, <4>1
    <3> QED
      BY <3>1, <3>2
  <2> QED
    BY <2>1, <2>2
<1>8. NewestInv'
  <2>1. ASSUME NEW d \in data', d.conn = stored'.conn
        PROVE  d.gen <= newest'[d.ch] /\ \E e \in Peers(d)' : e.gen = newest'[d.ch]
    <3>1. newest \in [Channel -> Nat] /\ d.ch \in Channel /\ d.gen \in Nat /\ gen \in Nat
      <4>1. TypeOK /\ TypeOK'
        BY DEF IInv
      <4> QED
        BY <4>1 DEF TypeOK, DataSocket
    <3>2. CASE d.ch = ch
      <4>1. newest'[d.ch] = new.gen /\ d.gen <= new.gen
        BY <1>1, <1>4, <3>1, <3>2
      <4>2. new \in Peers(d)'
        BY <1>1, <2>1, <3>2 DEF Peers
      <4> QED
        BY <4>1, <4>2
    <3>3. CASE d.ch # ch
      <4>1. d \in data /\ d.conn = stored.conn /\ newest'[d.ch] = newest[d.ch]
        BY <1>1, <2>1, <3>1, <3>3
      <4>2. PICK e \in Peers(d) : e.gen = newest[d.ch]
        BY <4>1 DEF AlarmInv, NewestInv
      <4>3. e \in Peers(d)' /\ d.gen <= newest[d.ch]
        BY <1>1, <4>1 DEF Peers, AlarmInv, NewestInv
      <4> QED
        BY <4>1, <4>2, <4>3
    <3> QED
      BY <3>2, <3>3
  <2> QED
    BY <2>1 DEF NewestInv
<1> QED
  BY <1>2, <1>3, <1>7, <1>8 DEF AlarmInv

\* alarm() on a ready connection finds an open socket on every channel.
LEMMA ReadyStands ==
    ASSUME IInv, AlarmInv, IsReady, NEW ch \in 0..(stored.channels - 1)
    PROVE  \E d \in data : d.ch = ch /\ Standing(d)
  BY ReadyByStorage DEF IInv, TypeOK, SocketInv, Standing

\* Every step keeps `AlarmInv`, the storage's side of the alarm.
LEMMA NextAlarm == IInv /\ IInv' /\ AlarmInv /\ [Next]_vars => AlarmInv'
<1> SUFFICES ASSUME IInv, IInv', AlarmInv, [Next]_vars PROVE AlarmInv'
  OBVIOUS
<1> USE DEF history, durable
<1>1. ASSUME NEW c \in Conns, NEW n \in 1..MaxChannels, InitConnection(c, n) PROVE AlarmInv'
  BY <1>1, InitConnectionAlarm
<1>2. ASSUME NEW ch \in Channel, ConnectChannel(ch) PROVE AlarmInv'
  BY <1>2, ConnectChannelAlarm
<1>3. ASSUME NEW kind \in Kind, PublicRequest(kind) PROVE AlarmInv'
  <2>1. /\ stored'.conn = stored.conn /\ stored'.channels = stored.channels
        /\ UNCHANGED <<data, alarm, used, newest, crashes>>
    BY <1>3 DEF PublicRequest, CreateStream, RecordOfNextStream, IInv, TypeOK, Record
  <2>2. \A d \in data : Standing(d)' <=> Standing(d)
    BY <2>1 DEF Standing, IsLatest, Peers
  <2> QED
    BY <2>1, <2>2 DEF AlarmInv, NewestInv, Peers
<1>4. CASE WakeUp \/ (\E s \in streams : AbortStream(s)) \/ UNCHANGED vars \/ Hibernate
  BY <1>4, QuietAlarm DEF WakeUp, AbortStream, vars, sockets, Hibernate
<1>5. CASE \E d \in data : DataEvent(d)
  <2> PICK d \in data : DataEvent(d)
    BY <1>5
  <2>1. CASE \/ OldSocketMessage(d) \/ DataSocketClosing(d)
             \/ \E s \in streams : ResponseStart(d, s) \/ ResponseFinished(d, s)
    BY <2>1, QuietAlarm DEF OldSocketMessage, DataSocketClosing, ResponseStart, ResponseFinished
  <2>2. CASE DataSocketClose(d) /\ ~IsCurrent(d)
    <3>1. ~Standing(d) \/ stored.conn = NoConn
      BY <2>2, Loaded DEF IInv, IsCurrent, Standing
    <3>2. /\ UNCHANGED <<stored, used, newest, crashes, alarm>> /\ data' = data \ {d}
      BY <2>2 DEF DataSocketClose
    <3>3. ~Standing(d)
      BY <3>1, NoConnAssumption DEF Standing, IInv, TypeOK, DataSocket
    <3> QED
      BY <3>2, <3>3, QuietAlarm
  <2>3. CASE \/ ProtocolError(d) \/ (DataSocketClose(d) /\ IsCurrent(d))
             \/ \E id \in 1..MaxStreamId : UnknownStreamFrame(d, id)
    BY <2>3, FailAlarm
    DEF ProtocolError, UnknownStreamFrame, DataSocketClose,
        FailClientConnection, RecordOfFailed
  <2> QED
    BY <2>1, <2>2, <2>3 DEF DataEvent
<1>6. CASE \E p \in public : PublicEvent(p)
  <2> PICK p \in public : PublicEvent(p)
    BY <1>6
  <2>1. CASE PublicMessageSendFails(p)
    BY <2>1, FailAlarm DEF PublicMessageSendFails, FailClientConnection, RecordOfFailed
  <2>2. CASE \/ PublicMessageTooBig(p) \/ PublicSocketClosing(p)
             \/ PublicSocketClose(p) \/ PublicSocketError(p)
    BY <2>2, QuietAlarm
    DEF PublicMessageTooBig, PublicSocketClosing, PublicSocketClose, PublicSocketError
  <2> QED
    BY <2>1, <2>2 DEF PublicEvent
<1>7. CASE Alarm
  <2>1. CASE AlarmFails
    BY <1>7, <2>1, FailAlarm DEF Alarm, FailClientConnection, RecordOfFailed
  <2>2. CASE ~AlarmFails /\ IsReady
    BY <1>7, <2>2, ReadyStands, QuietAlarm DEF Alarm
  <2>3. CASE ~AlarmFails /\ ~IsReady
    <3>1. stored.conn = NoConn /\ stored' = stored /\ data' = data /\ used' = used
      BY <1>7, <2>3, Loaded DEF Alarm, AlarmFails, IInv
    <3>2. \A d \in data : d.conn # NoConn
      BY NoConnAssumption DEF IInv, TypeOK, DataSocket
    <3> QED
      BY <3>1, <3>2 DEF AlarmInv, NewestInv
  <2> QED
    BY <2>1, <2>2, <2>3
<1>8. CASE Crash
  <2>1. crashes' # 0 /\ data' = {} /\ stored' = stored
    BY <1>8 DEF Crash, IInv, TypeOK
  <2> QED
    BY <2>1 DEF AlarmInv, NewestInv
<1> QED
  BY <1>1, <1>2, <1>3, <1>4, <1>5, <1>6, <1>7, <1>8 DEF Next

\* `AlarmInv` holds of every behaviour.
LEMMA AlarmKept == Spec => []AlarmInv
<1>1. Init => AlarmInv
  BY DEF Init, AlarmInv, NewestInv, NoRecord
<1> QED
  BY <1>1, NextAlarm, Invariance, PTL DEF Spec

\* As long as no restart dropped the sockets without an event, a connection that is not
\* ready is going to be dropped: by its alarm, or by the close of a socket that counts.
THEOREM NobodyStranded == Spec => []NotStranded
  BY CloseToCome, AlarmKept, Invariance, PTL

-----------------------------------------------------------------------------
(* Sockets that were replaced.                                                *)

\* The generations of the listed sockets are enough to tell a replaced socket.
LEMMA SupersededIsOld ==
    ASSUME IInv, AlarmInv, NEW d \in data, Superseded(d)
    PROVE  ~IsCurrent(d)
<1>1. CASE d.conn # stored.conn
  BY <1>1, Loaded DEF IInv, IsCurrent
<1>2. CASE d.conn = stored.conn
  <2>1. PICK e \in Peers(d) : e.gen = newest[d.ch]
    BY <1>2 DEF AlarmInv, NewestInv
  <2>2. d.gen < e.gen /\ d.gen \in Nat /\ e.gen \in Nat
    BY <1>2, <2>1 DEF Superseded, Peers, IInv, TypeOK, DataSocket
  <2> QED
    BY <2>1, <2>2 DEF IsCurrent, IsLatest
<1> QED
  BY <1>1, <1>2

\* The events of a socket that does not count, and what they leave alone.
LEMMA OldEvents ==
    ASSUME IInv, IInv', NEW d \in data, ~IsCurrent(d), DataEvent(d)
    PROVE  /\ Active' = Active
           /\ UNCHANGED <<streams, closed, durable>>
           /\ openData \ {d} \subseteq openData'
<1>1. OldSocketMessage(d) \/ DataSocketClosing(d) \/ DataSocketClose(d)
  BY DEF DataEvent, ProtocolError, UnknownStreamFrame, ResponseStart, ResponseFinished
<1>2. UNCHANGED <<streams, closed, durable>> /\ openData \ {d} \subseteq openData'
  BY <1>1 DEF OldSocketMessage, DataSocketClosing, DataSocketClose, memory
<1>3. Active' = stored'.conn /\ Active = stored.conn
  BY NoConnAssumption DEF IInv, TypeOK, DurableRecord, Record, Active, NeedsLoad
<1> QED
  BY <1>2, <1>3 DEF durable

\* Once a later socket has been accepted for its channel, or its connection is not the
\* stored one any more, a data socket can do nothing: across evictions, too, the
\* attachments of the sockets that are left tell it.
THEOREM OldSocketsAreInert == Spec => OldSocketsInert
<1>1. IInv /\ IInv' /\ AlarmInv /\ [Next]_vars =>
        [\A d \in data :
            Superseded(d) /\ DataEvent(d) =>
                /\ Active' = Active
                /\ UNCHANGED <<streams, closed, durable>>
                /\ openData \ {d} \subseteq openData']_vars
  BY SupersededIsOld, OldEvents
<1> QED
  BY <1>1, Invariance, AlarmKept, PTL DEF Spec, OldSocketsInert
============================================================================
