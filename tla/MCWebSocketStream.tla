------------------------- MODULE MCWebSocketStream -------------------------
(* WebSocketStream on small instances: empty messages, messages that fill the   *)
(* window, and messages that are too big.                                       *)
EXTENDS WebSocketStream

Talk == ("ws.client" :> {0, 1, 2}) @@ ("ws.server" :> {1, 2})
TwoEach == [k \in Kinds |-> 2]

LocalTalk == ("ws.client" :> {}) @@ ("ws.server" :> {1})
OneEach == [k \in Kinds |-> 1]
============================================================================
