------------------------- MODULE MCResponseChannel -------------------------
(* ResponseChannel on small instances: streams are numbered, chunk sizes are    *)
(* small, and every limit is within reach of the bodies.                        *)
EXTENDS ResponseChannel

TwoStreams == 1..2
OneStream == {1}

\* Two bodies, with an empty chunk and with chunks that fill a window.
TwoBodies == (1 :> <<1, 1, 0>>) @@ (2 :> <<2, 1>>)

\* One body on the channel; the other response has none.
OneBody == (1 :> <<2, 1, 0, 1, 1>>) @@ (2 :> <<>>)

\* Just enough to send more than the public response takes unread.
ShortBody == (1 :> <<1, 1>>)
ShortBodies == (1 :> <<1, 1>>) @@ (2 :> <<1>>)

\* One chunk more, for the credit that the first one gets back.
LongerBodies == (1 :> <<1, 1, 1>>) @@ (2 :> <<1>>)
============================================================================
