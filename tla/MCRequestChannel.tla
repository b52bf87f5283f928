-------------------------- MODULE MCRequestChannel --------------------------
(* RequestChannel on small instances: numbered streams and small chunks.        *)
EXTENDS RequestChannel

TwoStreams == 1..2
TwoBodies == (1 :> <<1, 1, 2>>) @@ (2 :> <<0, 1>>)

OneStream == {1}
OneBody == (1 :> <<1>>)
=============================================================================
