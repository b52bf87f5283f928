--------------------------- MODULE MCHostcClient ---------------------------
(* HostcClient on small instances; they differ in their configurations.         *)
EXTENDS HostcClient
============================================================================
