--------------------------- MODULE MCHostcTunnel ---------------------------
(* HostcTunnel on small instances. The instances differ in their configurations. *)
EXTENDS HostcTunnel
============================================================================
