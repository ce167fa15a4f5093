----------------------------- MODULE MCPingPong -----------------------------
(***************************************************************************)
(* TLC instance of PingPong: the kernel as it boots, two rounds.           *)
(***************************************************************************)
EXTENDS PingPong

MCValues == {0, 1}
=============================================================================
