---------------------------- MODULE MCTcpClient ----------------------------
(* Instances of the TCP client for TLC. *)
EXTENDS TcpClient
=============================================================================
