---------------------------- MODULE MCTcpServer ----------------------------
(* Instances of the TCP server for TLC. *)
EXTENDS TcpServer
=============================================================================
