---------------------------- MODULE MCTcpServer -----------------------------
(***************************************************************************)
(* TcpServer for TLC: without I/O threads, with one and with two; one      *)
(* place in the table or two, two file descriptors and three clients.      *)
(***************************************************************************)
EXTENDS TcpServer

NoneOneTwo == 0..2
OneTwo     == 1..2
TwoFds     == 5..6
=============================================================================
