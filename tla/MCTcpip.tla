------------------------------ MODULE MCTcpip ------------------------------
(* Tcpip with three messages over two connections.                         *)
EXTENDS Tcpip
=============================================================================
