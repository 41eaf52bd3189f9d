----------------------------- MODULE MCTcpConn -----------------------------
(* TcpConn on small instances. *)
EXTENDS TcpConn
=============================================================================
