--------------------------- MODULE MCTcpTransfer ---------------------------
(* TcpTransfer on small instances: the windows a receiver advertises.       *)
EXTENDS TcpTransfer

Wide      == {4}
WideOrNil == {0, 4}
=============================================================================
