-------------------------- MODULE MCTcpTransferInv --------------------------
(* The data transfer with its inductive invariant, on a small instance.     *)
EXTENDS TcpTransferProofs

SixOrNil == {0, 6}
=============================================================================
