---------------------------- MODULE MCTcpReceive ----------------------------
(* TcpReceive on small instances.                                           *)
EXTENDS TcpReceive

\* Four packets; the second fills a hole and brings an out-of-order payload.
Stream == << <<2>>, <<1, 2>>, <<1>>, <<2>> >>
=============================================================================
