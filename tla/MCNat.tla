------------------------------- MODULE MCNat -------------------------------
\* exp1.conf and exp2.conf in one: clients and a server inside.
EXTENDS Nat, TLC

CONSTANTS i1, i2, r1, r2

TwoBuckets == r1 :> 1 @@ r2 :> 2

\* Both sides close and acknowledge with segments of their own.
FinAndAck == {[flags |-> "FIN", new |-> TRUE, acks |-> FALSE],
              [flags |-> "ACK", new |-> FALSE, acks |-> TRUE]}

ServerRule == 8000 :> i1
=============================================================================
