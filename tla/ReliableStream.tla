--------------------------- MODULE ReliableStream ---------------------------
(***************************************************************************)
(* What one direction of a TCP connection promises its two applications:    *)
(* the segments written by one are delivered to the other in the order of   *)
(* writing, each once, and none is acknowledged before it is delivered.     *)
(* A host that fails ends the promise.                                      *)
(***************************************************************************)
EXTENDS Integers, Sequences

CONSTANT N             \* how many segments are written

VARIABLES sent,        \* segments written so far: 1 .. sent
          delivered,   \* the sequence delivered
          acked,       \* segments the sender may forget: 1 .. acked
          up           \* neither host has failed

vars == <<sent, delivered, acked, up>>

Init == sent = 0 /\ delivered = <<>> /\ acked = 0 /\ up = TRUE

Write ==
  /\ up /\ sent < N
  /\ sent' = sent + 1
  /\ UNCHANGED <<delivered, acked, up>>

Deliver ==
  /\ up /\ Len(delivered) < sent
  /\ delivered' = Append(delivered, Len(delivered) + 1)
  /\ UNCHANGED <<sent, acked, up>>

Acknowledge ==
  /\ up
  /\ acked' \in (acked + 1)..Len(delivered)
  /\ UNCHANGED <<sent, delivered, up>>

\* The last thing a failing host delivers may be anything.
Fail ==
  /\ up /\ up' = FALSE
  /\ UNCHANGED <<sent, acked>>

Next == Write \/ Deliver \/ Acknowledge \/ Fail

Spec == Init /\ [][Next]_vars
=============================================================================
