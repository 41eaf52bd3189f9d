---------------------------- MODULE BoundedQueue ----------------------------
(***************************************************************************)
(* What the receive buffer of a socket promises: a first-in first-out queue *)
(* of bytes that never holds more than Capacity of them.  The bytes are     *)
(* numbered in the order of arrival.                                        *)
(***************************************************************************)
EXTENDS Integers, Sequences

CONSTANT Capacity

VARIABLES contents,    \* the bytes in the queue, oldest first
          taken        \* the bytes the reader has taken

vars == <<contents, taken>>

Init == contents = <<>> /\ taken = <<>>

Put ==
  \E k \in 1..(Capacity - Len(contents)) :
    /\ contents' = contents \o [i \in 1..k |-> Len(taken) + Len(contents) + i]
    /\ UNCHANGED taken

Take ==
  \E k \in 1..Len(contents) :
    /\ taken' = taken \o SubSeq(contents, 1, k)
    /\ contents' = SubSeq(contents, k + 1, Len(contents))

Next == Put \/ Take

Spec == Init /\ [][Next]_vars
=============================================================================
