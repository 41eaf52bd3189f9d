------------------------------- MODULE MCStp -------------------------------
\* The topology of four_node_2hosts_ring.py, and a path of three switches, 2 - 3 - 1.
EXTENDS StpForward

CONSTANTS h1, h2

RingPorts == <<3, 2, 2, 3>>

Cables == {<< <<1, 1>>, <<2, 1>> >>, << <<1, 2>>, <<3, 1>> >>,
           << <<2, 2>>, <<4, 1>> >>, << <<3, 2>>, <<4, 2>> >>}

RingPeer ==
  [p \in UNION {{<<s, i>> : i \in 1..RingPorts[s]} : s \in 1..4} |->
     CASE p = <<1, 3>> -> h1
       [] p = <<4, 3>> -> h2
       [] OTHER -> LET c == CHOOSE c \in Cables : p \in {c[1], c[2]}
                   IN  IF p = c[1] THEN c[2] ELSE c[1]]

PathPorts == <<1, 1, 2>>

PathPeer ==
  [p \in {<<1, 1>>, <<2, 1>>, <<3, 1>>, <<3, 2>>} |->
     CASE p = <<2, 1>> -> <<3, 1>>
       [] p = <<3, 1>> -> <<2, 1>>
       [] p = <<3, 2>> -> <<1, 1>>
       [] p = <<1, 1>> -> <<3, 2>>]
=============================================================================
