--------------------------- MODULE TcpConnProofs ---------------------------
(***************************************************************************)
(* Theorems about TcpConn, for every set of clients, every number of        *)
(* connections served, and whatever the links hold and lose: the accept     *)
(* loop misses no wake-up, the server takes a connection for established    *)
(* only if its client does, and makes one child for it; a client in          *)
(* TIME_WAIT has had its data received, once, and its FIN received last.     *)
(***************************************************************************)
EXTENDS TcpConn, TLAPS

Flags == {"SYN", "SYNACK", "ACK", "PSHACK", "FIN", "ACKFIN"}

Socket == [state : States, snd_nxt : Nat, rcv_nxt : Nat, send_buf : SUBSET Packets, received : Nat]
Wires  == Clients \X {"toServer", "toClient"}
Links  == [Wires -> Seq(Packets)]

Places == {"connect", "wait", "confirm", "write", "written", "close", "fin", "done"}

Types ==
  /\ sock \in [Ends -> Socket]
  /\ link \in Links
  /\ app \in [Clients -> Places]

\* Where the accept loop and the server's IP thread are, and that no wake-up is lost.
AcceptInv ==
  /\ accept_queue \in Seq(Ends)
  /\ wait_accept \in [notified : BOOLEAN, sleep : BOOLEAN]
  /\ apc = "pop" => accept_queue # <<>>
  /\ apc \in {"set", "hash"} => popped \in Ends
  /\ ipc # "idle" => child \in Ends
  /\ AcceptWakes

Carried(links, l) == {links[l][k] : k \in 1..Len(links[l])}

Connecting(c) == app[c] \in {"connect", "wait"}

Own(e) == IF IsClient(e) THEN "SYN" ELSE "SYNACK"

\* The handshake of a socket has not got past the SYN|ACK.
Early(e, s) ==
  /\ \A p \in s.send_buf : p.flags = Own(e)
  /\ IsClient(e) \/ s.state = "SYN_RECV" \/ (s.state = "CLOSED" /\ s.snd_nxt = 0)

\* While a client is connecting, all of its ends are early, ...
EarlySockets == \A e \in Ends : Connecting(e[1]) => Early(e, sock[e])

\* ... nothing but SYN and SYN|ACK is under way, ...
EarlyLinks ==
  \A e \in Ends : Connecting(e[1]) => \A p \in Carried(link, Out(e)) : p.flags = Own(e)

\* ... and its ends have no timer and are unknown to the accept loop.
Unseen(e) ==
  /\ \A k \in 1..Len(accept_queue) : accept_queue[k] # e
  /\ apc \in {"set", "hash"} => popped # e
  /\ ipc # "idle" => child # e

EarlyHosts ==
  \A e \in Ends : Connecting(e[1]) => e \notin timewait /\ Unseen(e)

IInv == Types /\ AcceptInv /\ EarlySockets /\ EarlyLinks /\ EarlyHosts
-----------------------------------------------------------------------------
(* Packets, sockets and links.                                              *)

LEMMA EndsOf ==
  /\ \A c \in Clients, i \in 0..MaxChild :
       <<c, i>> \in Ends /\ <<c, i>>[1] = c /\ (IsClient(<<c, i>>) <=> i = 0)
  /\ \A e \in Ends : In(e) \in Wires /\ Out(e) \in Wires /\ In(e)[1] = e[1] /\ Out(e)[1] = e[1]
  /\ \A c \in Clients : In(<<c, 0>>) = <<c, "toClient">> /\ Out(<<c, 0>>) = <<c, "toServer">>
  /\ \A c \in Clients, i \in 1..MaxChild :
       In(<<c, i>>) = <<c, "toServer">> /\ Out(<<c, i>>) = <<c, "toClient">>
BY ConnConstants DEF ConnConstants, Ends, IsClient, In, Out, Wires

LEMMA PacketType ==
  ASSUME NEW s \in Socket, NEW flags \in Flags
  PROVE  Packet(s, flags) \in Packets /\ Packet(s, flags).flags = flags
BY DEF Packet, Packets, Socket, Flags

LEMMA SentType ==
  ASSUME NEW s \in Socket, NEW flags \in Flags
  PROVE  /\ Sent(s, flags) \in Socket
         /\ Sent(s, flags).state = s.state
         /\ Sent(s, flags).send_buf \subseteq s.send_buf \union {Packet(s, flags)}
         /\ flags = "ACK" => Sent(s, flags) = s
<1>1. CASE flags = "ACK"
  BY <1>1 DEF Sent
<1>2. CASE flags # "ACK"
  <2> DEFINE q == Packet(s, flags)
             r == [state |-> s.state, snd_nxt |-> s.snd_nxt + 1, rcv_nxt |-> s.rcv_nxt,
                   send_buf |-> s.send_buf \union {q}, received |-> s.received]
  <2>1. q \in Packets
    BY PacketType
  <2>2. Sent(s, flags) = r
    BY <1>2 DEF Sent, Socket
  <2>3. s.send_buf \union {q} \in SUBSET Packets
    BY <2>1 DEF Socket
  <2>4. r \in Socket
    BY <2>3 DEF Socket
  <2> QED
    BY <1>2, <2>2, <2>4
<1> QED
  BY <1>1, <1>2

LEMMA ReceivedType ==
  ASSUME NEW s \in Socket, NEW p \in Packets
  PROVE  /\ Received(s, p) \in Socket
         /\ Received(s, p).state = s.state
         /\ Received(s, p).snd_nxt = s.snd_nxt
         /\ Received(s, p).send_buf \subseteq s.send_buf
<1>1. SeqEnd(p) \in Nat
  BY DEF SeqEnd, Packets
<1>2. {q \in s.send_buf : SeqEnd(q) > p.ack} \in SUBSET Packets
  BY DEF Socket
<1> QED
  BY <1>1, <1>2 DEF Received, Socket

\* What a transmission puts under way: nothing new but the packet sent.
LEMMA Transmission ==
  ASSUME NEW before \in Links, NEW e \in Ends, NEW P, NEW out,
         out = <<>> \/ \E p \in P \cap Packets : out = <<p>>,
         Transmit(before, e, out)
  PROVE  /\ link' \in Links
         /\ \A l \in Wires : Carried(link', l)
              \subseteq Carried(before, l) \union (IF l = Out(e) THEN P ELSE {})
<1>1. Out(e) \in Wires
  BY EndsOf
<1>2. before[Out(e)] \in Seq(Packets) /\ out \in Seq(Packets)
  <2>1. before[Out(e)] \in Seq(Packets)
    BY <1>1 DEF Links
  <2>2. \A p \in Packets : <<p>> \in Seq(Packets)
    OBVIOUS
  <2>3. <<>> \in Seq(Packets)
    OBVIOUS
  <2> QED
    BY <2>1, <2>2, <2>3
<1>3. CASE link' = [before EXCEPT ![Out(e)] = IF Len(@) < QueueLen THEN @ \o out ELSE @]
  <2>1. CASE link' = before
    BY <2>1 DEF Carried
  <2>2. CASE link' = [before EXCEPT ![Out(e)] = @ \o out]
    <3>1. link' \in Links
      BY <1>1, <1>2, <2>2 DEF Links
    <3>2. \A l \in Wires \ {Out(e)} : link'[l] = before[l]
      BY <2>2 DEF Links
    <3>3. link'[Out(e)] = before[Out(e)] \o out
      BY <1>1, <2>2 DEF Links
    <3>4. \A k \in 1..Len(link'[Out(e)]) :
            \/ k \in 1..Len(before[Out(e)]) /\ link'[Out(e)][k] = before[Out(e)][k]
            \/ link'[Out(e)][k] \in P
      BY <1>2, <3>3
    <3> QED
      BY <3>1, <3>2, <3>4 DEF Carried
  <2> QED
    BY <1>1, <1>3, <2>1, <2>2 DEF Links
<1>4. CASE link' = before
  BY <1>4 DEF Carried
<1> QED
  BY <1>3, <1>4 DEF Transmit

LEMMA Taking ==
  ASSUME Types, NEW e \in Ends, link[In(e)] # <<>>
  PROVE  LET rest == [link EXCEPT ![In(e)] = Tail(@)]
         IN  /\ rest \in Links
             /\ Head(link[In(e)]) \in Packets \cap Carried(link, In(e))
             /\ \A l \in Wires : Carried(rest, l) \subseteq Carried(link, l)
<1> DEFINE rest == [link EXCEPT ![In(e)] = Tail(@)]
<1>1. In(e) \in Wires /\ link[In(e)] \in Seq(Packets)
  BY EndsOf DEF Types, Links
<1>2. Tail(link[In(e)]) \in Seq(Packets) /\ Head(link[In(e)]) = link[In(e)][1]
      /\ Len(Tail(link[In(e)])) = Len(link[In(e)]) - 1 /\ Len(link[In(e)]) \in Nat \ {0}
      /\ link[In(e)][1] \in Packets
  BY <1>1
<1>3. rest \in Links
  BY <1>1, <1>2 DEF Types, Links
<1>4. \A k \in 1..Len(rest[In(e)]) : rest[In(e)][k] = link[In(e)][k + 1]
  BY <1>1, <1>2 DEF Types, Links
<1>5. Len(rest[In(e)]) = Len(link[In(e)]) - 1
  BY <1>1, <1>2 DEF Types, Links
<1>6. \A l \in Wires \ {In(e)} : rest[l] = link[l]
  BY DEF Types, Links
<1>7. \A l \in Wires : Carried(rest, l) \subseteq Carried(link, l)
  <2>1. Carried(rest, In(e)) \subseteq Carried(link, In(e))
    BY <1>2, <1>4, <1>5 DEF Carried
  <2> QED
    BY <1>6, <2>1 DEF Carried
<1> QED
  BY <1>2, <1>3, <1>7 DEF Carried
-----------------------------------------------------------------------------
(* Steps.                                                                   *)

\* A step that changes one end and sends at most the packets of P keeps what is
\* known of sockets and links, if the end stays early while its client connects.
LEMMA EndStep ==
  ASSUME Types, EarlySockets, EarlyLinks, NEW e \in Ends, NEW s \in Socket, NEW P,
         sock' = [sock EXCEPT ![e] = s],
         link' \in Links,
         \A l \in Wires : Carried(link', l)
           \subseteq Carried(link, l) \union (IF l = Out(e) THEN P ELSE {}),
         \A c \in Clients : Connecting(c)' => Connecting(c),
         Connecting(e[1])' => Early(e, s) /\ \A p \in P : p.flags = Own(e)
  PROVE  (sock \in [Ends -> Socket])' /\ EarlySockets' /\ EarlyLinks'
<1>1. (sock \in [Ends -> Socket])'
  BY DEF Types
<1>2. \A x \in Ends : x[1] \in Clients
  BY DEF Ends
<1>3. EarlySockets'
  <2> SUFFICES ASSUME NEW x \in Ends, Connecting(x[1])'
               PROVE  Early(x, sock'[x])
    BY DEF EarlySockets
  <2>1. CASE x = e
    BY <2>1 DEF Types
  <2>2. CASE x # e
    <3>1. sock'[x] = sock[x]
      BY <2>2 DEF Types
    <3> QED
      BY <1>2, <3>1 DEF EarlySockets
  <2> QED
    BY <2>1, <2>2
<1>4. EarlyLinks'
  <2> SUFFICES ASSUME NEW x \in Ends, Connecting(x[1])', NEW p \in Carried(link', Out(x))
               PROVE  p.flags = Own(x)
    BY DEF EarlyLinks
  <2>1. Out(x) \in Wires /\ Connecting(x[1])
    BY <1>2, EndsOf
  <2>2. CASE p \in Carried(link, Out(x))
    BY <2>1, <2>2 DEF EarlyLinks
  <2>3. CASE Out(x) = Out(e) /\ p \in P
    <3>1. x[1] = e[1] /\ Own(x) = Own(e)
      BY <2>3 DEF Out, Own
    <3> QED
      BY <2>3, <3>1
  <2> QED
    BY <2>1, <2>2, <2>3
<1> QED
  BY <1>1, <1>3, <1>4

\* The accept loop and the timers, when no child is shown to them.
LEMMA HostStep ==
  ASSUME AcceptInv, EarlyHosts, NEW e \in Ends, UNCHANGED <<acceptVars, ipVars>>,
         timewait' \subseteq timewait \union {e},
         \A c \in Clients : Connecting(c)' => Connecting(c),
         Connecting(e[1])' => timewait' \subseteq timewait
  PROVE  AcceptInv' /\ EarlyHosts'
<1>1. \A x \in Ends : x[1] \in Clients
  BY DEF Ends
<1> QED
  BY <1>1 DEF acceptVars, ipVars, AcceptInv, AcceptWakes, EarlyHosts, Unseen

\* The client sends a packet.
LEMMA ClientSends ==
  ASSUME IInv, NEW c \in Clients, NEW state \in States, NEW flags \in Flags,
         Send(c, state, flags), app' \in [Clients -> Places],
         \A d \in Clients : Connecting(d)' => Connecting(d),
         Connecting(c)' => flags = "SYN",
         UNCHANGED <<timewait, acceptVars, ipVars>>
  PROVE  IInv'
<1> DEFINE e == <<c, 0>>
           s == [sock[e] EXCEPT !.state = state]
           q == Packet(s, flags)
<1>1. e \in Ends /\ e[1] = c /\ IsClient(e) /\ sock[e] \in Socket
  BY EndsOf, ConnConstants DEF ConnConstants, IInv, Types
<1>2. s \in Socket /\ s.send_buf = sock[e].send_buf
  BY <1>1 DEF Socket
<1>3. q \in Packets /\ q.flags = flags
  BY <1>2, PacketType
<1>4. Sent(s, flags) \in Socket /\ Sent(s, flags).send_buf \subseteq s.send_buf \union {q}
  BY <1>2, SentType
<1>5. sock' = [sock EXCEPT ![e] = Sent(s, flags)] /\ Transmit(link, e, <<q>>)
  BY DEF Send
<1>6. link \in Links
  BY DEF IInv, Types
<1>7. /\ link' \in Links
      /\ \A l \in Wires : Carried(link', l)
           \subseteq Carried(link, l) \union (IF l = Out(e) THEN {q} ELSE {})
  <2> HIDE DEF e, q
  <2> QED
    BY <1>1, <1>3, <1>5, <1>6, Transmission
<1>8. Connecting(c)' => Early(e, Sent(s, flags)) /\ \A p \in {q} : p.flags = Own(e)
  <2> SUFFICES ASSUME Connecting(c)'
               PROVE  Early(e, Sent(s, flags)) /\ q.flags = Own(e)
    OBVIOUS
  <2>1. Connecting(c) /\ flags = "SYN" /\ Own(e) = "SYN"
    BY <1>1 DEF Own
  <2>2. \A p \in sock[e].send_buf : p.flags = "SYN"
    BY <1>1, <2>1 DEF IInv, EarlySockets, Early
  <2> HIDE DEF e, s, q
  <2> QED
    BY <1>1, <1>2, <1>3, <1>4, <2>1, <2>2 DEF Early
<1>9. (sock \in [Ends -> Socket])' /\ EarlySockets' /\ EarlyLinks'
  <2> DEFINE r == Sent(s, flags)
  <2>1. r \in Socket /\ sock' = [sock EXCEPT ![e] = r]
        /\ (Connecting(c)' => Early(e, r) /\ \A p \in {q} : p.flags = Own(e))
    BY <1>4, <1>5, <1>8
  <2> HIDE DEF e, q, r, s
  <2> QED
    BY <1>1, <1>7, <2>1, EndStep DEF IInv
<1>10. AcceptInv' /\ EarlyHosts'
  <2> HIDE DEF e
  <2> QED
    BY <1>1, HostStep DEF IInv
<1> QED
  BY <1>7, <1>9, <1>10 DEF IInv, Types

\* The state of an end is set, and nothing is sent.
LEMMA StateSet ==
  ASSUME Types, EarlySockets, EarlyLinks, NEW e \in Ends, NEW state \in States,
         sock' = [sock EXCEPT ![e].state = state],
         app' \in [Clients -> Places], UNCHANGED link,
         \A d \in Clients : Connecting(d)' => Connecting(d),
         Connecting(e[1])' => IsClient(e)
  PROVE  Types' /\ EarlySockets' /\ EarlyLinks'
<1> DEFINE s == [sock[e] EXCEPT !.state = state]
<1>1. sock[e] \in Socket /\ link \in Links /\ e[1] \in Clients
  BY DEF Types, Ends
<1>2. s \in Socket /\ s.send_buf = sock[e].send_buf
  BY <1>1 DEF Socket
<1>3. sock' = [sock EXCEPT ![e] = s]
  OBVIOUS
<1> DEFINE none == {}
<1>4. \A l \in Wires : Carried(link', l)
        \subseteq Carried(link, l) \union (IF l = Out(e) THEN none ELSE {})
  OBVIOUS
<1>5. Connecting(e[1])' => Early(e, s) /\ \A p \in none : p.flags = Own(e)
  BY <1>1, <1>2 DEF EarlySockets, Early
<1> HIDE DEF s, none
<1>6. (sock \in [Ends -> Socket])' /\ EarlySockets' /\ EarlyLinks'
  BY <1>1, <1>2, <1>3, <1>4, <1>5, EndStep
<1> QED
  BY <1>1, <1>6 DEF Types
-----------------------------------------------------------------------------
(* The client's application thread.                                         *)

\* Nobody comes back to the connecting of tcp_client.
LEMMA Moving ==
  ASSUME Types, NEW c \in Clients, NEW from \in Places, NEW to \in Places, At(c, from, to),
         to \in {"connect", "wait"} => from = "connect"
  PROVE  /\ app' \in [Clients -> Places]
         /\ \A d \in Clients : Connecting(d)' => Connecting(d)
         /\ Connecting(c)' => to \in {"connect", "wait"}
BY DEF Types, At, Connecting

LEMMA AppStep ==
  ASSUME IInv, NEW c \in Clients, App(c)
  PROVE  IInv'
<1> USE DEF Places
<1>1. Types /\ AcceptInv /\ EarlySockets /\ EarlyLinks /\ EarlyHosts
  BY DEF IInv
<1>2. <<c, 0>> \in Ends /\ <<c, 0>>[1] = c /\ IsClient(<<c, 0>>) /\ sock[<<c, 0>>].state \in States
  BY <1>1, EndsOf, ConnConstants DEF ConnConstants, Types, Socket
<1>3. ASSUME Connect(c) PROVE IInv'
  <2>1. "SYN_SENT" \in States /\ "SYN" \in Flags
    BY DEF States, Flags
  <2>2. app' \in [Clients -> Places] /\ \A d \in Clients : Connecting(d)' => Connecting(d)
    BY <1>1, <1>3, Moving DEF Connect
  <2> QED
    BY <1>3, <2>1, <2>2, ClientSends DEF Connect
<1>4. ASSUME Connected(c) PROVE IInv'
  <2>1. "ESTABLISHED" \in States
    BY DEF States
  <2>2. app' \in [Clients -> Places] /\ \A d \in Clients : Connecting(d)' => Connecting(d)
    BY <1>1, <1>4, Moving DEF Connected
  <2>3. UNCHANGED <<link, timewait, acceptVars, ipVars>>
        /\ sock' = [sock EXCEPT ![<<c, 0>>].state = "ESTABLISHED"]
    BY <1>4 DEF Connected, netVars
  <2>4. Types' /\ EarlySockets' /\ EarlyLinks'
    BY <1>1, <1>2, <2>1, <2>2, <2>3, StateSet
  <2> QED
    BY <1>1, <1>2, <2>2, <2>3, <2>4, HostStep DEF IInv
<1>5. ASSUME Confirm(c) PROVE IInv'
  <2>1. app' \in [Clients -> Places] /\ (\A d \in Clients : Connecting(d)' => Connecting(d))
        /\ ~Connecting(c)'
    BY <1>1, <1>5, Moving DEF Confirm
  <2> QED
    BY <1>2, <1>5, <2>1, ClientSends DEF Confirm, Flags
<1>6. ASSUME Write(c) PROVE IInv'
  <2>1. app' \in [Clients -> Places] /\ (\A d \in Clients : Connecting(d)' => Connecting(d))
        /\ ~Connecting(c)'
    BY <1>1, <1>6, Moving DEF Write
  <2> QED
    BY <1>2, <1>6, <2>1, ClientSends DEF Write, Flags
<1>7. ASSUME WriteReturns(c) PROVE IInv'
  <2>1. app' \in [Clients -> Places] /\ \A d \in Clients : Connecting(d)' => Connecting(d)
    BY <1>1, <1>7, Moving DEF WriteReturns
  <2>2. UNCHANGED <<sock, link, timewait, acceptVars, ipVars>>
    BY <1>7 DEF WriteReturns, connVars, netVars
  <2>3. \A e \in Ends : e[1] \in Clients
    BY DEF Ends
  <2>4. Types' /\ EarlySockets' /\ EarlyLinks'
    BY <1>1, <2>1, <2>2, <2>3 DEF Types, EarlySockets, EarlyLinks
  <2> QED
    BY <1>1, <1>2, <2>1, <2>2, <2>4, HostStep DEF IInv
<1>8. ASSUME CloseSet(c) PROVE IInv'
  <2>1. "FIN_WAIT_1" \in States
    BY DEF States
  <2>2. app' \in [Clients -> Places] /\ \A d \in Clients : Connecting(d)' => Connecting(d)
    BY <1>1, <1>8, Moving DEF CloseSet
  <2>3. UNCHANGED <<link, timewait, acceptVars, ipVars>>
        /\ sock' = [sock EXCEPT ![<<c, 0>>].state = "FIN_WAIT_1"]
    BY <1>8 DEF CloseSet, netVars
  <2>4. Types' /\ EarlySockets' /\ EarlyLinks'
    BY <1>1, <1>2, <2>1, <2>2, <2>3, StateSet
  <2> QED
    BY <1>1, <1>2, <2>2, <2>3, <2>4, HostStep DEF IInv
<1>9. ASSUME CloseSend(c) PROVE IInv'
  <2>1. app' \in [Clients -> Places] /\ (\A d \in Clients : Connecting(d)' => Connecting(d))
        /\ ~Connecting(c)'
    BY <1>1, <1>9, Moving DEF CloseSend
  <2> QED
    BY <1>2, <1>9, <2>1, ClientSends DEF CloseSend, Flags
<1> QED
  BY <1>3, <1>4, <1>5, <1>6, <1>7, <1>8, <1>9 DEF App
-----------------------------------------------------------------------------
(* The IP threads.                                                          *)

\* The next packet of an end: while the client connects, a SYN or a SYN|ACK.
LEMMA NextPacket ==
  ASSUME IInv, NEW e \in Ends, link[In(e)] # <<>>
  PROVE  /\ Head(link[In(e)]) \in Packets
         /\ Connecting(e[1])
              => Head(link[In(e)]).flags = IF IsClient(e) THEN "SYNACK" ELSE "SYN"
<1> DEFINE p == Head(link[In(e)])
<1>1. p \in Packets /\ p \in Carried(link, In(e))
  BY Taking DEF IInv
<1>2. \E x \in Ends : x[1] = e[1] /\ Out(x) = In(e) /\ (IsClient(x) <=> ~IsClient(e))
  <2>1. PICK c \in Clients, i \in 0..MaxChild : e = <<c, i>>
    BY DEF Ends
  <2>2. 1 \in 0..MaxChild /\ 0 \in 0..MaxChild
    BY ConnConstants DEF ConnConstants
  <2>3. CASE i = 0
    <3>1. Out(<<c, 1>>) = In(e) /\ <<c, 1>> \in Ends
      BY <2>1, <2>2, <2>3, EndsOf DEF Out, In, IsClient
    <3> QED
      BY <2>1, <2>3, <3>1 DEF IsClient
  <2>4. CASE i # 0
    <3>1. Out(<<c, 0>>) = In(e) /\ <<c, 0>> \in Ends
      BY <2>1, <2>2, <2>4, EndsOf DEF Out, In, IsClient
    <3> QED
      BY <2>1, <2>4, <3>1 DEF IsClient
  <2> QED
    BY <2>3, <2>4
<1>3. PICK x \in Ends : x[1] = e[1] /\ Out(x) = In(e) /\ (IsClient(x) <=> ~IsClient(e))
  BY <1>2
<1>4. Connecting(e[1]) => p.flags = Own(x)
  BY <1>1, <1>3 DEF IInv, EarlyLinks
<1> QED
  BY <1>1, <1>3, <1>4 DEF Own

\* An end handles its next packet, and answers with at most one of P.
LEMMA Handling ==
  ASSUME IInv, NEW e \in Ends, link[In(e)] # <<>>, NEW s \in Socket, NEW P, NEW out,
         out = <<>> \/ \E q \in P \cap Packets : out = <<q>>,
         Becomes(e, s, out), UNCHANGED app,
         Connecting(e[1]) => Early(e, s) /\ \A q \in P : q.flags = Own(e)
  PROVE  Types' /\ EarlySockets' /\ EarlyLinks'
<1> DEFINE rest == [link EXCEPT ![In(e)] = Tail(@)]
<1>1. rest \in Links /\ \A l \in Wires : Carried(rest, l) \subseteq Carried(link, l)
  BY Taking DEF IInv
<1>2. sock' = [sock EXCEPT ![e] = s] /\ Transmit(rest, e, out)
  BY DEF Becomes
<1> HIDE DEF rest
<1>3. /\ link' \in Links
      /\ \A l \in Wires : Carried(link', l)
           \subseteq Carried(rest, l) \union (IF l = Out(e) THEN P ELSE {})
  BY <1>1, <1>2, Transmission
<1>4. \A l \in Wires : Carried(link', l)
        \subseteq Carried(link, l) \union (IF l = Out(e) THEN P ELSE {})
  BY <1>1, <1>3
<1>5. \A c \in Clients : Connecting(c)' <=> Connecting(c)
  BY DEF Connecting
<1>6. Connecting(e[1])' <=> Connecting(e[1])
  BY DEF Connecting
<1>7. (sock \in [Ends -> Socket])' /\ EarlySockets' /\ EarlyLinks'
  BY <1>2, <1>3, <1>4, <1>5, <1>6, EndStep DEF IInv
<1> QED
  BY <1>3, <1>7 DEF IInv, Types

\* What arrives, and the socket before the switch of tcp_process.
LEMMA Arriving ==
  ASSUME IInv, NEW e \in Ends, NEW flags, NEW p, Arrives(e, flags, p)
  PROVE  /\ link[In(e)] # <<>> /\ p \in Packets /\ sock[e] \in Socket
         /\ Received(sock[e], p) \in Socket
         /\ Received(sock[e], p).state = sock[e].state
         /\ Connecting(e[1]) => Early(e, Received(sock[e], p))
         /\ flags \notin {"SYN", "SYNACK"} => ~Connecting(e[1])
<1>1. link[In(e)] # <<>> /\ p = Head(link[In(e)]) /\ p.flags = flags
  BY DEF Arrives
<1>2. p \in Packets /\ sock[e] \in Socket
  BY <1>1, NextPacket DEF IInv, Types
<1>3. flags \notin {"SYN", "SYNACK"} => ~Connecting(e[1])
  BY <1>1, NextPacket
<1>4. Connecting(e[1]) => Early(e, Received(sock[e], p))
  BY <1>2, ReceivedType DEF IInv, EarlySockets, Early
<1> QED
  BY <1>1, <1>2, <1>3, <1>4, ReceivedType

\* A packet that is only received.
LEMMA OnlyReceived ==
  ASSUME IInv, NEW e \in Ends, NEW flags, NEW p, Arrives(e, flags, p),
         Becomes(e, Received(sock[e], p), <<>>), UNCHANGED <<app, timewait, acceptVars, ipVars>>
  PROVE  IInv'
<1> DEFINE s == Received(sock[e], p)
           none == {}
<1>1. s \in Socket /\ (Connecting(e[1]) => Early(e, s)) /\ link[In(e)] # <<>>
  BY Arriving
<1>2. Becomes(e, s, <<>>) /\ \A q \in none : q.flags = Own(e)
  OBVIOUS
<1> HIDE DEF s, none
<1>3. Types' /\ EarlySockets' /\ EarlyLinks'
  BY <1>1, <1>2, Handling
<1>4. AcceptInv' /\ EarlyHosts'
  BY HostStep DEF IInv, Connecting
<1> QED
  BY <1>3, <1>4 DEF IInv

\* A packet that only comes once the client has connected.
LEMMA AfterConnect ==
  ASSUME IInv, NEW e \in Ends, NEW flags, NEW p, Arrives(e, flags, p),
         flags \notin {"SYN", "SYNACK"}, NEW s \in Socket, NEW out,
         out = <<>> \/ \E q \in Packets : out = <<q>>,
         Becomes(e, s, out), UNCHANGED app
  PROVE  Types' /\ EarlySockets' /\ EarlyLinks'
<1>1. ~Connecting(e[1]) /\ link[In(e)] # <<>>
  BY Arriving
<1>2. out = <<>> \/ \E q \in Packets \cap Packets : out = <<q>>
  OBVIOUS
<1> QED
  BY <1>1, <1>2, Handling

\* ... and changes nothing of the accept loop.
LEMMA AfterConnectQuiet ==
  ASSUME IInv, NEW e \in Ends, NEW flags, NEW p, Arrives(e, flags, p),
         flags \notin {"SYN", "SYNACK"}, NEW s \in Socket, NEW out,
         out = <<>> \/ \E q \in Packets : out = <<q>>,
         Becomes(e, s, out), UNCHANGED <<app, acceptVars, ipVars>>,
         timewait' \subseteq timewait \union {e}
  PROVE  IInv'
<1>1. Types' /\ EarlySockets' /\ EarlyLinks'
  BY AfterConnect
<1>2. ~Connecting(e[1])
  BY Arriving
<1>3. AcceptInv' /\ EarlyHosts'
  BY <1>2, HostStep DEF IInv, Connecting
<1> QED
  BY <1>1, <1>3 DEF IInv

LEMMA Replying ==
  ASSUME NEW s \in Socket, NEW flags \in Flags
  PROVE  \E q \in Packets : <<Packet(s, flags)>> = <<q>>
BY PacketType

LEMMA SynListenStep ==
  ASSUME IInv, NEW c \in Clients, SynListen(c)
  PROVE  IInv'
<1>1. PICK i \in 1..MaxChild :
        LET e == <<c, i>>
            s == [sock[e] EXCEPT !.state = "SYN_RECV", !.rcv_nxt = SeqEnd(Head(link[<<c, "toServer">>]))]
        IN  Becomes(e, Sent(s, "SYNACK"), <<Packet(s, "SYNACK")>>)
  BY DEF SynListen
<1> DEFINE e == <<c, i>>
           n == SeqEnd(Head(link[<<c, "toServer">>]))
           s == [sock[e] EXCEPT !.state = "SYN_RECV", !.rcv_nxt = n]
           q == Packet(s, "SYNACK")
           r == Sent(s, "SYNACK")
<1>2. e \in Ends /\ e[1] = c /\ ~IsClient(e) /\ In(e) = <<c, "toServer">>
  BY EndsOf, ConnConstants DEF ConnConstants
<1>3. link[In(e)] # <<>>
  BY <1>2 DEF SynListen
<1>4. n \in Nat
  BY <1>2, <1>3, NextPacket DEF SeqEnd, Packets
<1>5. sock[e] \in Socket
  BY <1>2 DEF IInv, Types
<1>6. s \in Socket /\ s.send_buf = sock[e].send_buf /\ s.state = "SYN_RECV"
  BY <1>4, <1>5 DEF Socket, States
<1>7. q \in Packets /\ q.flags = "SYNACK"
  BY <1>6, PacketType DEF Flags
<1>8. r \in Socket /\ r.state = "SYN_RECV" /\ r.send_buf \subseteq s.send_buf \union {q}
  BY <1>6, SentType DEF Flags
<1>9. Becomes(e, r, <<q>>) /\ \E x \in {q} \cap Packets : <<q>> = <<x>>
  BY <1>1, <1>7
<1>10. UNCHANGED <<app, timewait, acceptVars, ipVars>>
  BY DEF SynListen, ipFrame
<1>11. Connecting(c) => Early(e, sock[e])
  BY <1>2 DEF IInv, EarlySockets
<1> HIDE DEF e, n, s, q, r
<1>12. Own(e) = "SYNACK"
  BY <1>2 DEF Own
<1>13. Connecting(e[1]) => Early(e, r) /\ \A x \in {q} : x.flags = Own(e)
  BY <1>2, <1>6, <1>7, <1>8, <1>11, <1>12 DEF Early
<1>14. Types' /\ EarlySockets' /\ EarlyLinks'
  <2> DEFINE P == {q}
             out == <<q>>
  <2>1. /\ out = <<>> \/ \E x \in P \cap Packets : out = <<x>>
        /\ Becomes(e, r, out) /\ UNCHANGED app
        /\ Connecting(e[1]) => Early(e, r) /\ \A x \in P : x.flags = Own(e)
    BY <1>9, <1>10, <1>13
  <2> HIDE DEF P, out
  <2> QED
    BY <1>2, <1>3, <1>8, <2>1, Handling
<1>15. AcceptInv' /\ EarlyHosts'
  BY <1>2, <1>10, HostStep DEF IInv, Connecting
<1> QED
  BY <1>14, <1>15 DEF IInv

\* A queued child is shown to the accept loop: its client has connected.
LEMMA AckEnqueueStep ==
  ASSUME IInv, NEW e \in Ends, NEW p, AckEnqueue(e, p)
  PROVE  IInv'
<1>1. Arrives(e, "ACK", p) /\ Becomes(e, Received(sock[e], p), <<>>)
  BY DEF AckEnqueue
<1>2. Received(sock[e], p) \in Socket /\ ~Connecting(e[1])
  BY <1>1, Arriving
<1>3. UNCHANGED <<app, timewait, apc, popped, wait_accept>>
      /\ accept_queue' = Append(accept_queue, e) /\ ipc' = "wake" /\ child' = e
  BY DEF AckEnqueue
<1>4. Types' /\ EarlySockets' /\ EarlyLinks'
  BY <1>1, <1>2, <1>3, AfterConnect
<1>5. accept_queue \in Seq(Ends)
  BY DEF IInv, AcceptInv
<1>6. /\ Append(accept_queue, e) \in Seq(Ends) /\ Append(accept_queue, e) # <<>>
      /\ \A k \in 1..Len(Append(accept_queue, e)) :
           \/ Append(accept_queue, e)[k] = e
           \/ k \in 1..Len(accept_queue) /\ Append(accept_queue, e)[k] = accept_queue[k]
  BY <1>5
<1>7. AcceptInv'
  BY <1>3, <1>6 DEF IInv, AcceptInv, AcceptWakes
<1>8. EarlyHosts'
  <2> SUFFICES ASSUME NEW x \in Ends, Connecting(x[1])'
               PROVE  x \notin timewait' /\ Unseen(x)'
    BY DEF EarlyHosts
  <2>1. Connecting(x[1]) /\ x # e
    BY <1>2, <1>3 DEF Connecting
  <2>2. x \notin timewait /\ Unseen(x)
    BY <2>1 DEF IInv, EarlyHosts
  <2> QED
    BY <1>3, <1>6, <2>1, <2>2 DEF Unseen
<1> QED
  BY <1>4, <1>7, <1>8 DEF IInv

LEMMA AckStep ==
  ASSUME IInv, NEW e \in Ends, NEW p, Ack(e, p)
  PROVE  IInv'
<1> DEFINE s    == Received(sock[e], p)
           next == [FIN_WAIT_1 |-> "FIN_WAIT_2", LAST_ACK |-> "CLOSED"]
           r    == IF s.state \in DOMAIN next THEN [s EXCEPT !.state = next[@]] ELSE s
<1>1. Arrives(e, "ACK", p) /\ Becomes(e, r, <<>>)
      /\ UNCHANGED <<app, timewait, acceptVars, ipVars>>
  BY DEF Ack, ipFrame
<1>2. s \in Socket
  BY <1>1, Arriving
<1>3. \A x \in DOMAIN next : next[x] \in States
  BY DEF States
<1> HIDE DEF s, next
<1>4. r \in Socket
  BY <1>2, <1>3 DEF Socket
<1> HIDE DEF r
<1> QED
  BY <1>1, <1>4, AfterConnectQuiet

LEMMA PshAckStep ==
  ASSUME IInv, NEW e \in Ends, NEW p, PshAck(e, p)
  PROVE  IInv'
<1> DEFINE s   == Received(sock[e], p)
           est == [s EXCEPT !.state = IF @ = "SYN_RECV" THEN "ESTABLISHED" ELSE @]
           n   == SeqEnd(p)
           r   == IF p.seq = s.rcv_nxt
                  THEN [est EXCEPT !.received = @ + 1, !.rcv_nxt = n] ELSE est
           out == <<Packet(r, "ACK")>>
<1>1. Arrives(e, "PSHACK", p) /\ Becomes(e, r, out)
      /\ UNCHANGED <<app, timewait, acceptVars, ipVars>>
  BY DEF PshAck, ipFrame
<1>2. s \in Socket /\ n \in Nat
  BY <1>1, Arriving DEF SeqEnd, Packets
<1> HIDE DEF s, n
<1>3. est \in Socket
  BY <1>2 DEF Socket, States
<1> HIDE DEF est
<1>4. r \in Socket
  <2> DEFINE q == [est EXCEPT !.received = @ + 1]
  <2>1. q \in Socket
    BY <1>3 DEF Socket
  <2>2. [est EXCEPT !.received = @ + 1, !.rcv_nxt = n] = [q EXCEPT !.rcv_nxt = n]
    BY <1>3 DEF Socket
  <2> HIDE DEF q
  <2>3. [q EXCEPT !.rcv_nxt = n] \in Socket
    BY <1>2, <2>1 DEF Socket
  <2> QED
    BY <1>3, <2>2, <2>3
<1> HIDE DEF r
<1>5. \E q \in Packets : out = <<q>>
  BY <1>4, Replying DEF Flags
<1> HIDE DEF out
<1> QED
  BY <1>1, <1>4, <1>5, AfterConnectQuiet

LEMMA AckFinStep ==
  ASSUME IInv, NEW e \in Ends, NEW p, AckFin(e, p)
  PROVE  IInv'
<1> DEFINE s   == Received(sock[e], p)
           r   == [s EXCEPT !.state = "TIME_WAIT"]
           out == <<Packet(s, "ACK")>>
<1>1. Arrives(e, "ACKFIN", p) /\ UNCHANGED <<app, acceptVars, ipVars>>
      /\ timewait' \subseteq timewait \union {e}
      /\ (Becomes(e, r, out) \/ Becomes(e, s, <<>>))
  BY DEF AckFin, ipFrame, SetTimewait
<1>2. s \in Socket
  BY <1>1, Arriving
<1> HIDE DEF s
<1>3. r \in Socket
  BY <1>2 DEF Socket, States
<1>4. \E q \in Packets : out = <<q>>
  BY <1>2, Replying DEF Flags
<1> HIDE DEF r, out
<1> QED
  BY <1>1, <1>2, <1>3, <1>4, AfterConnectQuiet

LEMMA FinStep ==
  ASSUME IInv, NEW e \in Ends, NEW p, Fin(e, p)
  PROVE  IInv'
<1> DEFINE s     == Received(sock[e], p)
           reply == [ESTABLISHED |-> "ACKFIN",   FIN_WAIT_2 |-> "ACK"]
           next  == [ESTABLISHED |-> "LAST_ACK", FIN_WAIT_2 |-> "TIME_WAIT"]
           est   == [s EXCEPT !.state = next[@]]
           flags == reply[s.state]
           r     == Sent(est, flags)
           out   == <<Packet(s, flags)>>
<1>1. Arrives(e, "FIN", p) /\ UNCHANGED <<app, acceptVars, ipVars>>
      /\ timewait' \subseteq timewait \union {e}
      /\ ((s.state \in DOMAIN next /\ Becomes(e, r, out)) \/ Becomes(e, s, <<>>))
  BY DEF Fin, ipFrame, SetTimewait
<1>2. s \in Socket
  BY <1>1, Arriving
<1>3. CASE Becomes(e, s, <<>>)
  <2> HIDE DEF s
  <2> QED
    BY <1>1, <1>2, <1>3, AfterConnectQuiet
<1>4. CASE s.state \in DOMAIN next /\ Becomes(e, r, out)
  <2>1. next[s.state] \in States /\ flags \in Flags
    BY <1>4 DEF States, Flags
  <2> HIDE DEF s, next, flags
  <2>2. est \in Socket
    BY <1>2, <2>1 DEF Socket
  <2> HIDE DEF est
  <2>3. r \in Socket /\ \E q \in Packets : out = <<q>>
    BY <1>2, <2>1, <2>2, SentType, Replying
  <2> HIDE DEF r, out
  <2> QED
    BY <1>1, <1>4, <2>3, AfterConnectQuiet
<1> QED
  BY <1>1, <1>3, <1>4

LEMMA HandleStep ==
  ASSUME IInv, NEW e \in Ends, Handle(e)
  PROVE  IInv'
<1>1. PICK p : \/ SynAgain(e, p) \/ SynAck(e, p) \/ AckEnqueue(e, p) \/ Ack(e, p)
               \/ PshAck(e, p) \/ AckFin(e, p) \/ Fin(e, p)
  BY DEF Handle
<1>2. CASE SynAgain(e, p)
  BY <1>2, OnlyReceived DEF SynAgain, ipFrame
<1>3. CASE SynAck(e, p)
  BY <1>3, OnlyReceived DEF SynAck, ipFrame
<1> QED
  BY <1>1, <1>2, <1>3, AckEnqueueStep, AckStep, PshAckStep, AckFinStep, FinStep

LEMMA ServerIpStep ==
  ASSUME IInv, ServerIp
  PROVE  IInv'
<1>1. ASSUME NEW c \in Clients, NEW i \in 1..MaxChild, Handle(<<c, i>>) PROVE IInv'
  BY <1>1, EndsOf, HandleStep
<1>2. ASSUME AckWake PROVE IInv'
  <2>1. UNCHANGED <<sock, link, app, timewait, accept_queue, apc, popped, child>>
        /\ wait_accept' = [wait_accept EXCEPT !.notified = TRUE] /\ ipc' = "establish" /\ ipc = "wake"
    BY <1>2 DEF AckWake, connVars, netVars
  <2>2. Types' /\ EarlySockets' /\ EarlyLinks' /\ EarlyHosts'
    BY <2>1 DEF IInv, Types, EarlySockets, EarlyLinks, EarlyHosts, Unseen, Connecting
  <2>3. AcceptInv'
    BY <2>1 DEF IInv, AcceptInv, AcceptWakes
  <2> QED
    BY <2>2, <2>3 DEF IInv
<1>3. ASSUME AckEstablish PROVE IInv'
  <2>1. UNCHANGED <<link, app, timewait, acceptVars>> /\ ipc = "establish" /\ ipc' = "idle"
        /\ sock' = [sock EXCEPT ![child].state = "ESTABLISHED"]
    BY <1>3 DEF AckEstablish, ipFrame, netVars
  <2>2. child \in Ends /\ child[1] \in Clients
    BY <2>1 DEF IInv, AcceptInv, Ends
  <2>3. Connecting(child[1]) => IsClient(child)
    BY <2>1, <2>2 DEF IInv, EarlyHosts, Unseen
  <2>4. Types' /\ EarlySockets' /\ EarlyLinks'
    <3> DEFINE e == child
    <3>1. /\ e \in Ends /\ "ESTABLISHED" \in States
          /\ sock' = [sock EXCEPT ![e].state = "ESTABLISHED"]
          /\ app' \in [Clients -> Places] /\ UNCHANGED link
          /\ \A d \in Clients : Connecting(d)' => Connecting(d)
      BY <2>1, <2>2 DEF IInv, Types, States, Connecting
    <3> QED
      BY <3>1, <2>1, <2>3, StateSet DEF IInv, Connecting
  <2>5. AcceptInv' /\ EarlyHosts'
    BY <2>1 DEF acceptVars, IInv, AcceptInv, AcceptWakes, EarlyHosts, Unseen, Connecting
  <2> QED
    BY <2>4, <2>5 DEF IInv
<1> QED
  BY <1>1, <1>2, <1>3, SynListenStep DEF ServerIp
-----------------------------------------------------------------------------
(* The accept loop and the timer threads.                                   *)

LEMMA AcceptStep ==
  ASSUME IInv, Accept
  PROVE  IInv'
<1>1. UNCHANGED <<link, app, timewait, ipVars>>
  BY DEF Accept, AcceptTest, AcceptSleep, AcceptWoken, AcceptPop, AcceptSet, AcceptHash,
         acceptFrame, netVars
<1>2. ASSUME UNCHANGED sock PROVE Types' /\ EarlySockets' /\ EarlyLinks'
  BY <1>1, <1>2 DEF IInv, Types, EarlySockets, EarlyLinks, Connecting
<1>3. ASSUME AcceptTest \/ AcceptSleep \/ AcceptWoken \/ AcceptHash PROVE IInv'
  <2>1. UNCHANGED <<sock, accept_queue>>
    BY <1>3 DEF AcceptTest, AcceptSleep, AcceptWoken, AcceptHash
  <2>2. AcceptInv'
    <3> USE DEF IInv, AcceptInv, AcceptWakes, ipVars
    <3>1. CASE AcceptTest
      BY <1>1, <2>1, <3>1 DEF AcceptTest
    <3>2. CASE AcceptSleep
      BY <1>1, <2>1, <3>2 DEF AcceptSleep
    <3>3. CASE AcceptWoken
      BY <1>1, <2>1, <3>3 DEF AcceptWoken
    <3>4. CASE AcceptHash
      BY <1>1, <2>1, <3>4 DEF AcceptHash
    <3> QED
      BY <1>3, <3>1, <3>2, <3>3, <3>4
  <2>3. EarlyHosts'
    BY <1>1, <1>3, <2>1 DEF AcceptTest, AcceptSleep, AcceptWoken, AcceptHash,
         IInv, EarlyHosts, Unseen, Connecting, ipVars
  <2> QED
    BY <1>2, <2>1, <2>2, <2>3 DEF IInv
<1>4. ASSUME AcceptPop PROVE IInv'
  <2>1. UNCHANGED <<sock, wait_accept>> /\ apc' = "set"
        /\ popped' = Head(accept_queue) /\ accept_queue' = Tail(accept_queue)
    BY <1>4 DEF AcceptPop
  <2>2. accept_queue \in Seq(Ends) /\ accept_queue # <<>>
    BY <1>4 DEF AcceptPop, IInv, AcceptInv
  <2>3. /\ Tail(accept_queue) \in Seq(Ends)
        /\ Len(accept_queue) \in Nat \ {0} /\ Head(accept_queue) = accept_queue[1]
        /\ \A k \in 1..Len(Tail(accept_queue)) :
             k + 1 \in 1..Len(accept_queue) /\ Tail(accept_queue)[k] = accept_queue[k + 1]
    BY <2>2
  <2>4. popped' \in Ends
    BY <2>1, <2>2, <2>3
  <2>5. AcceptInv'
    BY <1>1, <2>1, <2>3, <2>4 DEF IInv, AcceptInv, AcceptWakes, ipVars
  <2>6. EarlyHosts'
    BY <1>1, <2>1, <2>3 DEF IInv, EarlyHosts, Unseen, Connecting, ipVars
  <2> QED
    BY <1>2, <2>1, <2>5, <2>6 DEF IInv
<1>5. ASSUME AcceptSet PROVE IInv'
  <2>1. UNCHANGED <<popped, accept_queue, wait_accept>> /\ apc = "set" /\ apc' = "hash"
        /\ sock' = [sock EXCEPT ![popped].state = "ESTABLISHED"]
    BY <1>5 DEF AcceptSet
  <2>2. popped \in Ends
    BY <2>1 DEF IInv, AcceptInv
  <2>3. Connecting(popped[1])' => IsClient(popped)
    BY <1>1, <2>1, <2>2 DEF IInv, EarlyHosts, Unseen, Connecting
  <2>4. Types' /\ EarlySockets' /\ EarlyLinks'
    <3>1. /\ "ESTABLISHED" \in States /\ app' \in [Clients -> Places]
          /\ \A d \in Clients : Connecting(d)' => Connecting(d)
      BY <1>1 DEF IInv, Types, States, Connecting
    <3> QED
      BY <1>1, <2>1, <2>2, <2>3, <3>1, StateSet DEF IInv
  <2>5. AcceptInv' /\ EarlyHosts'
    BY <1>1, <2>1 DEF IInv, AcceptInv, AcceptWakes, EarlyHosts, Unseen, Connecting, ipVars
  <2> QED
    BY <2>4, <2>5 DEF IInv
<1> QED
  BY <1>3, <1>4, <1>5 DEF Accept

LEMMA RetransmitStep ==
  ASSUME IInv, NEW e \in Ends, NEW p, Retransmit(e, p)
  PROVE  IInv'
<1>1. p \in sock[e].send_buf /\ Transmit(link, e, <<p>>)
      /\ UNCHANGED <<sock, timewait, app, acceptVars, ipVars>>
  BY DEF Retransmit, connVars
<1>2. sock \in [Ends -> Socket] /\ sock[e] \in Socket /\ link \in Links
  BY DEF IInv, Types
<1>3. p \in Packets /\ (Connecting(e[1]) => p.flags = Own(e))
  BY <1>1, <1>2 DEF Socket, IInv, EarlySockets, Early
<1> DEFINE P   == {p}
           out == <<p>>
           s   == sock[e]
<1>4. \E q \in P \cap Packets : out = <<q>>
  BY <1>3
<1>5. sock' = [sock EXCEPT ![e] = s]
  BY <1>1, <1>2
<1>6. Connecting(e[1])' => Early(e, s) /\ \A q \in P : q.flags = Own(e)
  BY <1>1, <1>3 DEF IInv, EarlySockets, Connecting
<1> HIDE DEF P, out
<1>7. /\ link' \in Links
      /\ \A l \in Wires : Carried(link', l)
           \subseteq Carried(link, l) \union (IF l = Out(e) THEN P ELSE {})
  BY <1>1, <1>2, <1>4, Transmission DEF out
<1> HIDE DEF s
<1>8. (sock \in [Ends -> Socket])' /\ EarlySockets' /\ EarlyLinks'
  <2>1. s \in Socket /\ \A c \in Clients : Connecting(c)' => Connecting(c)
    BY <1>1, <1>2 DEF s, Connecting
  <2> QED
    BY <1>5, <1>6, <1>7, <2>1, EndStep DEF IInv
<1>9. AcceptInv' /\ EarlyHosts'
  BY <1>1, HostStep DEF IInv, Connecting
<1> QED
  BY <1>1, <1>7, <1>8, <1>9 DEF IInv, Types

LEMMA TimewaitOverStep ==
  ASSUME IInv, NEW e \in Ends, TimewaitOver(e)
  PROVE  IInv'
<1>1. e \in timewait /\ timewait' \subseteq timewait /\ UNCHANGED <<app, link, acceptVars, ipVars>>
      /\ sock' = [sock EXCEPT ![e].state = "CLOSED"]
  BY DEF TimewaitOver, netVars
<1>2. Connecting(e[1])' => IsClient(e)
  BY <1>1 DEF IInv, EarlyHosts, Connecting
<1>3. /\ "CLOSED" \in States /\ app' \in [Clients -> Places]
      /\ \A d \in Clients : Connecting(d)' => Connecting(d)
  BY <1>1 DEF IInv, Types, States, Connecting
<1>4. Types' /\ EarlySockets' /\ EarlyLinks'
  BY <1>1, <1>2, <1>3, StateSet DEF IInv
<1>5. AcceptInv' /\ EarlyHosts'
  BY <1>1, <1>2, <1>3, HostStep DEF IInv
<1> QED
  BY <1>4, <1>5 DEF IInv
-----------------------------------------------------------------------------
(* The invariant and the theorems.                                          *)

LEMMA InitIInv == Init => IInv
<1> SUFFICES ASSUME Init PROVE IInv
  OBVIOUS
<1> USE DEF Init
<1>1. Types
  <2>1. sock \in [Ends -> Socket]
    <3>1. \A e \in Ends : [state |-> "CLOSED", snd_nxt |-> Iss(e), rcv_nxt |-> 0,
                            send_buf |-> {}, received |-> 0] \in Socket
      BY DEF Socket, States, Iss
    <3> QED
      BY <3>1
  <2>2. link \in Links
    BY DEF Links, Wires
  <2> QED
    BY <2>1, <2>2 DEF Types, Places
<1>2. AcceptInv
  BY DEF AcceptInv, AcceptWakes
<1>3. EarlySockets
  BY DEF EarlySockets, Early, Iss
<1>4. EarlyLinks
  <2>1. \A l \in Wires : link[l] = <<>>
    BY DEF Wires
  <2> QED
    BY <2>1, EndsOf DEF EarlyLinks, Carried
<1>5. EarlyHosts
  BY DEF EarlyHosts, Unseen
<1> QED
  BY <1>1, <1>2, <1>3, <1>4, <1>5 DEF IInv

LEMMA StepIInv == IInv /\ [Next]_vars => IInv'
<1> SUFFICES ASSUME IInv, [Next]_vars PROVE IInv'
  OBVIOUS
<1>1. ASSUME NEW c \in Clients, ClientIp(c) PROVE IInv'
  BY <1>1, EndsOf, HandleStep, ConnConstants DEF ClientIp, ConnConstants
<1>2. CASE UNCHANGED vars
  BY <1>2 DEF vars, connVars, acceptVars, ipVars, netVars, IInv, Types, AcceptInv, AcceptWakes,
              EarlySockets, EarlyLinks, EarlyHosts, Unseen, Connecting
<1>3. CASE Finished
  BY <1>2, <1>3 DEF Finished
<1> QED
  BY <1>1, <1>2, <1>3, AppStep, AcceptStep, ServerIpStep, TimewaitOverStep, RetransmitStep DEF Next

LEMMA Invariance == Spec => []IInv
<1>1. Init => IInv
  BY InitIInv
<1>2. IInv /\ [Next]_vars => IInv'
  BY StepIInv
<1> QED
  BY <1>1, <1>2, PTL DEF Spec

\* tcp_sock_accept never sleeps on a queued child without a wake-up on its way,
\* though it tests the queue and sleeps without a lock (tcp_sock.c:337-340).
THEOREM AcceptMissesNoWakeup == Spec => []AcceptWakes
<1>1. IInv => AcceptWakes
  BY DEF IInv, AcceptInv
<1> QED
  BY <1>1, Invariance, PTL

\* Whatever is lost and sent again, a child leaves SYN_RECV only after its client
\* has taken the SYN|ACK (tcp_in.c:165-205).
THEOREM HandshakeIsAgreed == Spec => []HandshakeAgreed
<1>1. IInv => HandshakeAgreed
  <2>1. ASSUME IInv, NEW e \in Ends, ~IsClient(e), sock[e].snd_nxt > 0,
               sock[e].state # "SYN_RECV", app[e[1]] \in {"connect", "wait"}
        PROVE  FALSE
    BY <2>1 DEF IInv, EarlySockets, Early, Connecting
  <2> QED
    BY <2>1 DEF HandshakeAgreed
<1> QED
  BY <1>1, Invariance, PTL
-----------------------------------------------------------------------------
(* One child for a client: a SYN that comes again finds the first one hashed, *)
(* and once a child may be unhashed no SYN can come any more.               *)

Up(c)   == link[<<c, "toServer">>]
Down(c) == link[<<c, "toClient">>]

AllSyn(w)  == \A k \in 1..Len(w) : w[k].flags = "SYN"
NoSyn(w)   == \A k \in 1..Len(w) : w[k].flags # "SYN"
SynIsOne(w) == \A k \in 1..Len(w) : w[k].flags = "SYN" => w[k].seq = 1
AcksSyn(w)  == \A k \in 1..Len(w) : w[k].flags = "SYNACK" => w[k].ack >= 2

\* A SYN is under way before everything else.
SynFirst(w) ==
  \A k, l \in 1..Len(w) : k < l /\ w[k].flags # "SYN" => w[l].flags # "SYN"

DownAcks(c) == AcksSyn(Down(c))

KeepsSyn(c) == \E p \in sock[<<c, 0>>].send_buf : p.flags = "SYN"

ClientOk(c) ==
  /\ \A p \in sock[<<c, 0>>].send_buf : p.flags = "SYN" => p.seq = 1
  /\ SynIsOne(Up(c)) /\ SynFirst(Up(c)) /\ DownAcks(c)
  /\ \A i \in 1..MaxChild : \A p \in sock[<<c, i>>].send_buf : p.flags = "SYNACK" => p.ack >= 2
  /\ c \in connected \/ ~Connecting(c) => ~KeepsSyn(c)
  /\ KeepsSyn(c) => AllSyn(Up(c))
  /\ app[c] = "connect" =>
       /\ sock[<<c, 0>>].snd_nxt = 1 /\ ~KeepsSyn(c)
       /\ <<c, 0>> \notin hashed /\ c \notin connected /\ Up(c) = <<>>

SentBy(e)  == <<sock[e].send_buf, sock[e].snd_nxt>>
Started(e) == sock[e].snd_nxt > 0
Known(e)   == e \in hashed \/ ~Unseen(e)

ChildOk(c) ==
  /\ app[c] = "connect" => \A i \in 1..MaxChild : ~Started(<<c, i>>)
  /\ \A i \in 1..MaxChild : Known(<<c, i>>) => Started(<<c, i>>)
  /\ \A i \in 1..MaxChild :
       Started(<<c, i>>) /\ <<c, i>> \notin hashed => ~KeepsSyn(c) /\ NoSyn(Up(c))
  /\ \A i, j \in 1..MaxChild : Started(<<c, i>>) /\ Started(<<c, j>>) => i = j

SynInv == \A c \in Clients : ClientOk(c) /\ ChildOk(c)

LEMMA SynTail ==
  ASSUME NEW w \in Seq(Packets), w # <<>>
  PROVE  /\ Head(w) = w[1] /\ Tail(w) \in Seq(Packets)
         /\ SynIsOne(w) => SynIsOne(Tail(w))
         /\ SynFirst(w) => SynFirst(Tail(w))
         /\ AcksSyn(w) => AcksSyn(Tail(w))
         /\ AllSyn(w) => AllSyn(Tail(w))
         /\ NoSyn(w) => NoSyn(Tail(w))
         /\ SynFirst(w) /\ Head(w).flags # "SYN" => NoSyn(Tail(w))
<1>1. /\ Len(w) \in Nat \ {0} /\ Len(Tail(w)) = Len(w) - 1 /\ Head(w) = w[1]
      /\ Tail(w) \in Seq(Packets)
      /\ \A k \in 1..Len(Tail(w)) : Tail(w)[k] = w[k + 1]
  OBVIOUS
<1> DEFINE u == Tail(w)
<1>2. \A k \in 1..Len(u) : k + 1 \in 1..Len(w) /\ u[k] = w[k + 1] /\ 1 < k + 1
  BY <1>1
<1>3. 1 \in 1..Len(w) /\ \A k, l \in 1..Len(u) : k < l => k + 1 < l + 1
  BY <1>1
<1> HIDE DEF u
<1>4. SynFirst(w) => SynFirst(u)
  BY <1>2, <1>3 DEF SynFirst
<1>5. SynFirst(w) /\ w[1].flags # "SYN" => NoSyn(u)
  BY <1>2, <1>3 DEF SynFirst, NoSyn
<1>6. /\ SynIsOne(w) => SynIsOne(u)
      /\ AcksSyn(w) => AcksSyn(u)
      /\ AllSyn(w) => AllSyn(u)
      /\ NoSyn(w) => NoSyn(u)
  BY <1>2 DEF SynIsOne, AcksSyn, AllSyn, NoSyn
<1> QED
  BY <1>1, <1>4, <1>5, <1>6 DEF u

LEMMA SynAppend ==
  ASSUME NEW w \in Seq(Packets), NEW q \in Packets
  PROVE  LET u == w \o <<q>>
         IN  /\ u # <<>>
             /\ SynIsOne(w) /\ (q.flags = "SYN" => q.seq = 1) => SynIsOne(u)
             /\ SynFirst(w) /\ (q.flags # "SYN" \/ AllSyn(w)) => SynFirst(u)
             /\ AcksSyn(w) /\ (q.flags = "SYNACK" => q.ack >= 2) => AcksSyn(u)
             /\ AllSyn(w) /\ q.flags = "SYN" => AllSyn(u)
             /\ NoSyn(w) /\ q.flags # "SYN" => NoSyn(u)
<1> DEFINE u == w \o <<q>>
           n == Len(w) + 1
<1>1. /\ Len(w) \in Nat /\ Len(u) = n /\ u[n] = q
      /\ \A k \in 1..Len(w) : u[k] = w[k]
  OBVIOUS
<1>2. \A k \in 1..Len(u) : (k \in 1..Len(w) /\ u[k] = w[k]) \/ (k = n /\ u[k] = q)
  BY <1>1
<1>3. \A k, l \in 1..Len(u) : k < l => k \in 1..Len(w) /\ u[k] = w[k]
  BY <1>1
<1>4. u # <<>>
  BY <1>1
<1> HIDE DEF u, n
<1>5. SynFirst(w) /\ (q.flags # "SYN" \/ AllSyn(w)) => SynFirst(u)
  BY <1>2, <1>3 DEF SynFirst, AllSyn
<1>6. /\ SynIsOne(w) /\ (q.flags = "SYN" => q.seq = 1) => SynIsOne(u)
      /\ AcksSyn(w) /\ (q.flags = "SYNACK" => q.ack >= 2) => AcksSyn(u)
      /\ AllSyn(w) /\ q.flags = "SYN" => AllSyn(u)
      /\ NoSyn(w) /\ q.flags # "SYN" => NoSyn(u)
  BY <1>2 DEF SynIsOne, AcksSyn, AllSyn, NoSyn
<1> QED
  BY <1>4, <1>5, <1>6 DEF u

LEMMA InitSyn == Init => SynInv
<1> SUFFICES ASSUME Init, NEW c \in Clients PROVE ClientOk(c) /\ ChildOk(c)
  BY DEF SynInv
<1>1. Up(c) = <<>> /\ Down(c) = <<>>
  BY DEF Init, Up, Down
<1>2. \A i \in 0..MaxChild : /\ sock[<<c, i>>].send_buf = {}
                             /\ sock[<<c, i>>].snd_nxt = IF i = 0 THEN 1 ELSE 0
  BY EndsOf DEF Init, Iss
<1>3. 0 \in 0..MaxChild /\ \A i \in 1..MaxChild : i \in 0..MaxChild /\ i # 0
  BY ConnConstants DEF ConnConstants
<1>4. /\ hashed = {} /\ connected = {} /\ app[c] = "connect"
      /\ accept_queue = <<>> /\ Len(accept_queue) = 0 /\ apc = "test" /\ ipc = "idle"
  BY DEF Init
<1>5. \A i \in 1..MaxChild : ~Known(<<c, i>>) /\ ~Started(<<c, i>>)
  BY <1>2, <1>3, <1>4 DEF Known, Unseen, Started
<1>6. ~KeepsSyn(c)
  BY <1>2, <1>3 DEF KeepsSyn
<1>7. SynIsOne(<<>>) /\ SynFirst(<<>>) /\ AcksSyn(<<>>)
  BY DEF SynIsOne, SynFirst, AcksSyn
<1>8. ClientOk(c)
  BY <1>1, <1>2, <1>3, <1>4, <1>6, <1>7 DEF ClientOk, DownAcks
<1>9. ChildOk(c)
  BY <1>5 DEF ChildOk
<1> QED
  BY <1>8, <1>9

\* A step that is nothing to what client d and its children send.
Quiet(d) ==
  /\ \A j \in 0..MaxChild : UNCHANGED SentBy(<<d, j>>)
  /\ UNCHANGED Up(d) /\ DownAcks(d)'
  /\ app'[d] = "connect" => app[d] = "connect"
  /\ d \in connected' => d \in connected
  /\ ~Connecting(d)' => d \in connected \/ ~Connecting(d)
  /\ <<d, 0>> \in hashed' => <<d, 0>> \in hashed \/ app[d] # "connect"
  /\ \A i \in 1..MaxChild : /\ <<d, i>> \in hashed => <<d, i>> \in hashed'
                            /\ Known(<<d, i>>)' => Known(<<d, i>>)

LEMMA SynFrame ==
  ASSUME NEW d \in Clients, ClientOk(d), ChildOk(d), Quiet(d)
  PROVE  ClientOk(d)' /\ ChildOk(d)'
<1>1. 0 \in 0..MaxChild /\ \A i \in 1..MaxChild : i \in 0..MaxChild
  BY ConnConstants DEF ConnConstants
<1>2. KeepsSyn(d)' <=> KeepsSyn(d)
  BY <1>1 DEF KeepsSyn, SentBy, Quiet
<1>3. \A i \in 1..MaxChild : Started(<<d, i>>)' <=> Started(<<d, i>>)
  BY <1>1 DEF Started, SentBy, Quiet
<1>4. ClientOk(d)'
  BY <1>1, <1>2 DEF ClientOk, SentBy, Quiet
<1>5. ChildOk(d)'
  BY <1>2, <1>3 DEF ChildOk, Quiet
<1> QED
  BY <1>4, <1>5

\* What a step of end e leaves alone.
Elsewhere(e) ==
  /\ \A x \in Ends \ {e} : sock'[x] = sock[x]
  /\ \A w \in Wires \ {In(e), Out(e)} : link'[w] = link[w]
  /\ \A d \in Clients \ {e[1]} : app'[d] = app[d] /\ (d \in connected' <=> d \in connected)
  /\ \A x \in Ends \ {e} : (x \in hashed' <=> x \in hashed) /\ (Unseen(x) => Unseen(x)')

LEMMA OtherSyn ==
  ASSUME SynInv, NEW e \in Ends, Elsewhere(e), NEW d \in Clients \ {e[1]}
  PROVE  ClientOk(d)' /\ ChildOk(d)'
<1>1. \A j \in 0..MaxChild : <<d, j>> \in Ends \ {e}
  BY EndsOf
<1>2. 0 \in 0..MaxChild /\ \A i \in 1..MaxChild : i \in 0..MaxChild
  BY ConnConstants DEF ConnConstants
<1>3. UNCHANGED Up(d) /\ UNCHANGED Down(d)
  <2>1. \A x \in {"toServer", "toClient"} : <<d, x>> \in Wires \ {In(e), Out(e)}
    BY DEF Wires, In, Out
  <2> QED
    BY <2>1 DEF Up, Down, Elsewhere
<1>4. ClientOk(d) /\ ChildOk(d)
  BY DEF SynInv
<1>5. DownAcks(d)'
  BY <1>3, <1>4 DEF ClientOk, DownAcks
<1>6. \A i \in 1..MaxChild : /\ <<d, i>> \in hashed => <<d, i>> \in hashed'
                             /\ Known(<<d, i>>)' => Known(<<d, i>>)
  BY <1>1, <1>2 DEF Known, Elsewhere
<1>7. <<d, 0>> \in hashed' => <<d, 0>> \in hashed
  BY <1>1, <1>2 DEF Elsewhere
<1>8. \A j \in 0..MaxChild : UNCHANGED SentBy(<<d, j>>)
  BY <1>1 DEF SentBy, Elsewhere
<1>9. app'[d] = app[d] /\ (d \in connected' <=> d \in connected)
  BY DEF Elsewhere
<1>10. ~Connecting(d)' => d \in connected \/ ~Connecting(d)
  BY <1>9 DEF Connecting
<1>11. Quiet(d)
  BY <1>3, <1>5, <1>6, <1>7, <1>8, <1>9, <1>10 DEF Quiet
<1> QED
  BY <1>4, <1>11, SynFrame

\* A step of client c, once it has begun to connect, that sends at most q.
ClientMoves(c, q) ==
  LET s == sock'[<<c, 0>>].send_buf
      t == sock[<<c, 0>>].send_buf
  IN  /\ Elsewhere(<<c, 0>>)
      /\ Up(c)' = Up(c) \/ Up(c)' = Up(c) \o <<q>>
      /\ \A p \in s : p \in t \/ p.flags # "SYN"
      /\ \/ Up(c)' = Up(c)
         \/ q.flags # "SYN" /\ ~KeepsSyn(c)
         \/ q.flags = "SYN" /\ q \in t
      /\ DownAcks(c)' /\ app[c] # "connect" /\ app'[c] # "connect"
      /\ c \in connected' \/ ~Connecting(c)' => ~KeepsSyn(c)'

LEMMA ClientSyn ==
  ASSUME SynInv, NEW c \in Clients, NEW q \in Packets, Up(c) \in Seq(Packets), ClientMoves(c, q)
  PROVE  SynInv'
<1> DEFINE e == <<c, 0>>
           s == sock'[e].send_buf
           t == sock[e].send_buf
<1>1. e \in Ends /\ e[1] = c /\ \A i \in 1..MaxChild : <<c, i>> \in Ends \ {e}
  BY EndsOf, ConnConstants DEF ConnConstants
<1>2. ClientOk(c) /\ ChildOk(c)
  BY DEF SynInv
<1>3. KeepsSyn(c)' => KeepsSyn(c)
  BY DEF ClientMoves, KeepsSyn
<1>4. \A p \in s : p.flags = "SYN" => p.seq = 1
  BY <1>2 DEF ClientMoves, ClientOk, KeepsSyn
<1>5. q.flags = "SYN" /\ Up(c)' # Up(c) => q.seq = 1 /\ KeepsSyn(c)
  BY <1>2 DEF ClientMoves, ClientOk, KeepsSyn
<1>6. q.flags # "SYN" /\ Up(c)' # Up(c) => ~KeepsSyn(c)
  BY DEF ClientMoves
<1>7. SynIsOne(Up(c)) /\ SynFirst(Up(c)) /\ (KeepsSyn(c) => AllSyn(Up(c)))
  BY <1>2 DEF ClientOk
<1>8. Up(c)' = Up(c) \/ Up(c)' = Up(c) \o <<q>>
  BY DEF ClientMoves
<1>9. SynIsOne(Up(c)') /\ SynFirst(Up(c)')
  BY <1>5, <1>7, <1>8, SynAppend
<1>10. KeepsSyn(c)' => AllSyn(Up(c)')
  BY <1>3, <1>6, <1>7, <1>8, SynAppend
<1>11. \A i \in 1..MaxChild : sock'[<<c, i>>] = sock[<<c, i>>]
  BY <1>1 DEF ClientMoves, Elsewhere
<1>12. ClientOk(c)'
  BY <1>2, <1>4, <1>9, <1>10, <1>11 DEF ClientMoves, ClientOk, SynIsOne, SynFirst, AllSyn
<1>13. \A i \in 1..MaxChild : Started(<<c, i>>)' <=> Started(<<c, i>>)
  BY <1>11 DEF Started
<1>14. ~KeepsSyn(c) /\ NoSyn(Up(c)) => ~KeepsSyn(c)' /\ NoSyn(Up(c)')
  BY <1>3, <1>5, <1>8, SynAppend
<1>15. \A i \in 1..MaxChild : (<<c, i>> \in hashed' <=> <<c, i>> \in hashed)
                              /\ (Known(<<c, i>>)' => Known(<<c, i>>))
  BY <1>1 DEF ClientMoves, Elsewhere, Known
<1>16. ChildOk(c)'
  BY <1>2, <1>13, <1>14, <1>15 DEF ClientMoves, ChildOk, NoSyn
<1>17. \A d \in Clients \ {c} : ClientOk(d)' /\ ChildOk(d)'
  <2> HIDE DEF e
  <2> QED
    BY <1>1, OtherSyn DEF ClientMoves, e
<1> QED
  BY <1>12, <1>16, <1>17 DEF SynInv

\* A step of child i that takes its client's next packet.
ChildMoves(c, i) ==
  LET e == <<c, i>>
  IN  /\ Elsewhere(e) /\ UNCHANGED app
      /\ c \in connected' => c \in connected \/ ~KeepsSyn(c)
      /\ Up(c)' = Tail(Up(c)) /\ DownAcks(c)'
      /\ Started(e)'
      /\ \A p \in sock'[e].send_buf : p.flags = "SYNACK" => p.ack >= 2
      /\ e \in hashed' \/ (~KeepsSyn(c) /\ NoSyn(Tail(Up(c))))
      /\ Started(e) \/ \A j \in 1..MaxChild : ~Started(<<c, j>>)

LEMMA ChildSyn ==
  ASSUME SynInv, NEW c \in Clients, NEW i \in 1..MaxChild, ChildMoves(c, i),
         Up(c) \in Seq(Packets), Up(c) # <<>>
  PROVE  SynInv'
<1> DEFINE e == <<c, i>>
<1>1. /\ e \in Ends /\ e[1] = c /\ <<c, 0>> \in Ends \ {e}
      /\ \A j \in 1..MaxChild : j # i => <<c, j>> \in Ends \ {e}
  BY EndsOf, ConnConstants DEF ConnConstants
<1>2. ClientOk(c) /\ ChildOk(c)
  BY DEF SynInv
<1>3. Elsewhere(e)
  BY DEF ChildMoves
<1>4. sock'[<<c, 0>>] = sock[<<c, 0>>] /\ (<<c, 0>> \in hashed' <=> <<c, 0>> \in hashed)
  BY <1>1, <1>3 DEF Elsewhere
<1>5. \A j \in 1..MaxChild : j # i => /\ sock'[<<c, j>>] = sock[<<c, j>>]
                                      /\ <<c, j>> \in hashed' <=> <<c, j>> \in hashed
                                      /\ Unseen(<<c, j>>) => Unseen(<<c, j>>)'
  BY <1>1, <1>3 DEF Elsewhere
<1>6. KeepsSyn(c)' <=> KeepsSyn(c)
  BY <1>4 DEF KeepsSyn
<1>7. app[c] # "connect" /\ app'[c] # "connect"
  BY <1>2 DEF ClientOk, ChildMoves
<1>8. SynIsOne(Tail(Up(c))) /\ SynFirst(Tail(Up(c))) /\ (KeepsSyn(c) => AllSyn(Tail(Up(c))))
  BY <1>2, SynTail DEF ClientOk
<1>9. \A j \in 1..MaxChild : \A p \in sock'[<<c, j>>].send_buf : p.flags = "SYNACK" => p.ack >= 2
  BY <1>2, <1>5 DEF ClientOk, ChildMoves
<1>10. (Connecting(c)' <=> Connecting(c)) /\ (c \in connected' => c \in connected \/ ~KeepsSyn(c))
  BY DEF Connecting, ChildMoves
<1>11. ClientOk(c)'
  <2>1. /\ \A p \in sock'[<<c, 0>>].send_buf : p.flags = "SYN" => p.seq = 1
        /\ c \in connected' \/ ~Connecting(c)' => ~KeepsSyn(c)'
    BY <1>2, <1>4, <1>6, <1>10 DEF ClientOk
  <2>2. SynIsOne(Up(c))' /\ SynFirst(Up(c))' /\ (KeepsSyn(c)' => AllSyn(Up(c))')
    BY <1>6, <1>8 DEF SynIsOne, SynFirst, AllSyn, ChildMoves
  <2>3. DownAcks(c)'
    BY DEF ChildMoves
  <2> QED
    BY <1>7, <1>9, <2>1, <2>2, <2>3 DEF ClientOk
<1>12. Started(e)' /\ \A j \in 1..MaxChild : j # i => (Started(<<c, j>>)' <=> Started(<<c, j>>))
  BY <1>5 DEF Started, ChildMoves
<1>13. NoSyn(Up(c)) => NoSyn(Tail(Up(c)))
  BY SynTail
<1>14. ChildOk(c)'
  <2>1. \A j \in 1..MaxChild : Known(<<c, j>>)' => Started(<<c, j>>)'
    BY <1>2, <1>5, <1>12 DEF ChildOk, Known
  <2>2. \A j \in 1..MaxChild :
          Started(<<c, j>>)' /\ <<c, j>> \notin hashed' => ~KeepsSyn(c)' /\ NoSyn(Up(c))'
    BY <1>2, <1>5, <1>6, <1>12, <1>13 DEF ChildOk, NoSyn, ChildMoves
  <2>3. \A j, k \in 1..MaxChild : Started(<<c, j>>)' /\ Started(<<c, k>>)' => j = k
    BY <1>2, <1>12 DEF ChildOk, ChildMoves
  <2> QED
    BY <1>7, <2>1, <2>2, <2>3 DEF ChildOk
<1>15. \A d \in Clients \ {c} : ClientOk(d)' /\ ChildOk(d)'
  <2> HIDE DEF e
  <2> QED
    BY <1>1, <1>3, OtherSyn DEF e
<1> QED
  BY <1>11, <1>14, <1>15 DEF SynInv

\* Where the sending of one end reaches.
LEMMA EndReach ==
  ASSUME link \in Links, NEW e \in Ends, NEW before \in Links, NEW out,
         \A w \in Wires \ {In(e)} : before[w] = link[w], Transmit(before, e, out)
  PROVE  /\ \A w \in Wires \ {In(e), Out(e)} : link'[w] = link[w]
         /\ link'[In(e)] = before[In(e)]
         /\ link'[Out(e)] = link[Out(e)] \/ link'[Out(e)] = link[Out(e)] \o out
<1>1. In(e) \in Wires /\ Out(e) \in Wires
  BY EndsOf
<1>2. In(e) # Out(e)
  BY DEF In, Out
<1>3. link' = before \/ link' = [before EXCEPT ![Out(e)] = @ \o out]
  BY <1>1 DEF Transmit, Links
<1> QED
  BY <1>1, <1>2, <1>3 DEF Links

\* A step that changes nothing but states of sockets and the accept loop.
LEMMA QuietSyn ==
  ASSUME SynInv, UNCHANGED link, \A e \in Ends : UNCHANGED SentBy(e),
         \A d \in Clients : /\ app'[d] = "connect" => app[d] = "connect"
                            /\ ~Connecting(d)' => d \in connected \/ ~Connecting(d)
                            /\ <<d, 0>> \in hashed' => <<d, 0>> \in hashed \/ app[d] # "connect",
         connected' \subseteq connected, hashed \subseteq hashed',
         \A e \in Ends : Known(e)' => Known(e)
  PROVE  SynInv'
<1> SUFFICES ASSUME NEW d \in Clients PROVE ClientOk(d)' /\ ChildOk(d)'
  BY DEF SynInv
<1>1. ClientOk(d) /\ ChildOk(d)
  BY DEF SynInv
<1>2. /\ \A j \in 0..MaxChild : <<d, j>> \in Ends
      /\ \A i \in 1..MaxChild : <<d, i>> \in Ends
  BY EndsOf
<1>3. UNCHANGED Up(d) /\ DownAcks(d)'
  BY <1>1 DEF Up, Down, DownAcks, ClientOk
<1>4. \A j \in 0..MaxChild : UNCHANGED SentBy(<<d, j>>)
  BY <1>2
<1>5. \A i \in 1..MaxChild : /\ <<d, i>> \in hashed => <<d, i>> \in hashed'
                             /\ Known(<<d, i>>)' => Known(<<d, i>>)
  BY <1>2
<1>6. Quiet(d)
  BY <1>3, <1>4, <1>5 DEF Quiet
<1> QED
  BY <1>1, <1>6, SynFrame

\* The states of sockets are not what they send.
LEMMA StateSends ==
  ASSUME sock \in [Ends -> Socket], NEW x \in Ends, NEW state,
         sock' = [sock EXCEPT ![x].state = state]
  PROVE  \A e \in Ends : UNCHANGED SentBy(e)
<1>1. sock' = [sock EXCEPT ![x] = [sock[x] EXCEPT !.state = state]]
  OBVIOUS
<1>2. \A e \in Ends : sock[e] \in Socket
  OBVIOUS
<1>3. \A e \in Ends : sock'[e].send_buf = sock[e].send_buf /\ sock'[e].snd_nxt = sock[e].snd_nxt
  BY <1>1, <1>2 DEF Socket
<1> QED
  BY <1>3 DEF SentBy
-----------------------------------------------------------------------------
(* What the client sends.                                                   *)

\* What a step of the client's socket leaves alone.
LEMMA ClientElsewhere ==
  ASSUME IInv, NEW c \in Clients, NEW before \in Links, NEW s, NEW out,
         \A w \in Wires \ {<<c, "toClient">>} : before[w] = link[w],
         sock' = [sock EXCEPT ![<<c, 0>>] = s], Transmit(before, <<c, 0>>, out),
         \A d \in Clients \ {c} : app'[d] = app[d] /\ (d \in connected' <=> d \in connected),
         \A x \in Ends \ {<<c, 0>>} : (x \in hashed' <=> x \in hashed) /\ (Unseen(x) => Unseen(x)')
  PROVE  /\ Elsewhere(<<c, 0>>) /\ sock'[<<c, 0>>] = s
         /\ Up(c)' = Up(c) \/ Up(c)' = Up(c) \o out
         /\ Down(c)' = before[<<c, "toClient">>]
         /\ Up(c) \in Seq(Packets) /\ Down(c) \in Seq(Packets)
<1> DEFINE e == <<c, 0>>
<1>1. e \in Ends
  BY EndsOf, ConnConstants DEF ConnConstants
<1>2. e[1] = c /\ In(e) = <<c, "toClient">> /\ Out(e) = <<c, "toServer">>
  BY EndsOf, ConnConstants DEF ConnConstants
<1>3. Types
  BY DEF IInv
<1>4. Up(c) \in Seq(Packets) /\ Down(c) \in Seq(Packets)
  BY <1>3 DEF Types, Links, Wires, Up, Down
<1>5. Transmit(before, e, out)
  OBVIOUS
<1>6. sock' = [sock EXCEPT ![e] = s]
  OBVIOUS
<1>7. \A w \in Wires \ {In(e)} : before[w] = link[w]
  BY <1>2
<1>8. /\ \A d \in Clients \ {e[1]} : app'[d] = app[d] /\ (d \in connected' <=> d \in connected)
      /\ \A x \in Ends \ {e} : (x \in hashed' <=> x \in hashed) /\ (Unseen(x) => Unseen(x)')
  BY <1>2
<1> HIDE DEF e
<1>9. sock'[e] = s /\ \A x \in Ends \ {e} : sock'[x] = sock[x]
  BY <1>1, <1>3, <1>6 DEF Types
<1>10. /\ \A w \in Wires \ {In(e), Out(e)} : link'[w] = link[w]
       /\ link'[In(e)] = before[In(e)]
       /\ link'[Out(e)] = link[Out(e)] \/ link'[Out(e)] = link[Out(e)] \o out
  BY <1>1, <1>3, <1>5, <1>7, EndReach DEF Types
<1>11. Elsewhere(e)
  BY <1>8, <1>9, <1>10 DEF Elsewhere
<1> QED
  BY <1>2, <1>4, <1>9, <1>10, <1>11 DEF Up, Down, e

\* tcp_sock_connect: the client's first packet.
LEMMA ConnectSyn ==
  ASSUME IInv, SynInv, NEW c \in Clients, Connect(c)
  PROVE  SynInv'
<1> DEFINE e == <<c, 0>>
           s == [sock[e] EXCEPT !.state = "SYN_SENT"]
           q == Packet(s, "SYN")
           r == Sent(s, "SYN")
<1>1. e \in Ends /\ \A i \in 1..MaxChild : <<c, i>> \in Ends \ {e}
  BY EndsOf, ConnConstants DEF ConnConstants
<1>2. app[c] = "connect" /\ app' = [app EXCEPT ![c] = "wait"] /\ app \in [Clients -> Places]
  BY DEF Connect, At, IInv, Types
<1>3. sock' = [sock EXCEPT ![e] = r] /\ Transmit(link, e, <<q>>)
  BY DEF Connect, Send
<1>4. UNCHANGED <<connected, acceptVars, ipVars>> /\ hashed' = hashed \union {e}
  BY DEF Connect
<1>5. ClientOk(c) /\ ChildOk(c)
  BY DEF SynInv
<1>6. /\ sock[e].snd_nxt = 1 /\ ~KeepsSyn(c) /\ c \notin connected /\ Up(c) = <<>> /\ DownAcks(c)
  BY <1>2, <1>5 DEF ClientOk
<1>7. sock[e] \in Socket
  BY <1>1 DEF IInv, Types
<1>8. s \in Socket /\ s.snd_nxt = 1 /\ s.send_buf = sock[e].send_buf
  BY <1>6, <1>7 DEF Socket, States
<1> HIDE DEF s
<1>9. q \in Packets /\ q.flags = "SYN" /\ q.seq = 1
  BY <1>8, PacketType DEF Flags, Packet
<1>10. r.send_buf \subseteq sock[e].send_buf \union {q}
  BY <1>8, SentType DEF Flags
<1> HIDE DEF q, r
<1>11. link \in Links
  BY DEF IInv, Types
<1>12. /\ Elsewhere(e) /\ sock'[e] = r
       /\ Up(c)' = Up(c) \/ Up(c)' = Up(c) \o <<q>>
       /\ Down(c)' = link[<<c, "toClient">>]
  <2> DEFINE out == <<q>>
  <2>1. \A d \in Clients \ {c} : app'[d] = app[d] /\ (d \in connected' <=> d \in connected)
    BY <1>2, <1>4
  <2>2. \A x \in Ends \ {e} : (x \in hashed' <=> x \in hashed) /\ (Unseen(x) => Unseen(x)')
    BY <1>4 DEF Unseen, acceptVars, ipVars
  <2>3. Transmit(link, e, out) /\ \A w \in Wires \ {<<c, "toClient">>} : link[w] = link[w]
    BY <1>3
  <2> HIDE DEF out
  <2>4. /\ Elsewhere(e) /\ sock'[e] = r
        /\ Up(c)' = Up(c) \/ Up(c)' = Up(c) \o out
        /\ Down(c)' = link[<<c, "toClient">>]
    BY <1>3, <1>11, <2>1, <2>2, <2>3, ClientElsewhere
  <2> QED
    BY <2>4 DEF out
<1>13. \A i \in 1..MaxChild : sock'[<<c, i>>] = sock[<<c, i>>]
  BY <1>1, <1>12 DEF Elsewhere
<1>14. AllSyn(Up(c)') /\ SynIsOne(Up(c)') /\ SynFirst(Up(c)')
  <2>1. AllSyn(<<>>) /\ SynIsOne(<<>>) /\ SynFirst(<<>>) /\ <<>> \in Seq(Packets)
    BY DEF AllSyn, SynIsOne, SynFirst
  <2> QED
    BY <1>6, <1>9, <1>12, <2>1, SynAppend
<1>15. \A p \in r.send_buf : p.flags = "SYN" => p.seq = 1
  BY <1>6, <1>9, <1>10 DEF KeepsSyn
<1>16. DownAcks(c)'
  BY <1>6, <1>12 DEF DownAcks, Down
<1>17. app'[c] = "wait"
  BY <1>2
<1>18. ClientOk(c)'
  BY <1>4, <1>5, <1>6, <1>12, <1>13, <1>14, <1>15, <1>16, <1>17
     DEF ClientOk, Connecting, SynIsOne, SynFirst, AllSyn
<1>19. ChildOk(c)'
  <2>1. \A i \in 1..MaxChild : ~Started(<<c, i>>) /\ ~Known(<<c, i>>)
    BY <1>2, <1>5 DEF ChildOk
  <2>2. \A i \in 1..MaxChild : ~Started(<<c, i>>)' /\ ~Known(<<c, i>>)'
    BY <1>1, <1>12, <1>13, <2>1 DEF Started, Known, Elsewhere
  <2> QED
    BY <2>2 DEF ChildOk
<1>20. \A d \in Clients \ {c} : ClientOk(d)' /\ ChildOk(d)'
  <2>1. e[1] = c
    OBVIOUS
  <2> HIDE DEF e
  <2> QED
    BY <1>1, <1>12, <2>1, OtherSyn
<1> QED
  BY <1>18, <1>19, <1>20 DEF SynInv

\* Its other packets: the SYN is acknowledged by then.
LEMMA ClientSendsSyn ==
  ASSUME IInv, SynInv, NEW c \in Clients, NEW state \in States, NEW flags \in Flags \ {"SYN"},
         NEW from \in Places, NEW to \in Places, At(c, from, to), Send(c, state, flags),
         {from, to} \cap {"connect", "wait"} = {},
         UNCHANGED <<hashed, connected, acceptVars, ipVars>>
  PROVE  SynInv'
<1> DEFINE e == <<c, 0>>
           s == [sock[e] EXCEPT !.state = state]
           q == Packet(s, flags)
           r == Sent(s, flags)
<1>1. e \in Ends
  BY EndsOf, ConnConstants DEF ConnConstants
<1>2. app[c] = from /\ app' = [app EXCEPT ![c] = to] /\ app \in [Clients -> Places]
  BY DEF At, IInv, Types
<1>3. sock' = [sock EXCEPT ![e] = r] /\ Transmit(link, e, <<q>>)
  BY DEF Send
<1>4. ~Connecting(c) /\ ~Connecting(c)' /\ app[c] # "connect" /\ app'[c] # "connect"
  BY <1>2 DEF Connecting
<1>5. ~KeepsSyn(c) /\ DownAcks(c)
  BY <1>4 DEF SynInv, ClientOk
<1>6. sock[e] \in Socket /\ link \in Links
  BY <1>1 DEF IInv, Types
<1>7. s \in Socket /\ s.send_buf = sock[e].send_buf
  BY <1>6 DEF Socket
<1> HIDE DEF s
<1>8. q \in Packets /\ q.flags # "SYN"
  BY <1>7, PacketType
<1>9. r.send_buf \subseteq sock[e].send_buf \union {q}
  BY <1>7, SentType
<1> HIDE DEF q, r
<1>10. /\ Elsewhere(e) /\ sock'[e] = r
       /\ Up(c)' = Up(c) \/ Up(c)' = Up(c) \o <<q>>
       /\ Down(c)' = link[<<c, "toClient">>] /\ Up(c) \in Seq(Packets)
  <2> DEFINE out == <<q>>
  <2>1. \A d \in Clients \ {c} : app'[d] = app[d] /\ (d \in connected' <=> d \in connected)
    BY <1>2
  <2>2. \A x \in Ends \ {e} : (x \in hashed' <=> x \in hashed) /\ (Unseen(x) => Unseen(x)')
    BY DEF Unseen, acceptVars, ipVars
  <2>3. Transmit(link, e, out) /\ \A w \in Wires \ {<<c, "toClient">>} : link[w] = link[w]
    BY <1>3
  <2> HIDE DEF out
  <2>4. /\ Elsewhere(e) /\ sock'[e] = r
        /\ Up(c)' = Up(c) \/ Up(c)' = Up(c) \o out
        /\ Down(c)' = link[<<c, "toClient">>] /\ Up(c) \in Seq(Packets)
    BY <1>3, <1>6, <2>1, <2>2, <2>3, ClientElsewhere
  <2> QED
    BY <2>4 DEF out
<1>11. DownAcks(c)'
  BY <1>5, <1>10 DEF DownAcks, Down
<1>12. ~KeepsSyn(c)'
  BY <1>5, <1>8, <1>9, <1>10 DEF KeepsSyn
<1>13. ClientMoves(c, q)
  BY <1>4, <1>5, <1>8, <1>9, <1>10, <1>11, <1>12 DEF ClientMoves
<1> QED
  BY <1>8, <1>10, <1>13, ClientSyn
-----------------------------------------------------------------------------
(* What the handlers of tcp_process have in common.                         *)

Replies == {"ACK", "ACKFIN"}

\* The socket: nothing new is kept or sent but replies, and those not to a SYN.
SocketHandles(e, p, s, out) ==
  /\ s.snd_nxt >= sock[e].snd_nxt
  /\ \A q \in s.send_buf : q \in Received(sock[e], p).send_buf \/ q.flags \in Replies
  /\ \/ out = <<>>
     \/ p.flags \notin {"SYN", "SYNACK"} /\ \E q \in Packets : q.flags \in Replies /\ out = <<q>>

\* The tables and the accept loop.
HostHandles(e, p) ==
  /\ UNCHANGED app
  /\ UNCHANGED connected \/ (p.flags = "SYNACK" /\ connected' = connected \union {e[1]})
  /\ UNCHANGED hashed \/ (p.flags = "ACK" /\ hashed' = hashed \ {e})
  /\ \A x \in Ends \ {e} : Unseen(x) => Unseen(x)'

Handles(e, p) ==
  /\ e \in hashed /\ link[In(e)] # <<>> /\ p = Head(link[In(e)])
  /\ \E s, out : Becomes(e, s, out) /\ SocketHandles(e, p, s, out)
  /\ HostHandles(e, p)

LEMMA SentGrows ==
  ASSUME NEW s \in Socket, NEW flags \in Flags
  PROVE  /\ Sent(s, flags).snd_nxt >= s.snd_nxt
         /\ \A q \in Sent(s, flags).send_buf : q \in s.send_buf \/ q = Packet(s, flags)
<1>1. CASE flags = "ACK"
  BY <1>1 DEF Sent, Socket
<1>2. CASE flags # "ACK"
  <2>1. Sent(s, flags) = [s EXCEPT !.snd_nxt = @ + 1, !.send_buf = @ \union {Packet(s, flags)}]
    BY <1>2 DEF Sent
  <2> QED
    BY <2>1 DEF Socket
<1> QED
  BY <1>1, <1>2

LEMMA HandleHandles ==
  ASSUME IInv, NEW e \in Ends, Handle(e)
  PROVE  \E p \in Packets : Handles(e, p)
<1>1. PICK p : \/ SynAgain(e, p) \/ SynAck(e, p) \/ AckEnqueue(e, p) \/ Ack(e, p)
               \/ PshAck(e, p) \/ AckFin(e, p) \/ Fin(e, p)
  BY DEF Handle
<1>2. PICK flags : Arrives(e, flags, p)
  BY <1>1 DEF SynAgain, SynAck, AckEnqueue, Ack, PshAck, AckFin, Fin
<1>3. /\ p \in Packets /\ sock[e] \in Socket
      /\ Received(sock[e], p) \in Socket
      /\ Received(sock[e], p).snd_nxt = sock[e].snd_nxt
  BY <1>2, Arriving, ReceivedType
<1>4. e \in hashed /\ link[In(e)] # <<>> /\ p = Head(link[In(e)]) /\ p.flags = flags
  BY <1>2 DEF Arrives
<1> DEFINE s0 == Received(sock[e], p)
<1> HIDE DEF s0
<1>5. s0 \in Socket /\ s0.snd_nxt = sock[e].snd_nxt /\ s0.snd_nxt \in Nat
  BY <1>3 DEF s0, Socket
<1>6. ASSUME UNCHANGED <<acceptVars, ipVars>> PROVE \A x \in Ends \ {e} : Unseen(x) => Unseen(x)'
  BY <1>6 DEF Unseen, acceptVars, ipVars
<1>7. SocketHandles(e, p, s0, <<>>)
  BY <1>5 DEF SocketHandles, s0
<1>8. CASE SynAgain(e, p)
  <2>1. Becomes(e, s0, <<>>) /\ UNCHANGED <<app, hashed, connected, acceptVars, ipVars>>
    BY <1>8 DEF SynAgain, ipFrame, s0
  <2>2. HostHandles(e, p)
    BY <1>6, <2>1 DEF HostHandles
  <2> QED
    BY <1>3, <1>4, <1>7, <2>1, <2>2 DEF Handles
<1>9. CASE SynAck(e, p)
  <2>1. Becomes(e, s0, <<>>) /\ UNCHANGED <<app, hashed, acceptVars, ipVars>>
        /\ (UNCHANGED connected \/ connected' = connected \union {e[1]}) /\ p.flags = "SYNACK"
    BY <1>9 DEF SynAck, ipFrame, s0, Arrives
  <2>2. HostHandles(e, p)
    BY <1>6, <2>1 DEF HostHandles
  <2> QED
    BY <1>3, <1>4, <1>7, <2>1, <2>2 DEF Handles
<1>10. CASE AckEnqueue(e, p)
  <2>1. Becomes(e, s0, <<>>) /\ UNCHANGED <<app, hashed, connected, apc, popped>>
        /\ accept_queue' = Append(accept_queue, e) /\ child' = e
    BY <1>10 DEF AckEnqueue, s0
  <2>2. accept_queue \in Seq(Ends)
    BY DEF IInv, AcceptInv
  <2>3. \A k \in 1..Len(Append(accept_queue, e)) :
          \/ Append(accept_queue, e)[k] = e
          \/ k \in 1..Len(accept_queue) /\ Append(accept_queue, e)[k] = accept_queue[k]
    BY <2>2
  <2>4. \A x \in Ends \ {e} : Unseen(x) => Unseen(x)'
    BY <2>1, <2>3 DEF Unseen
  <2>5. HostHandles(e, p)
    BY <2>1, <2>4 DEF HostHandles
  <2> QED
    BY <1>3, <1>4, <1>7, <2>1, <2>5 DEF Handles
<1>11. CASE Ack(e, p)
  <2> DEFINE next == [FIN_WAIT_1 |-> "FIN_WAIT_2", LAST_ACK |-> "CLOSED"]
             r == IF s0.state \in DOMAIN next THEN [s0 EXCEPT !.state = next[@]] ELSE s0
  <2>1. Becomes(e, r, <<>>) /\ UNCHANGED <<app, connected, acceptVars, ipVars>>
        /\ (UNCHANGED hashed \/ hashed' = hashed \ {e}) /\ p.flags = "ACK"
    BY <1>11 DEF Ack, ipFrame, s0, Arrives
  <2>2. r.snd_nxt = s0.snd_nxt /\ r.send_buf = s0.send_buf
    BY <1>5 DEF Socket
  <2> HIDE DEF r
  <2>3. SocketHandles(e, p, r, <<>>)
    BY <1>5, <2>2 DEF SocketHandles, s0
  <2>4. HostHandles(e, p)
    BY <1>6, <2>1 DEF HostHandles
  <2> QED
    BY <1>3, <1>4, <2>1, <2>3, <2>4 DEF Handles
<1>12. CASE PshAck(e, p)
  <2> DEFINE est == [s0 EXCEPT !.state = IF @ = "SYN_RECV" THEN "ESTABLISHED" ELSE @]
             n   == SeqEnd(p)
             r   == IF p.seq = s0.rcv_nxt
                    THEN [est EXCEPT !.received = @ + 1, !.rcv_nxt = n] ELSE est
             q   == Packet(r, "ACK")
  <2>1. Becomes(e, r, <<q>>) /\ UNCHANGED <<app, hashed, connected, acceptVars, ipVars>>
        /\ p.flags = "PSHACK"
    BY <1>12 DEF PshAck, ipFrame, s0, Arrives
  <2>2. n \in Nat
    BY <1>3 DEF SeqEnd, Packets
  <2> HIDE DEF n
  <2>3. est \in Socket /\ est.snd_nxt = s0.snd_nxt /\ est.send_buf = s0.send_buf
    BY <1>5 DEF Socket, States
  <2> HIDE DEF est
  <2>4. r.snd_nxt = s0.snd_nxt /\ r.send_buf = s0.send_buf /\ r.rcv_nxt \in Nat
    BY <2>2, <2>3 DEF Socket
  <2> HIDE DEF r
  <2>5. q \in Packets /\ q.flags \in Replies
    BY <1>5, <2>4 DEF Packet, Packets, Replies
  <2> HIDE DEF q
  <2>6. SocketHandles(e, p, r, <<q>>)
    BY <1>5, <2>1, <2>4, <2>5 DEF SocketHandles, s0
  <2>7. HostHandles(e, p)
    BY <1>6, <2>1 DEF HostHandles
  <2> QED
    BY <1>3, <1>4, <2>1, <2>6, <2>7 DEF Handles
<1>13. CASE AckFin(e, p)
  <2> DEFINE r == [s0 EXCEPT !.state = "TIME_WAIT"]
             q == Packet(s0, "ACK")
  <2>1. Becomes(e, r, <<q>>) \/ Becomes(e, s0, <<>>)
    BY <1>13 DEF AckFin, s0
  <2>2. UNCHANGED <<app, hashed, connected, acceptVars, ipVars>> /\ p.flags = "ACKFIN"
    BY <1>13 DEF AckFin, ipFrame, Arrives
  <2>3. r.snd_nxt = s0.snd_nxt /\ r.send_buf = s0.send_buf
    BY <1>5 DEF Socket
  <2>4. q \in Packets /\ q.flags \in Replies
    BY <1>5, PacketType DEF Flags, Replies
  <2> HIDE DEF r, q
  <2>5. SocketHandles(e, p, r, <<q>>)
    BY <1>5, <2>2, <2>3, <2>4 DEF SocketHandles, s0
  <2>6. HostHandles(e, p)
    BY <1>6, <2>2 DEF HostHandles
  <2>7. \E s, out : Becomes(e, s, out) /\ SocketHandles(e, p, s, out)
    BY <1>7, <2>1, <2>5
  <2> QED
    BY <1>3, <1>4, <2>6, <2>7 DEF Handles
<1>14. CASE Fin(e, p)
  <2> DEFINE reply == [ESTABLISHED |-> "ACKFIN",   FIN_WAIT_2 |-> "ACK"]
             next  == [ESTABLISHED |-> "LAST_ACK", FIN_WAIT_2 |-> "TIME_WAIT"]
             est   == [s0 EXCEPT !.state = next[@]]
             f     == reply[s0.state]
             r     == Sent(est, f)
             q     == Packet(s0, f)
  <2>1. (s0.state \in DOMAIN next /\ Becomes(e, r, <<q>>)) \/ Becomes(e, s0, <<>>)
    BY <1>14 DEF Fin, s0
  <2>2. UNCHANGED <<app, hashed, connected, acceptVars, ipVars>> /\ p.flags = "FIN"
    BY <1>14 DEF Fin, ipFrame, Arrives
  <2>3. HostHandles(e, p)
    BY <1>6, <2>2 DEF HostHandles
  <2>4. ASSUME s0.state \in DOMAIN next PROVE SocketHandles(e, p, r, <<q>>)
    <3>1. next[s0.state] \in States /\ f \in Flags /\ f \in Replies
      BY <2>4 DEF States, Flags, Replies
    <3> HIDE DEF next, f
    <3>2. est \in Socket /\ est.snd_nxt = s0.snd_nxt /\ est.send_buf = s0.send_buf
      BY <1>5, <3>1 DEF Socket
    <3> HIDE DEF est
    <3>3. /\ q \in Packets /\ q.flags \in Replies
          /\ Packet(est, f).flags \in Replies
      BY <1>5, <3>1, <3>2, PacketType
    <3>4. r.snd_nxt >= s0.snd_nxt /\ \A x \in r.send_buf : x \in s0.send_buf \/ x.flags \in Replies
      BY <3>1, <3>2, <3>3, SentGrows
    <3> HIDE DEF q, r
    <3> QED
      BY <1>5, <2>2, <3>3, <3>4 DEF SocketHandles, s0
  <2> HIDE DEF q, r, next
  <2>5. \E s, out : Becomes(e, s, out) /\ SocketHandles(e, p, s, out)
    BY <1>7, <2>1, <2>4
  <2> QED
    BY <1>3, <1>4, <2>3, <2>5 DEF Handles
<1> QED
  BY <1>1, <1>8, <1>9, <1>10, <1>11, <1>12, <1>13, <1>14

\* What that means for the sockets and links.
LEMMA HandledReach ==
  ASSUME IInv, NEW e \in Ends, NEW p \in Packets, Handles(e, p)
  PROVE  /\ Elsewhere(e) /\ link'[In(e)] = Tail(link[In(e)])
         /\ \/ link'[Out(e)] = link[Out(e)]
            \/ /\ p.flags \notin {"SYN", "SYNACK"}
               /\ \E q \in Packets : q.flags \in Replies /\ link'[Out(e)] = link[Out(e)] \o <<q>>
         /\ sock'[e].snd_nxt >= sock[e].snd_nxt
         /\ \A q \in sock'[e].send_buf : q \in Received(sock[e], p).send_buf \/ q.flags \in Replies
<1> DEFINE rest == [link EXCEPT ![In(e)] = Tail(@)]
<1>1. PICK s, out : Becomes(e, s, out) /\ SocketHandles(e, p, s, out)
  BY DEF Handles
<1>2. link \in Links /\ sock \in [Ends -> Socket] /\ In(e) \in Wires /\ link[In(e)] # <<>>
  BY EndsOf DEF IInv, Types, Handles
<1>3. rest \in Links
  BY <1>2, Taking DEF IInv
<1>4. rest[In(e)] = Tail(link[In(e)]) /\ \A w \in Wires \ {In(e)} : rest[w] = link[w]
  BY <1>2 DEF Links
<1>5. Transmit(rest, e, out)
  BY <1>1 DEF Becomes
<1> HIDE DEF rest
<1>6. /\ \A w \in Wires \ {In(e), Out(e)} : link'[w] = link[w]
      /\ link'[In(e)] = rest[In(e)]
      /\ link'[Out(e)] = link[Out(e)] \/ link'[Out(e)] = link[Out(e)] \o out
  BY <1>2, <1>3, <1>4, <1>5, EndReach
<1>7. sock'[e] = s /\ \A x \in Ends \ {e} : sock'[x] = sock[x]
  BY <1>1, <1>2 DEF Becomes
<1>8. Elsewhere(e)
  BY <1>6, <1>7 DEF Elsewhere, Handles, HostHandles
<1>9. link[Out(e)] \o <<>> = link[Out(e)]
  BY <1>2, EndsOf DEF Links
<1> QED
  BY <1>1, <1>4, <1>6, <1>7, <1>8, <1>9 DEF SocketHandles

LEMMA ClientHandlesSyn ==
  ASSUME IInv, SynInv, NEW c \in Clients, Handle(<<c, 0>>)
  PROVE  SynInv'
<1> DEFINE e == <<c, 0>>
<1>1. e \in Ends /\ e[1] = c /\ IsClient(e)
      /\ link[In(e)] = Down(c) /\ link'[In(e)] = Down(c)'
      /\ link[Out(e)] = Up(c) /\ link'[Out(e)] = Up(c)'
  BY EndsOf, ConnConstants DEF ConnConstants, Up, Down
<1>2. PICK p \in Packets : Handles(e, p)
  BY <1>1, HandleHandles
<1>3. e \in hashed /\ Down(c) # <<>> /\ p = Head(Down(c)) /\ HostHandles(e, p)
  BY <1>1, <1>2 DEF Handles
<1>4. ClientOk(c) /\ ChildOk(c)
  BY DEF SynInv
<1>5. Up(c) \in Seq(Packets) /\ Down(c) \in Seq(Packets) /\ sock[e] \in Socket
  BY <1>1 DEF IInv, Types, Links, Wires, Up, Down
<1>6. app[c] # "connect" /\ app'[c] # "connect" /\ (Connecting(c)' <=> Connecting(c))
  BY <1>3, <1>4 DEF ClientOk, HostHandles, Connecting
<1>7. p.flags \notin {"SYN", "SYNACK"} => ~Connecting(c)
  BY <1>1, <1>3, NextPacket
<1>8. ~Connecting(c) \/ c \in connected => ~KeepsSyn(c)
  BY <1>4 DEF ClientOk
<1>9. /\ Elsewhere(e) /\ Down(c)' = Tail(Down(c))
      /\ \/ Up(c)' = Up(c)
         \/ /\ p.flags \notin {"SYN", "SYNACK"}
            /\ \E q \in Packets : q.flags \in Replies /\ Up(c)' = Up(c) \o <<q>>
      /\ \A q \in sock'[e].send_buf : q \in Received(sock[e], p).send_buf \/ q.flags \in Replies
  <2> HIDE DEF e
  <2> QED
    BY <1>1, <1>2, HandledReach
<1>10. \A q \in Received(sock[e], p).send_buf : q \in sock[e].send_buf /\ SeqEnd(q) > p.ack
  BY <1>5 DEF Received, Socket
<1>11. \A q \in sock'[e].send_buf : q \in sock[e].send_buf \/ q.flags # "SYN"
  BY <1>9, <1>10 DEF Replies
<1>12. KeepsSyn(c)' => KeepsSyn(c)
  BY <1>11 DEF KeepsSyn
<1>13. DownAcks(c)'
  BY <1>3, <1>4, <1>5, <1>9, SynTail DEF ClientOk, DownAcks
<1>14. p.flags = "SYNACK" => ~KeepsSyn(c)'
  <2> SUFFICES ASSUME p.flags = "SYNACK", NEW q \in sock'[e].send_buf, q.flags = "SYN" PROVE FALSE
    BY DEF KeepsSyn
  <2>1. p = Down(c)[1] /\ 1 \in 1..Len(Down(c))
    BY <1>3, <1>5
  <2>2. p.ack >= 2 /\ p.ack \in Nat
    BY <1>4, <2>1 DEF ClientOk, DownAcks, AcksSyn, Packets
  <2>3. q \in sock[e].send_buf /\ SeqEnd(q) > p.ack
    BY <1>9, <1>10 DEF Replies
  <2>4. q.seq = 1
    BY <1>4, <2>3 DEF ClientOk
  <2> QED
    BY <2>2, <2>3, <2>4 DEF SeqEnd
<1>15. c \in connected' \/ ~Connecting(c)' => ~KeepsSyn(c)'
  BY <1>1, <1>3, <1>6, <1>8, <1>12, <1>14 DEF HostHandles
<1>16. \E q \in Packets :
         Up(c)' = Up(c) \/ (~Connecting(c) /\ q.flags \in Replies /\ Up(c)' = Up(c) \o <<q>>)
  <2>1. CASE Up(c)' = Up(c)
    BY <2>1
  <2>2. CASE Up(c)' # Up(c)
    BY <1>7, <1>9, <2>2
  <2> QED
    BY <2>1, <2>2
<1>17. PICK q \in Packets :
         Up(c)' = Up(c) \/ (~Connecting(c) /\ q.flags \in Replies /\ Up(c)' = Up(c) \o <<q>>)
  BY <1>16
<1>18. ClientMoves(c, q)
  BY <1>6, <1>8, <1>9, <1>11, <1>13, <1>15, <1>17 DEF ClientMoves, Replies
<1> QED
  BY <1>5, <1>18, ClientSyn

LEMMA ChildHandlesSyn ==
  ASSUME IInv, SynInv, NEW c \in Clients, NEW i \in 1..MaxChild, Handle(<<c, i>>)
  PROVE  SynInv'
<1> DEFINE e == <<c, i>>
<1>1. e \in Ends /\ link[In(e)] = Up(c) /\ link'[In(e)] = Up(c)'
      /\ link[Out(e)] = Down(c) /\ link'[Out(e)] = Down(c)'
  BY EndsOf, ConnConstants DEF ConnConstants, Up, Down
<1>2. PICK p \in Packets : Handles(e, p)
  BY <1>1, HandleHandles
<1>3. e \in hashed /\ Up(c) # <<>> /\ p = Head(Up(c)) /\ HostHandles(e, p)
  BY <1>1, <1>2 DEF Handles
<1>4. ClientOk(c) /\ ChildOk(c)
  BY DEF SynInv
<1>5. Up(c) \in Seq(Packets) /\ Down(c) \in Seq(Packets) /\ sock[e] \in Socket
  BY <1>1 DEF IInv, Types, Links, Wires, Up, Down
<1>6. /\ Elsewhere(e) /\ Up(c)' = Tail(Up(c))
      /\ \/ Down(c)' = Down(c)
         \/ \E q \in Packets : q.flags \in Replies /\ Down(c)' = Down(c) \o <<q>>
      /\ sock'[e].snd_nxt >= sock[e].snd_nxt
      /\ \A q \in sock'[e].send_buf : q \in Received(sock[e], p).send_buf \/ q.flags \in Replies
  <2> HIDE DEF e
  <2> QED
    BY <1>1, <1>2, HandledReach
<1>7. Started(e) /\ sock'[e].snd_nxt >= sock[e].snd_nxt
  BY <1>3, <1>4, <1>6 DEF ChildOk, Known
<1>8. Started(e)'
  <2>1. Types'
    BY <1>1, HandleStep DEF IInv
  <2>2. sock[e].snd_nxt \in Nat /\ sock'[e].snd_nxt \in Nat
    BY <1>1, <1>5, <2>1 DEF Types, Socket
  <2> QED
    BY <1>7, <2>2 DEF Started
<1>9. \A q \in sock'[e].send_buf : q.flags = "SYNACK" => q.ack >= 2
  <2>1. \A q \in Received(sock[e], p).send_buf : q \in sock[e].send_buf
    BY <1>5 DEF Received, Socket
  <2> QED
    BY <1>4, <1>6, <2>1 DEF Replies, ClientOk
<1>10. DownAcks(c)'
  <2>1. AcksSyn(Down(c))
    BY <1>4 DEF ClientOk, DownAcks
  <2>2. CASE Down(c)' = Down(c)
    BY <2>1, <2>2 DEF DownAcks, AcksSyn
  <2>3. CASE \E q \in Packets : q.flags \in Replies /\ Down(c)' = Down(c) \o <<q>>
    <3>1. PICK q \in Packets : q.flags \in Replies /\ Down(c)' = Down(c) \o <<q>>
      BY <2>3
    <3>2. AcksSyn(Down(c) \o <<q>>)
      BY <1>5, <2>1, <3>1, SynAppend DEF Replies
    <3> QED
      BY <3>1, <3>2 DEF DownAcks, AcksSyn
  <2> QED
    BY <1>6, <2>2, <2>3
<1>11. e \in hashed' \/ (~KeepsSyn(c) /\ NoSyn(Tail(Up(c))))
  <2> SUFFICES ASSUME p.flags = "ACK" PROVE ~KeepsSyn(c) /\ NoSyn(Tail(Up(c)))
    BY <1>3 DEF HostHandles
  <2>1. p = Up(c)[1] /\ 1 \in 1..Len(Up(c))
    BY <1>3, <1>5
  <2>2. ~AllSyn(Up(c))
    BY <2>1 DEF AllSyn
  <2> QED
    BY <1>3, <1>4, <1>5, <2>2, SynTail DEF ClientOk
<1>12. UNCHANGED app /\ (c \in connected' => c \in connected \/ ~KeepsSyn(c))
  <2>1. p = Up(c)[1] /\ 1 \in 1..Len(Up(c))
    BY <1>3, <1>5
  <2>2. p.flags = "SYNACK" => ~AllSyn(Up(c))
    BY <2>1 DEF AllSyn
  <2> QED
    BY <1>3, <1>4, <2>2 DEF HostHandles, ClientOk
<1>13. ChildMoves(c, i)
  BY <1>6, <1>7, <1>8, <1>9, <1>10, <1>11, <1>12 DEF ChildMoves
<1> QED
  BY <1>3, <1>5, <1>13, ChildSyn

\* The listener takes the client's next SYN: none of its children is known yet, so
\* none has been made.
LEMMA SynListenSyn ==
  ASSUME IInv, SynInv, NEW c \in Clients, SynListen(c)
  PROVE  SynInv'
<1>1. PICK i \in 1..MaxChild :
        LET e == <<c, i>>
            s == [sock[e] EXCEPT !.state = "SYN_RECV", !.rcv_nxt = SeqEnd(Head(link[<<c, "toServer">>]))]
        IN  /\ Becomes(e, Sent(s, "SYNACK"), <<Packet(s, "SYNACK")>>)
            /\ hashed' = hashed \union {e}
  BY DEF SynListen
<1> DEFINE e == <<c, i>>
           p == Head(Up(c))
           n == SeqEnd(p)
           s == [sock[e] EXCEPT !.state = "SYN_RECV", !.rcv_nxt = n]
           q == Packet(s, "SYNACK")
           r == Sent(s, "SYNACK")
           rest == [link EXCEPT ![In(e)] = Tail(@)]
<1>2. /\ e \in Ends /\ e[1] = c /\ In(e) = <<c, "toServer">> /\ Out(e) = <<c, "toClient">>
      /\ In(e) \in Wires /\ Out(e) \in Wires
      /\ \A j \in 1..MaxChild : <<c, j>> \in Ends /\ ~IsClient(<<c, j>>) /\ <<c, j>>[1] = c
  BY EndsOf, ConnConstants DEF ConnConstants, IsClient
<1>3. Up(c) # <<>> /\ p.flags = "SYN" /\ NoChild(c)
      /\ UNCHANGED <<app, connected, acceptVars, ipVars>>
  BY DEF SynListen, Up, ipFrame
<1>4. ClientOk(c) /\ ChildOk(c)
  BY DEF SynInv
<1>5. Up(c) \in Seq(Packets) /\ Down(c) \in Seq(Packets) /\ sock[e] \in Socket
  BY <1>2 DEF IInv, Types, Links, Wires, Up, Down
<1>6. p = Up(c)[1] /\ 1 \in 1..Len(Up(c)) /\ p \in Packets
  BY <1>3, <1>5
<1>7. n = 2
  <2>1. p.seq = 1
    BY <1>3, <1>4, <1>6 DEF ClientOk, SynIsOne
  <2> QED
    BY <1>3, <2>1 DEF SeqEnd
<1>8. \A j \in 1..MaxChild : ~Started(<<c, j>>)
  <2>1. ~NoSyn(Up(c))
    BY <1>3, <1>6 DEF NoSyn
  <2>2. \A j \in 1..MaxChild : <<c, j>> \notin hashed
    BY <1>2, <1>3 DEF NoChild
  <2> QED
    BY <1>4, <2>1, <2>2 DEF ChildOk
<1>9. Becomes(e, r, <<q>>) /\ hashed' = hashed \union {e}
  BY <1>1 DEF Up
<1>10. link \in Links /\ sock \in [Ends -> Socket]
  BY DEF IInv, Types
<1>11. rest \in Links
  BY <1>2, <1>3, Taking DEF IInv, Up
<1>12. rest[In(e)] = Tail(Up(c)) /\ \A w \in Wires \ {In(e)} : rest[w] = link[w]
  BY <1>2, <1>10 DEF Links, Up
<1>13. sock' = [sock EXCEPT ![e] = r] /\ Transmit(rest, e, <<q>>)
  BY <1>9 DEF Becomes
<1> HIDE DEF rest, n, p
<1>14. s \in Socket /\ s.rcv_nxt = 2 /\ s.snd_nxt = sock[e].snd_nxt /\ s.send_buf = sock[e].send_buf
  BY <1>5, <1>7 DEF Socket, States
<1> HIDE DEF s
<1>15. q \in Packets /\ q.flags = "SYNACK" /\ q.ack = 2
  BY <1>14, PacketType DEF Flags, Packet
<1>16. r \in Socket /\ r.snd_nxt > 0 /\ r.send_buf = s.send_buf \union {q}
  <2>1. r \in Socket
    BY <1>14, SentType DEF Flags
  <2>2. r = [s EXCEPT !.snd_nxt = @ + 1, !.send_buf = @ \union {q}]
    BY DEF Sent
  <2>3. s.snd_nxt \in Nat
    BY <1>14 DEF Socket
  <2> HIDE DEF q, r
  <2>4. r.snd_nxt = s.snd_nxt + 1 /\ r.send_buf = s.send_buf \union {q}
    BY <1>14, <2>2 DEF Socket
  <2> QED
    BY <2>1, <2>3, <2>4
<1> HIDE DEF q, r
<1>17. sock'[e] = r /\ \A x \in Ends \ {e} : sock'[x] = sock[x]
  BY <1>2, <1>10, <1>13
<1> HIDE DEF e
<1>18. /\ \A w \in Wires \ {In(e), Out(e)} : link'[w] = link[w]
       /\ link'[In(e)] = rest[In(e)]
       /\ link'[Out(e)] = link[Out(e)] \/ link'[Out(e)] = link[Out(e)] \o <<q>>
  <2> DEFINE out == <<q>>
  <2>1. Transmit(rest, e, out)
    BY <1>13
  <2> HIDE DEF out
  <2>2. /\ \A w \in Wires \ {In(e), Out(e)} : link'[w] = link[w]
        /\ link'[In(e)] = rest[In(e)]
        /\ link'[Out(e)] = link[Out(e)] \/ link'[Out(e)] = link[Out(e)] \o out
    BY <1>2, <1>10, <1>11, <1>12, <2>1, EndReach
  <2> QED
    BY <2>2 DEF out
<1>19. Elsewhere(e)
  <2>1. \A x \in Ends \ {e} : (x \in hashed' <=> x \in hashed) /\ (Unseen(x) => Unseen(x)')
    BY <1>3, <1>9 DEF Unseen, acceptVars, ipVars
  <2> QED
    BY <1>3, <1>17, <1>18, <2>1 DEF Elsewhere
<1>20. Up(c)' = Tail(Up(c)) /\ (Down(c)' = Down(c) \/ Down(c)' = Down(c) \o <<q>>)
  BY <1>2, <1>12, <1>18 DEF Up, Down
<1>21. DownAcks(c)'
  <2>1. AcksSyn(Down(c))
    BY <1>4 DEF ClientOk, DownAcks
  <2>2. AcksSyn(Down(c) \o <<q>>)
    BY <1>5, <1>15, <2>1, SynAppend
  <2> QED
    BY <1>20, <2>1, <2>2 DEF DownAcks, AcksSyn
<1>22. \A x \in r.send_buf : x.flags = "SYNACK" => x.ack >= 2
  <2>1. \A x \in sock[e].send_buf : x.flags = "SYNACK" => x.ack >= 2
    BY <1>4 DEF ClientOk, e
  <2> QED
    BY <1>14, <1>15, <1>16, <2>1
<1>23. Started(e)' /\ e \in hashed'
  BY <1>9, <1>16, <1>17 DEF Started, e
<1>24. ChildMoves(c, i)
  BY <1>3, <1>8, <1>17, <1>19, <1>20, <1>21, <1>22, <1>23 DEF ChildMoves, e
<1> QED
  BY <1>3, <1>5, <1>24, ChildSyn

\* A SYN is sent again only while it is kept, so before everything else.
LEMMA RetransmitSyn ==
  ASSUME IInv, SynInv, NEW e \in Ends, NEW p, Retransmit(e, p)
  PROVE  SynInv'
<1>1. p \in sock[e].send_buf /\ Transmit(link, e, <<p>>)
      /\ UNCHANGED <<sock, hashed, app, connected, acceptVars, ipVars>>
  BY DEF Retransmit, connVars
<1>2. link \in Links /\ sock[e] \in Socket /\ p \in Packets
  BY <1>1 DEF IInv, Types, Socket
<1>3. e[1] \in Clients /\ In(e) \in Wires /\ Out(e) \in Wires
  BY EndsOf DEF Ends
<1>4. /\ \A w \in Wires \ {In(e), Out(e)} : link'[w] = link[w]
      /\ link'[In(e)] = link[In(e)]
      /\ link'[Out(e)] = link[Out(e)] \/ link'[Out(e)] = link[Out(e)] \o <<p>>
  <2> DEFINE out == <<p>>
  <2>1. Transmit(link, e, out) /\ \A w \in Wires \ {In(e)} : link[w] = link[w]
    BY <1>1
  <2> HIDE DEF out
  <2>2. /\ \A w \in Wires \ {In(e), Out(e)} : link'[w] = link[w]
        /\ link'[In(e)] = link[In(e)]
        /\ link'[Out(e)] = link[Out(e)] \/ link'[Out(e)] = link[Out(e)] \o out
    BY <1>2, <2>1, EndReach
  <2> QED
    BY <2>2 DEF out
<1>5. Elsewhere(e)
  BY <1>1, <1>4 DEF Elsewhere, Unseen, acceptVars, ipVars
<1>6. PICK c \in Clients, i \in 0..MaxChild : e = <<c, i>>
  BY DEF Ends
<1>7. ClientOk(c) /\ ChildOk(c) /\ Up(c) \in Seq(Packets) /\ Down(c) \in Seq(Packets)
  BY <1>2 DEF SynInv, Links, Wires, Up, Down
<1>8. CASE i = 0
  <2>1. /\ Down(c)' = Down(c) /\ e[1] = c /\ Own(e) = "SYN"
        /\ Up(c)' = Up(c) \/ Up(c)' = Up(c) \o <<p>>
    BY <1>4, <1>6, <1>8, EndsOf DEF Up, Down, Own, IsClient
  <2>2. Connecting(c) => p.flags = "SYN"
    BY <1>1, <2>1 DEF IInv, EarlySockets, Early
  <2>3. p.flags = "SYN" => KeepsSyn(c)
    BY <1>1, <1>6, <1>8 DEF KeepsSyn
  <2>4. app[c] # "connect" /\ app'[c] # "connect"
    BY <1>1, <1>7, <2>2, <2>3 DEF ClientOk, Connecting
  <2>5. p.flags # "SYN" => ~KeepsSyn(c)
    BY <1>7, <2>2 DEF ClientOk
  <2>6. c \in connected' \/ ~Connecting(c)' => ~KeepsSyn(c)'
    BY <1>1, <1>7 DEF ClientOk, Connecting, KeepsSyn
  <2>7. DownAcks(c)'
    BY <1>7, <2>1 DEF ClientOk, DownAcks
  <2>8. ClientMoves(c, p)
    BY <1>1, <1>5, <1>6, <1>8, <2>1, <2>4, <2>5, <2>6, <2>7 DEF ClientMoves
  <2> QED
    BY <1>2, <1>7, <2>8, ClientSyn
<1>9. CASE i # 0
  <2>1. i \in 1..MaxChild
    BY <1>9
  <2>2. /\ UNCHANGED Up(c) /\ e[1] = c
        /\ Down(c)' = Down(c) \/ Down(c)' = Down(c) \o <<p>>
    BY <1>4, <1>6, <2>1, EndsOf DEF Up, Down
  <2>3. DownAcks(c)'
    <3>1. AcksSyn(Down(c)) /\ (p.flags = "SYNACK" => p.ack >= 2)
      BY <1>1, <1>6, <1>7, <2>1 DEF ClientOk, DownAcks
    <3>2. AcksSyn(Down(c) \o <<p>>)
      BY <1>2, <1>7, <3>1, SynAppend
    <3> QED
      BY <2>2, <3>1, <3>2 DEF DownAcks, AcksSyn
  <2>4. Quiet(c)
    BY <1>1, <2>2, <2>3 DEF Quiet, SentBy, Known, Unseen, Connecting, acceptVars, ipVars
  <2>5. ClientOk(c)' /\ ChildOk(c)'
    BY <1>7, <2>4, SynFrame
  <2>6. \A d \in Clients \ {c} : ClientOk(d)' /\ ChildOk(d)'
    BY <1>5, <2>2, OtherSyn
  <2> QED
    BY <2>5, <2>6 DEF SynInv
<1> QED
  BY <1>8, <1>9

\* The rest is about states of sockets and the accept loop.
LEMMA AppSyn ==
  ASSUME IInv, SynInv, NEW c \in Clients, App(c)
  PROVE  SynInv'
<1> USE DEF Places
<1>1. Types /\ app \in [Clients -> Places] /\ sock \in [Ends -> Socket]
  BY DEF IInv, Types
<1>2. <<c, 0>> \in Ends /\ sock[<<c, 0>>].state \in States
  BY <1>1, EndsOf, ConnConstants DEF ConnConstants, Socket
<1>3. ASSUME NEW from \in Places \ {"connect"}, NEW to \in Places \ {"connect", "wait"}, At(c, from, to),
             from = "wait" => c \in connected,
             \A e \in Ends : UNCHANGED SentBy(e),
             UNCHANGED <<link, hashed, acceptVars, ipVars>>, connected' \subseteq connected
      PROVE  SynInv'
  <2>1. \A d \in Clients : /\ app'[d] = "connect" => app[d] = "connect"
                           /\ ~Connecting(d)' => d \in connected \/ ~Connecting(d)
    BY <1>1, <1>3 DEF At, Connecting
  <2>2. \A e \in Ends : Known(e)' => Known(e)
    BY <1>3 DEF Known, Unseen, acceptVars, ipVars
  <2> QED
    BY <1>3, <2>1, <2>2, QuietSyn
<1>4. CASE Connected(c)
  <2>1. \A e \in Ends : UNCHANGED SentBy(e)
    BY <1>1, <1>2, <1>4, StateSends DEF Connected
  <2> QED
    BY <1>3, <1>4, <2>1 DEF Connected, netVars
<1>5. CASE WriteReturns(c)
  <2>1. \A e \in Ends : UNCHANGED SentBy(e)
    BY <1>5 DEF WriteReturns, connVars, SentBy
  <2> QED
    BY <1>3, <1>5, <2>1 DEF WriteReturns, connVars, netVars
<1>6. CASE CloseSet(c)
  <2>1. \A e \in Ends : UNCHANGED SentBy(e)
    BY <1>1, <1>2, <1>6, StateSends DEF CloseSet
  <2> QED
    BY <1>3, <1>6, <2>1 DEF CloseSet, netVars
<1>7. CASE Confirm(c)
  BY <1>2, <1>7, ClientSendsSyn DEF Confirm, Flags
<1>8. CASE Write(c)
  BY <1>2, <1>8, ClientSendsSyn DEF Write, Flags
<1>9. CASE CloseSend(c)
  BY <1>2, <1>9, ClientSendsSyn DEF CloseSend, Flags
<1> QED
  BY <1>4, <1>5, <1>6, <1>7, <1>8, <1>9, ConnectSyn DEF App

LEMMA AcceptSyn ==
  ASSUME IInv, SynInv, Accept
  PROVE  SynInv'
<1>1. UNCHANGED <<link, app, connected, ipVars>>
  BY DEF Accept, AcceptTest, AcceptSleep, AcceptWoken, AcceptPop, AcceptSet, AcceptHash,
         acceptFrame, netVars
<1>2. \A d \in Clients : (Connecting(d)' <=> Connecting(d)) /\ app'[d] = app[d]
  BY <1>1 DEF Connecting
<1>3. ASSUME hashed' = hashed, \A e \in Ends : UNCHANGED SentBy(e),
             \A e \in Ends : Unseen(e) => Unseen(e)'
      PROVE  SynInv'
  <2>1. \A e \in Ends : Known(e)' => Known(e)
    BY <1>3 DEF Known
  <2> QED
    BY <1>1, <1>2, <1>3, <2>1, QuietSyn
<1>4. CASE AcceptTest \/ AcceptSleep \/ AcceptWoken
  BY <1>1, <1>3, <1>4 DEF AcceptTest, AcceptSleep, AcceptWoken, SentBy, Unseen, ipVars
<1>5. CASE AcceptPop
  <2>1. accept_queue \in Seq(Ends) /\ accept_queue # <<>>
    BY <1>5 DEF AcceptPop, IInv, AcceptInv
  <2>2. /\ 1 \in 1..Len(accept_queue) /\ Head(accept_queue) = accept_queue[1]
        /\ \A k \in 1..Len(Tail(accept_queue)) :
             k + 1 \in 1..Len(accept_queue) /\ Tail(accept_queue)[k] = accept_queue[k + 1]
    BY <2>1
  <2>3. \A e \in Ends : Unseen(e) => Unseen(e)'
    BY <1>1, <1>5, <2>2 DEF AcceptPop, Unseen, ipVars
  <2> QED
    BY <1>3, <1>5, <2>3 DEF AcceptPop, SentBy
<1>6. CASE AcceptSet
  <2>1. popped \in Ends /\ sock \in [Ends -> Socket]
    BY <1>6 DEF AcceptSet, IInv, AcceptInv, Types
  <2>2. \A e \in Ends : UNCHANGED SentBy(e)
    BY <1>6, <2>1, StateSends DEF AcceptSet
  <2>3. \A e \in Ends : Unseen(e) => Unseen(e)'
    BY <1>1, <1>6 DEF AcceptSet, Unseen, ipVars
  <2> QED
    BY <1>3, <1>6, <2>2, <2>3 DEF AcceptSet
<1>7. CASE AcceptHash
  <2>1. hashed \subseteq hashed' /\ hashed' \subseteq hashed \union {popped} /\ apc = "hash"
    BY <1>7 DEF AcceptHash
  <2>2. \A e \in Ends : UNCHANGED SentBy(e)
    BY <1>7 DEF AcceptHash, SentBy
  <2>3. \A e \in Ends : Unseen(e) => Unseen(e)'
    BY <1>1, <1>7 DEF AcceptHash, Unseen, ipVars
  <2>4. \A e \in Ends : Known(e)' => Known(e)
    BY <2>1, <2>3 DEF Known, Unseen
  <2>5. \A d \in Clients : <<d, 0>> \in hashed' => <<d, 0>> \in hashed \/ app[d] # "connect"
    <3> SUFFICES ASSUME NEW d \in Clients, <<d, 0>> = popped, app[d] = "connect" PROVE FALSE
      BY <2>1
    <3>1. popped \in Ends /\ popped[1] = d /\ Connecting(popped[1])
      BY EndsOf, ConnConstants DEF ConnConstants, Connecting
    <3> QED
      BY <2>1, <3>1 DEF IInv, EarlyHosts, Unseen
  <2> QED
    BY <1>1, <1>2, <2>1, <2>2, <2>4, <2>5, QuietSyn
<1> QED
  BY <1>4, <1>5, <1>6, <1>7 DEF Accept

LEMMA HostSyn ==
  ASSUME IInv, SynInv,
         AckWake \/ AckEstablish \/ (\E e \in Ends : TimewaitOver(e)) \/ UNCHANGED vars
  PROVE  SynInv'
<1>1. UNCHANGED <<link, app, connected, hashed, accept_queue, apc, popped>>
  BY DEF AckWake, AckEstablish, TimewaitOver, vars, connVars, acceptVars, ipFrame, netVars
<1>2. \A d \in Clients : (Connecting(d)' <=> Connecting(d)) /\ app'[d] = app[d]
  BY <1>1 DEF Connecting
<1>3. \A e \in Ends : UNCHANGED SentBy(e)
  <2>1. sock \in [Ends -> Socket]
    BY DEF IInv, Types
  <2>2. ASSUME AckEstablish PROVE child \in Ends
    BY <2>2 DEF AckEstablish, IInv, AcceptInv
  <2>3. CASE UNCHANGED sock
    BY <2>3 DEF SentBy
  <2>4. CASE AckEstablish
    BY <2>1, <2>2, <2>4, StateSends DEF AckEstablish
  <2>5. CASE \E e \in Ends : TimewaitOver(e)
    BY <2>1, <2>5, StateSends DEF TimewaitOver
  <2> QED
    BY <2>3, <2>4, <2>5 DEF AckWake, vars, connVars
<1>4. \A e \in Ends : Known(e)' => Known(e)
  BY <1>1 DEF Known, Unseen, AckWake, AckEstablish, TimewaitOver, vars, ipVars
<1> QED
  BY <1>1, <1>2, <1>3, <1>4, QuietSyn

LEMMA StepSyn == IInv /\ SynInv /\ [Next]_vars => SynInv'
<1> SUFFICES ASSUME IInv, SynInv, [Next]_vars PROVE SynInv'
  OBVIOUS
<1>1. ASSUME NEW c \in Clients, ClientIp(c) PROVE SynInv'
  BY <1>1, ClientHandlesSyn DEF ClientIp
<1>2. ASSUME ServerIp PROVE SynInv'
  BY <1>2, SynListenSyn, ChildHandlesSyn, HostSyn DEF ServerIp
<1>3. CASE Finished
  BY <1>3, HostSyn DEF Finished
<1> QED
  BY <1>1, <1>2, <1>3, AppSyn, AcceptSyn, HostSyn, RetransmitSyn DEF Next

\* Whatever is lost and sent again, the listener makes one child for a client: a SYN
\* that comes again finds the first child in the table (tcp_sock.c:138-148), and when
\* that one has left it no SYN can come any more.
THEOREM ListenerMakesOneChild == Spec => []OneChild
<1>1. IInv /\ SynInv => OneChild
  BY DEF SynInv, ChildOk, Started, OneChild
<1>2. IInv /\ SynInv /\ [Next]_vars => SynInv'
  BY StepSyn
<1> QED
  BY <1>1, <1>2, InitSyn, Invariance, PTL DEF Spec

-----------------------------------------------------------------------------
(* What the handlers of tcp_process do to a socket and to the accept loop.  *)

\* Socket s of end e answers p with q.
Answer(e, p, s, q) ==
  /\ q.seq = sock[e].snd_nxt /\ q.ack = s.rcv_nxt
  /\ \/ q.flags = "ACK" /\ p.flags \in {"PSHACK", "ACKFIN", "FIN"}
     \/ q.flags = "ACKFIN" /\ p.flags = "FIN"

\* The state of the socket, and the number an answer takes.
StateTakes(e, p, s) ==
  LET from == sock[e].state
  IN  \/ /\ s.snd_nxt = sock[e].snd_nxt
         /\ \/ s.state = from
            \/ p.flags = "PSHACK" /\ from = "SYN_RECV" /\ s.state = "ESTABLISHED"
            \/ p.flags = "ACK" /\ from = "LAST_ACK" /\ s.state = "CLOSED"
            \/ p.flags = "ACK" /\ from = "FIN_WAIT_1" /\ s.state = "FIN_WAIT_2"
            \/ p.flags = "ACKFIN" /\ from = "FIN_WAIT_1" /\ s.state = "TIME_WAIT"
            \/ p.flags = "FIN" /\ from = "FIN_WAIT_2" /\ s.state = "TIME_WAIT"
      \/ /\ s.snd_nxt = sock[e].snd_nxt + 1
         /\ p.flags = "FIN" /\ from = "ESTABLISHED" /\ s.state = "LAST_ACK"

SocketTakes(e, p, s, out) ==
  /\ s \in Socket /\ StateTakes(e, p, s)
  /\ IF p.flags = "PSHACK" /\ p.seq # sock[e].rcv_nxt
     THEN s.rcv_nxt = sock[e].rcv_nxt ELSE s.rcv_nxt = SeqEnd(p)
  /\ IF p.flags = "PSHACK" /\ p.seq = sock[e].rcv_nxt
     THEN s.received = sock[e].received + 1 ELSE s.received = sock[e].received
  /\ \A q \in s.send_buf : \/ q \in sock[e].send_buf /\ SeqEnd(q) > p.ack
                           \/ q.flags = "ACKFIN" /\ Answer(e, p, s, q)
  /\ \A q \in sock[e].send_buf : q \in s.send_buf \/ SeqEnd(q) <= p.ack
  /\ out = <<>> \/ \E q \in Packets : Answer(e, p, s, q) /\ out = <<q>>

\* The timers, and what the accept loop is shown.
HostTakes(e, p, s) ==
  /\ \/ UNCHANGED timewait
     \/ /\ timewait' = timewait \union {e} /\ s.state # sock[e].state
        /\ s.state \in {"LAST_ACK", "TIME_WAIT"}
  /\ UNCHANGED <<acceptVars, ipVars>> \/ AckEnqueue(e, p)

Takes(e, p, s, out) ==
  /\ IsClient(e) \/ ipc = "idle"
  /\ Becomes(e, s, out) /\ SocketTakes(e, p, s, out) /\ HostTakes(e, p, s)

LEMMA ReceivedData ==
  ASSUME NEW s \in Socket, NEW p \in Packets
  PROVE  LET r == Received(s, p)
         IN  /\ r \in Socket /\ r.state = s.state /\ r.snd_nxt = s.snd_nxt /\ r.received = s.received
             /\ r.rcv_nxt = IF p.flags = "PSHACK" THEN s.rcv_nxt ELSE SeqEnd(p)
             /\ \A q \in r.send_buf : q \in s.send_buf /\ SeqEnd(q) > p.ack
             /\ \A q \in s.send_buf : q \in r.send_buf \/ SeqEnd(q) <= p.ack
<1> DEFINE n == IF p.flags = "PSHACK" THEN s.rcv_nxt ELSE SeqEnd(p)
           b == {q \in s.send_buf : SeqEnd(q) > p.ack}
<1>1. \A q \in Packets : SeqEnd(q) \in Nat /\ q.ack \in Nat
  BY DEF SeqEnd, Packets
<1>2. b \subseteq s.send_buf /\ s.send_buf \subseteq Packets /\ n \in Nat
  BY <1>1 DEF Socket
<1>3. /\ \A q \in b : q \in s.send_buf /\ SeqEnd(q) > p.ack
      /\ \A q \in s.send_buf : q \in b \/ SeqEnd(q) <= p.ack
  BY <1>1, <1>2
<1>4. Received(s, p) = [s EXCEPT !.rcv_nxt = n, !.send_buf = b]
  BY DEF Received
<1> HIDE DEF b, n
<1>5. /\ Received(s, p).state = s.state /\ Received(s, p).snd_nxt = s.snd_nxt
      /\ Received(s, p).received = s.received /\ Received(s, p).rcv_nxt = n
      /\ Received(s, p).send_buf = b
  BY <1>4 DEF Socket
<1>6. Received(s, p) \in Socket
  BY ReceivedType
<1> QED
  BY <1>3, <1>5, <1>6 DEF n

LEMMA SentData ==
  ASSUME NEW s \in Socket, NEW flags \in Flags
  PROVE  LET r == Sent(s, flags)
         IN  /\ r \in Socket /\ r.state = s.state /\ r.received = s.received /\ r.rcv_nxt = s.rcv_nxt
             /\ IF flags = "ACK" THEN r = s
                ELSE /\ r.snd_nxt = s.snd_nxt + 1
                     /\ r.send_buf = s.send_buf \union {Packet(s, flags)}
<1>1. CASE flags = "ACK"
  BY <1>1 DEF Sent
<1>2. CASE flags # "ACK"
  <2> DEFINE q == Packet(s, flags)
  <2>1. q \in Packets
    BY PacketType
  <2>2. s.send_buf \union {q} \in SUBSET Packets
    BY <2>1 DEF Socket
  <2>3. Sent(s, flags) = [state |-> s.state, snd_nxt |-> s.snd_nxt + 1, rcv_nxt |-> s.rcv_nxt,
                          send_buf |-> s.send_buf \union {q}, received |-> s.received]
    BY <1>2 DEF Sent, Socket
  <2> HIDE DEF q
  <2>4. Sent(s, flags) \in Socket
    BY <2>2, <2>3 DEF Socket
  <2> QED
    BY <1>2, <2>3, <2>4 DEF q
<1> QED
  BY <1>1, <1>2

LEMMA HandleTakes ==
  ASSUME IInv, NEW e \in Ends, Handle(e)
  PROVE  \E p \in Packets : \E s, out : Handles(e, p) /\ Takes(e, p, s, out)
<1>1. PICK p : \/ SynAgain(e, p) \/ SynAck(e, p) \/ AckEnqueue(e, p) \/ Ack(e, p)
               \/ PshAck(e, p) \/ AckFin(e, p) \/ Fin(e, p)
  BY DEF Handle
<1>2. PICK flags : Arrives(e, flags, p)
  BY <1>1 DEF SynAgain, SynAck, AckEnqueue, Ack, PshAck, AckFin, Fin
<1>3. /\ p \in Packets /\ sock[e] \in Socket /\ p.flags = flags
      /\ p = Head(link[In(e)]) /\ (IsClient(e) \/ ipc = "idle")
  BY <1>2, Arriving DEF Arrives
<1>4. Handles(e, p)
  BY <1>3, HandleHandles DEF Handles
<1> DEFINE s0 == Received(sock[e], p)
<1>5. /\ s0 \in Socket /\ s0.state = sock[e].state /\ s0.snd_nxt = sock[e].snd_nxt
      /\ s0.received = sock[e].received
      /\ s0.rcv_nxt = IF p.flags = "PSHACK" THEN sock[e].rcv_nxt ELSE SeqEnd(p)
      /\ \A q \in s0.send_buf : q \in sock[e].send_buf /\ SeqEnd(q) > p.ack
      /\ \A q \in sock[e].send_buf : q \in s0.send_buf \/ SeqEnd(q) <= p.ack
  BY <1>3, ReceivedData
<1>6. SeqEnd(p) \in Nat
  BY <1>3 DEF SeqEnd, Packets
<1>7. SUFFICES \E s, out : Becomes(e, s, out) /\ SocketTakes(e, p, s, out) /\ HostTakes(e, p, s)
  BY <1>3, <1>4 DEF Takes
<1>8. p.flags # "PSHACK" => SocketTakes(e, p, s0, <<>>)
  BY <1>5 DEF SocketTakes, StateTakes
<1>9. CASE SynAgain(e, p) \/ SynAck(e, p) \/ AckEnqueue(e, p)
  <2>1. p.flags # "PSHACK" /\ Becomes(e, s0, <<>>)
    BY <1>9 DEF SynAgain, SynAck, AckEnqueue, Arrives
  <2>2. HostTakes(e, p, s0)
    BY <1>9 DEF SynAgain, SynAck, AckEnqueue, HostTakes, ipFrame
  <2> HIDE DEF s0
  <2> QED
    BY <1>8, <2>1, <2>2
<1>10. CASE Ack(e, p)
  <2> DEFINE next == [FIN_WAIT_1 |-> "FIN_WAIT_2", LAST_ACK |-> "CLOSED"]
             r == IF s0.state \in DOMAIN next THEN [s0 EXCEPT !.state = next[@]] ELSE s0
  <2>1. Becomes(e, r, <<>>) /\ UNCHANGED <<timewait, acceptVars, ipVars>> /\ p.flags = "ACK"
    BY <1>10 DEF Ack, ipFrame, Arrives
  <2> HIDE DEF s0
  <2>2. /\ r \in Socket /\ r.snd_nxt = s0.snd_nxt /\ r.send_buf = s0.send_buf
        /\ r.rcv_nxt = s0.rcv_nxt /\ r.received = s0.received
    BY <1>5 DEF Socket, States
  <2>3. \/ r.state = s0.state
        \/ s0.state = "LAST_ACK" /\ r.state = "CLOSED"
        \/ s0.state = "FIN_WAIT_1" /\ r.state = "FIN_WAIT_2"
    BY <1>5 DEF Socket
  <2> HIDE DEF r
  <2>4. StateTakes(e, p, r)
    BY <1>5, <2>1, <2>2, <2>3 DEF StateTakes
  <2>5. SocketTakes(e, p, r, <<>>)
    BY <1>5, <2>1, <2>2, <2>4 DEF SocketTakes
  <2> QED
    BY <2>1, <2>5 DEF HostTakes
<1>11. CASE PshAck(e, p)
  <2> DEFINE n   == SeqEnd(p)
             est == [s0 EXCEPT !.state = IF @ = "SYN_RECV" THEN "ESTABLISHED" ELSE @]
             r   == IF p.seq = s0.rcv_nxt
                    THEN [est EXCEPT !.received = @ + 1, !.rcv_nxt = n] ELSE est
             q   == Packet(r, "ACK")
  <2>1. Becomes(e, r, <<q>>) /\ UNCHANGED <<timewait, acceptVars, ipVars>> /\ p.flags = "PSHACK"
    BY <1>11 DEF PshAck, ipFrame, Arrives
  <2>2. n \in Nat
    BY <1>6
  <2> HIDE DEF s0, n
  <2>3. /\ est \in Socket /\ est.snd_nxt = s0.snd_nxt /\ est.send_buf = s0.send_buf
        /\ est.rcv_nxt = s0.rcv_nxt /\ est.received = s0.received
        /\ est.state = s0.state \/ (s0.state = "SYN_RECV" /\ est.state = "ESTABLISHED")
    BY <1>5 DEF Socket, States
  <2> HIDE DEF est
  <2>4. /\ r \in Socket /\ r.snd_nxt = s0.snd_nxt /\ r.send_buf = s0.send_buf
        /\ r.state = est.state
        /\ IF p.seq = s0.rcv_nxt THEN r.rcv_nxt = n /\ r.received = s0.received + 1
           ELSE r.rcv_nxt = s0.rcv_nxt /\ r.received = s0.received
    <3>1. CASE p.seq = s0.rcv_nxt
      <4>1. r = [est EXCEPT !.received = @ + 1, !.rcv_nxt = n]
        BY <3>1
      <4>2. est.received + 1 \in Nat
        BY <2>3 DEF Socket
      <4> HIDE DEF r
      <4> QED
        BY <2>2, <2>3, <3>1, <4>1, <4>2 DEF Socket
    <3>2. CASE p.seq # s0.rcv_nxt
      BY <2>3, <3>2
    <3> QED
      BY <3>1, <3>2
  <2> HIDE DEF r
  <2>5. q \in Packets /\ q.flags = "ACK" /\ q.seq = r.snd_nxt /\ q.ack = r.rcv_nxt
    BY <2>4, PacketType DEF Packet, Flags
  <2> HIDE DEF q
  <2>6. Answer(e, p, r, q)
    BY <1>5, <2>1, <2>4, <2>5 DEF Answer
  <2>7. StateTakes(e, p, r)
    BY <1>5, <2>1, <2>3, <2>4 DEF StateTakes
  <2>8. SocketTakes(e, p, r, <<q>>)
    BY <1>5, <2>1, <2>4, <2>5, <2>6, <2>7 DEF SocketTakes, n
  <2> QED
    BY <2>1, <2>8 DEF HostTakes
<1>12. CASE AckFin(e, p)
  <2> DEFINE r == [s0 EXCEPT !.state = "TIME_WAIT"]
             q == Packet(s0, "ACK")
  <2>1. UNCHANGED <<acceptVars, ipVars>> /\ p.flags = "ACKFIN"
    BY <1>12 DEF AckFin, ipFrame, Arrives
  <2>2. \/ Becomes(e, s0, <<>>) /\ UNCHANGED timewait
        \/ s0.state = "FIN_WAIT_1" /\ Becomes(e, r, <<q>>) /\ timewait' = timewait \union {e}
    BY <1>12 DEF AckFin, SetTimewait
  <2> HIDE DEF s0
  <2>3. /\ r \in Socket /\ r.snd_nxt = s0.snd_nxt /\ r.send_buf = s0.send_buf
        /\ r.rcv_nxt = s0.rcv_nxt /\ r.received = s0.received /\ r.state = "TIME_WAIT"
    BY <1>5 DEF Socket, States
  <2>4. q \in Packets /\ q.flags = "ACK" /\ q.seq = s0.snd_nxt /\ q.ack = s0.rcv_nxt
    BY <1>5, PacketType DEF Packet, Flags
  <2> HIDE DEF r, q
  <2>5. CASE Becomes(e, s0, <<>>) /\ UNCHANGED timewait
    BY <1>8, <2>1, <2>5 DEF HostTakes
  <2>6. CASE s0.state = "FIN_WAIT_1" /\ Becomes(e, r, <<q>>) /\ timewait' = timewait \union {e}
    <3>1. Answer(e, p, r, q) /\ StateTakes(e, p, r)
      BY <1>5, <2>1, <2>3, <2>4, <2>6 DEF Answer, StateTakes
    <3>2. SocketTakes(e, p, r, <<q>>)
      BY <1>5, <2>1, <2>3, <2>4, <3>1 DEF SocketTakes
    <3>3. HostTakes(e, p, r)
      BY <1>5, <2>1, <2>3, <2>6 DEF HostTakes
    <3> QED
      BY <2>6, <3>2, <3>3
  <2> QED
    BY <2>2, <2>5, <2>6
<1>13. CASE Fin(e, p)
  <2> DEFINE reply == [ESTABLISHED |-> "ACKFIN",   FIN_WAIT_2 |-> "ACK"]
             next  == [ESTABLISHED |-> "LAST_ACK", FIN_WAIT_2 |-> "TIME_WAIT"]
             to    == next[s0.state]
             est   == [s0 EXCEPT !.state = to]
             f     == reply[s0.state]
             r     == Sent(est, f)
             q     == Packet(s0, f)
  <2>1. UNCHANGED <<acceptVars, ipVars>> /\ p.flags = "FIN"
    BY <1>13 DEF Fin, ipFrame, Arrives
  <2>2. \/ Becomes(e, s0, <<>>) /\ UNCHANGED timewait
        \/ s0.state \in DOMAIN next /\ Becomes(e, r, <<q>>) /\ timewait' = timewait \union {e}
    BY <1>13 DEF Fin, SetTimewait
  <2>3. CASE Becomes(e, s0, <<>>) /\ UNCHANGED timewait
    <3> HIDE DEF s0
    <3> QED
      BY <1>8, <2>1, <2>3 DEF HostTakes
  <2>4. CASE s0.state \in DOMAIN next /\ Becomes(e, r, <<q>>) /\ timewait' = timewait \union {e}
    <3>1. \/ s0.state = "ESTABLISHED" /\ to = "LAST_ACK" /\ f = "ACKFIN"
          \/ s0.state = "FIN_WAIT_2" /\ to = "TIME_WAIT" /\ f = "ACK"
      BY <2>4
    <3> HIDE DEF s0, to, f
    <3>2. to \in States /\ f \in Flags
      BY <3>1 DEF States, Flags
    <3>3. /\ est \in Socket /\ est.snd_nxt = s0.snd_nxt /\ est.send_buf = s0.send_buf
          /\ est.rcv_nxt = s0.rcv_nxt /\ est.received = s0.received /\ est.state = to
      BY <1>5, <3>2 DEF Socket
    <3>4. Packet(est, f) = q /\ q \in Packets /\ q.flags = f /\ q.seq = s0.snd_nxt /\ q.ack = s0.rcv_nxt
      BY <1>5, <3>2, <3>3, PacketType DEF Packet
    <3> HIDE DEF est, q
    <3>5. /\ r \in Socket /\ r.state = to /\ r.received = s0.received /\ r.rcv_nxt = s0.rcv_nxt
          /\ IF f = "ACK" THEN r = est
             ELSE r.snd_nxt = s0.snd_nxt + 1 /\ r.send_buf = s0.send_buf \union {q}
      BY <3>2, <3>3, <3>4, SentData
    <3> HIDE DEF r
    <3>6. Answer(e, p, r, q)
      BY <1>5, <2>1, <3>1, <3>4, <3>5 DEF Answer
    <3>7. StateTakes(e, p, r)
      BY <1>5, <2>1, <3>1, <3>3, <3>5 DEF StateTakes
    <3>8. /\ \A x \in r.send_buf : x \in s0.send_buf \/ (x.flags = "ACKFIN" /\ x = q)
          /\ s0.send_buf \subseteq r.send_buf
      BY <3>1, <3>3, <3>4, <3>5
    <3>9. SocketTakes(e, p, r, <<q>>)
      BY <1>5, <2>1, <3>4, <3>5, <3>6, <3>7, <3>8 DEF SocketTakes
    <3>10. HostTakes(e, p, r)
      BY <1>5, <2>1, <2>4, <3>1, <3>5 DEF HostTakes
    <3> QED
      BY <2>4, <3>9, <3>10 DEF r, q
  <2> QED
    BY <2>2, <2>3, <2>4
<1> QED
  BY <1>1, <1>9, <1>10, <1>11, <1>12, <1>13
-----------------------------------------------------------------------------
(* The exchange of data and FIN.  First: whose turn it is.  A child may answer *)
(* two FINs, since tcp_sock_accept makes a child ESTABLISHED again, but no    *)
(* third, since it is queued once.                                            *)

Bounded(links) == \A w \in Wires : Len(links[w]) <= QueueLen

\* The types that Types and AcceptInv leave out.
HostTypes ==
  /\ hashed \subseteq Ends /\ timewait \subseteq Ends /\ connected \subseteq Clients
  /\ accepted \in Seq(Ends) /\ popped \in Ends \union {NoEnd}
  /\ Bounded(link)

Queued(e)  == \E k \in 1..Len(accept_queue) : accept_queue[k] = e
Waiting(e) == Queued(e) \/ (apc = "set" /\ popped = e)

Opening == {"SYN_RECV", "ESTABLISHED"}

\* The numbers a child has taken: its SYN|ACK, and its answers to FINs.
TurnOk(e) ==
  /\ sock[e].state \in Opening \union {"CLOSED", "LAST_ACK"}
  /\ sock[e].state = "SYN_RECV" => sock[e].snd_nxt = 1
  /\ sock[e].snd_nxt <= (IF Waiting(e) THEN 1 ELSE 2) + (IF sock[e].state \in Opening THEN 0 ELSE 1)
  /\ e \in timewait => sock[e].snd_nxt >= 2
  /\ ipc # "idle" /\ child = e => sock[e].state \in Opening /\ sock[e].snd_nxt = 1
  /\ sock[e].state = "SYN_RECV" /\ Waiting(e) => ipc # "idle" /\ child = e

QueuedOnce ==
  /\ \A k, l \in 1..Len(accept_queue) : accept_queue[k] = accept_queue[l] => k = l
  /\ apc = "set" => ~Queued(popped)

TurnInv ==
  /\ QueuedOnce
  /\ \A e \in Ends : IF IsClient(e) THEN sock[e].state # "SYN_RECV" ELSE TurnOk(e)


LEMMA BoundKept ==
  ASSUME NEW before \in Links, Bounded(before), NEW e \in Ends, NEW out,
         out = <<>> \/ \E q \in Packets : out = <<q>>, Transmit(before, e, out)
  PROVE  Bounded(link')
<1>1. Out(e) \in Wires /\ before[Out(e)] \in Seq(Packets) /\ QueueLen \in Nat
  BY EndsOf, ConnConstants DEF Links, ConnConstants
<1>2. Len(before[Out(e)]) < QueueLen => Len(before[Out(e)] \o out) <= QueueLen
  <2>1. CASE out = <<>>
    BY <1>1, <2>1
  <2>2. CASE \E q \in Packets : out = <<q>>
    BY <1>1, <2>2
  <2> QED
    BY <2>1, <2>2
<1>3. CASE link' = before
  BY <1>3 DEF Bounded
<1>4. CASE link' = [before EXCEPT ![Out(e)] = IF Len(@) < QueueLen THEN @ \o out ELSE @]
  <2>1. Len(link'[Out(e)]) <= QueueLen
    BY <1>1, <1>2, <1>4 DEF Bounded, Links
  <2>2. \A w \in Wires \ {Out(e)} : link'[w] = before[w]
    BY <1>4 DEF Links
  <2> QED
    BY <2>1, <2>2 DEF Bounded
<1> QED
  BY <1>3, <1>4 DEF Transmit

LEMMA BoundTaken ==
  ASSUME IInv, Bounded(link), NEW e \in Ends, link[In(e)] # <<>>, NEW s, NEW out,
         out = <<>> \/ \E q \in Packets : out = <<q>>, Becomes(e, s, out)
  PROVE  Bounded(link')
<1> DEFINE rest == [link EXCEPT ![In(e)] = Tail(@)]
<1>1. rest \in Links
  BY Taking DEF IInv
<1>2. In(e) \in Wires /\ link[In(e)] \in Seq(Packets) /\ link \in Links
  BY EndsOf DEF IInv, Types, Links
<1>3. Len(rest[In(e)]) <= Len(link[In(e)])
  BY <1>2 DEF Links
<1>4. \A w \in Wires \ {In(e)} : rest[w] = link[w]
  BY <1>2 DEF Links
<1>5. Bounded(rest)
  <2>1. Len(link[In(e)]) <= QueueLen /\ QueueLen \in Nat /\ Len(rest[In(e)]) \in Nat
    BY <1>1, <1>2, ConnConstants DEF Bounded, ConnConstants, Links
  <2> HIDE DEF rest
  <2> QED
    BY <1>2, <1>3, <1>4, <2>1 DEF Bounded
<1>6. Transmit(rest, e, out)
  BY DEF Becomes
<1> HIDE DEF rest
<1> QED
  BY <1>1, <1>5, <1>6, BoundKept

LEMMA BoundSent ==
  ASSUME IInv, Bounded(link), NEW c \in Clients, NEW state \in States, NEW flags \in Flags,
         Send(c, state, flags)
  PROVE  Bounded(link')
<1> DEFINE e == <<c, 0>>
           s == [sock[e] EXCEPT !.state = state]
           out == <<Packet(s, flags)>>
<1>1. e \in Ends /\ sock[e] \in Socket /\ link \in Links
  BY EndsOf, ConnConstants DEF ConnConstants, IInv, Types
<1>2. s \in Socket
  BY <1>1 DEF Socket
<1>3. \E q \in Packets : out = <<q>>
  BY <1>2, Replying
<1>4. Transmit(link, e, out)
  BY DEF Send
<1> HIDE DEF e, s, out
<1> QED
  BY <1>1, <1>3, <1>4, BoundKept

LEMMA HandleTypes ==
  ASSUME IInv, HostTypes, NEW e \in Ends, Handle(e)
  PROVE  HostTypes'
<1>1. PICK p \in Packets : \E s, out : Handles(e, p) /\ Takes(e, p, s, out)
  BY HandleTakes
<1>2. PICK s, out : Handles(e, p) /\ Takes(e, p, s, out)
  BY <1>1
<1>3. link[In(e)] # <<>> /\ Becomes(e, s, out) /\ (out = <<>> \/ \E q \in Packets : out = <<q>>)
  BY <1>2 DEF Handles, Takes, SocketTakes
<1>4. Bounded(link')
  BY <1>3, BoundTaken DEF HostTypes
<1>5. e[1] \in Clients
  BY DEF Ends
<1>6. hashed' \subseteq Ends /\ timewait' \subseteq Ends /\ connected' \subseteq Clients
  BY <1>2, <1>5 DEF Handles, HostHandles, Takes, HostTakes, HostTypes
<1>7. UNCHANGED <<accepted, popped>>
  BY <1>2 DEF Takes, HostTakes, acceptVars, AckEnqueue
<1> QED
  BY <1>4, <1>6, <1>7 DEF HostTypes

LEMMA AppTypes ==
  ASSUME IInv, HostTypes, NEW c \in Clients, App(c)
  PROVE  HostTypes'
<1>1. /\ UNCHANGED <<timewait, accepted, popped>>
      /\ hashed' \subseteq hashed \union {<<c, 0>>} /\ connected' \subseteq connected
  BY DEF App, Connect, Connected, Confirm, Write, WriteReturns, CloseSet, CloseSend, acceptVars, connVars
<1>2. <<c, 0>> \in Ends /\ sock[<<c, 0>>] \in Socket
  BY EndsOf, ConnConstants DEF ConnConstants, IInv, Types
<1>3. UNCHANGED link \/ \E state \in States, flags \in Flags : Send(c, state, flags)
  <2>1. sock[<<c, 0>>].state \in States /\ "SYN_SENT" \in States /\ {"SYN", "ACK", "PSHACK", "FIN"} \subseteq Flags
    BY <1>2 DEF Socket, States, Flags
  <2> QED
    BY <2>1 DEF App, Connect, Connected, Confirm, Write, WriteReturns, CloseSet, CloseSend, netVars
<1>4. Bounded(link')
  <2>1. Bounded(link)
    BY DEF HostTypes, Bounded
  <2> QED
    BY <1>3, <2>1, BoundSent DEF Bounded
<1> QED
  BY <1>1, <1>2, <1>4 DEF HostTypes, Bounded

LEMMA SynListenTypes ==
  ASSUME IInv, HostTypes, NEW c \in Clients, SynListen(c)
  PROVE  HostTypes'
<1>1. PICK i \in 1..MaxChild :
        LET e == <<c, i>>
            s == [sock[e] EXCEPT !.state = "SYN_RECV", !.rcv_nxt = SeqEnd(Head(link[<<c, "toServer">>]))]
        IN  Becomes(e, Sent(s, "SYNACK"), <<Packet(s, "SYNACK")>>) /\ hashed' = hashed \union {e}
  BY DEF SynListen
<1> DEFINE e == <<c, i>>
           n == SeqEnd(Head(link[<<c, "toServer">>]))
           s == [sock[e] EXCEPT !.state = "SYN_RECV", !.rcv_nxt = n]
           r == Sent(s, "SYNACK")
           out == <<Packet(s, "SYNACK")>>
<1>2. e \in Ends /\ In(e) = <<c, "toServer">>
  BY EndsOf, ConnConstants DEF ConnConstants
<1>3. link[In(e)] # <<>>
  BY <1>2 DEF SynListen
<1>4. n \in Nat /\ sock[e] \in Socket
  BY <1>2, <1>3, NextPacket DEF SeqEnd, Packets, IInv, Types
<1>5. Becomes(e, r, out) /\ hashed' = hashed \union {e}
  BY <1>1
<1> HIDE DEF e, n
<1>6. s \in Socket
  BY <1>4 DEF Socket, States
<1> HIDE DEF s
<1>7. \E q \in Packets : out = <<q>>
  BY <1>6, Replying DEF Flags
<1> HIDE DEF r, out
<1>8. Bounded(link')
  BY <1>2, <1>3, <1>5, <1>7, BoundTaken DEF HostTypes, Bounded
<1>9. UNCHANGED <<timewait, connected, accepted, popped>>
  BY DEF SynListen, ipFrame, acceptVars
<1> QED
  BY <1>2, <1>5, <1>8, <1>9 DEF HostTypes, Bounded

LEMMA StepTypes == IInv /\ HostTypes /\ [Next]_vars => HostTypes'
<1> SUFFICES ASSUME IInv, HostTypes, [Next]_vars PROVE HostTypes'
  OBVIOUS
<1>1. ASSUME UNCHANGED <<hashed, connected, accepted, popped, link>>, timewait' \subseteq timewait
      PROVE  HostTypes'
  BY <1>1 DEF HostTypes
<1>2. ASSUME NEW c \in Clients, ClientIp(c) PROVE HostTypes'
  BY <1>2, EndsOf, HandleTypes, ConnConstants DEF ClientIp, ConnConstants
<1>3. CASE Accept
  <2>1. UNCHANGED <<timewait, connected, link>>
    BY <1>3 DEF Accept, AcceptTest, AcceptSleep, AcceptWoken, AcceptPop, AcceptSet, AcceptHash,
           acceptFrame, netVars
  <2>2. CASE AcceptTest \/ AcceptSleep \/ AcceptWoken \/ AcceptSet
    BY <1>1, <2>1, <2>2 DEF AcceptTest, AcceptSleep, AcceptWoken, AcceptSet
  <2>3. CASE AcceptPop
    <3>1. accept_queue \in Seq(Ends) /\ accept_queue # <<>>
      BY <2>3 DEF AcceptPop, IInv, AcceptInv
    <3>2. Head(accept_queue) \in Ends
      BY <3>1
    <3> QED
      BY <2>1, <2>3, <3>2 DEF AcceptPop, HostTypes
  <2>4. CASE AcceptHash
    <3>1. popped \in Ends
      BY <2>4 DEF AcceptHash, IInv, AcceptInv
    <3>2. Append(accepted, popped) \in Seq(Ends)
      BY <3>1 DEF HostTypes
    <3> QED
      BY <2>1, <2>4, <3>1, <3>2 DEF AcceptHash, HostTypes
  <2> QED
    BY <1>3, <2>2, <2>3, <2>4 DEF Accept
<1>4. CASE ServerIp
  <2>1. ASSUME NEW c \in Clients, NEW i \in 1..MaxChild, Handle(<<c, i>>) PROVE HostTypes'
    BY <2>1, EndsOf, HandleTypes
  <2>2. CASE AckWake \/ AckEstablish
    BY <1>1, <2>2 DEF AckWake, AckEstablish, connVars, netVars, ipFrame, acceptVars
  <2> QED
    BY <1>4, <2>1, <2>2, SynListenTypes DEF ServerIp
<1>5. ASSUME NEW e \in Ends, NEW p, Retransmit(e, p) PROVE HostTypes'
  <2>1. p \in Packets /\ link \in Links
    BY <1>5 DEF Retransmit, IInv, Types, Socket
  <2>2. Transmit(link, e, <<p>>) /\ UNCHANGED <<hashed, timewait, connected, accepted, popped>>
    BY <1>5 DEF Retransmit, connVars, acceptVars
  <2> DEFINE out == <<p>>
  <2>3. Transmit(link, e, out) /\ \E q \in Packets : out = <<q>>
    BY <2>1, <2>2
  <2> HIDE DEF out
  <2>4. Bounded(link')
    BY <2>1, <2>3, BoundKept DEF HostTypes, Bounded
  <2> QED
    BY <2>2, <2>4 DEF HostTypes, Bounded
<1>6. ASSUME NEW e \in Ends, TimewaitOver(e) PROVE HostTypes'
  BY <1>1, <1>6 DEF TimewaitOver, acceptVars, netVars
<1>7. CASE Finished \/ UNCHANGED vars
  BY <1>1, <1>7 DEF Finished, vars, connVars, acceptVars, netVars
<1> QED
  BY <1>2, <1>3, <1>4, <1>5, <1>6, <1>7, AppTypes DEF Next
-----------------------------------------------------------------------------
(* Whose turn it is.                                                        *)

Holding(e) == ipc # "idle" /\ child = e

\* Nothing that tells whose turn it is has changed for end e.
Unturned(e) ==
  /\ sock'[e].state = sock[e].state /\ sock'[e].snd_nxt = sock[e].snd_nxt
  /\ Waiting(e)' => Waiting(e)
  /\ Holding(e)' <=> Holding(e)
  /\ e \in timewait' => e \in timewait

LEMMA TurnStill ==
  ASSUME NEW e \in Ends, TurnOk(e), Unturned(e), sock[e] \in Socket
  PROVE  TurnOk(e)'
BY DEF TurnOk, Unturned, Holding, Socket

\* A step of end e that shows the accept loop nothing.
LEMMA TurnElsewhere ==
  ASSUME Types, TurnInv, NEW e \in Ends, UNCHANGED <<accept_queue, apc, popped, ipc, child>>,
         timewait' \subseteq timewait \union {e}, \A x \in Ends \ {e} : sock'[x] = sock[x],
         IF IsClient(e) THEN sock'[e].state # "SYN_RECV" ELSE TurnOk(e)'
  PROVE  TurnInv'
<1>1. QueuedOnce'
  BY DEF TurnInv, QueuedOnce, Queued
<1>2. ASSUME NEW x \in Ends \ {e}, ~IsClient(x) PROVE TurnOk(x)'
  <2>1. Unturned(x)
    BY <1>2 DEF Unturned, Waiting, Queued, Holding
  <2>2. sock[x] \in Socket /\ TurnOk(x)
    BY <1>2 DEF Types, TurnInv
  <2> QED
    BY <2>1, <2>2, TurnStill
<1>3. ASSUME NEW x \in Ends \ {e}, IsClient(x) PROVE sock'[x].state # "SYN_RECV"
  BY <1>3 DEF TurnInv
<1> QED
  BY <1>1, <1>2, <1>3 DEF TurnInv

\* The state of an end is set, and it sends nothing.
LEMMA StateOnly ==
  ASSUME sock \in [Ends -> Socket], NEW x \in Ends, NEW state,
         sock' = [sock EXCEPT ![x].state = state]
  PROVE  /\ \A e \in Ends \ {x} : sock'[e] = sock[e]
         /\ \A e \in Ends : /\ sock'[e].snd_nxt = sock[e].snd_nxt /\ sock'[e].rcv_nxt = sock[e].rcv_nxt
                            /\ sock'[e].send_buf = sock[e].send_buf
                            /\ sock'[e].received = sock[e].received
         /\ sock'[x].state = state
<1>1. sock' = [sock EXCEPT ![x] = [sock[x] EXCEPT !.state = state]]
  OBVIOUS
<1>2. \A e \in Ends : sock[e] \in Socket
  OBVIOUS
<1> QED
  BY <1>1, <1>2 DEF Socket

\* Only the socket of e changes in a step that handles a packet of e.
LEMMA TakesOne ==
  ASSUME Types, NEW e \in Ends, NEW p, NEW s, NEW out, Takes(e, p, s, out)
  PROVE  sock'[e] = s /\ \A x \in Ends \ {e} : sock'[x] = sock[x]
BY DEF Takes, Becomes, Types

LEMMA HandleTurn ==
  ASSUME IInv, SynInv, TurnInv, NEW e \in Ends, Handle(e)
  PROVE  TurnInv'
<1>1. PICK p \in Packets : \E s, out : Handles(e, p) /\ Takes(e, p, s, out)
  BY HandleTakes
<1>2. PICK s, out : Handles(e, p) /\ Takes(e, p, s, out)
  BY <1>1
<1>3. sock'[e] = s /\ (\A x \in Ends \ {e} : sock'[x] = sock[x]) /\ s \in Socket /\ sock[e] \in Socket
  BY <1>2, TakesOne DEF IInv, Types, Takes, SocketTakes
<1>4. ~IsClient(e) => ipc = "idle" /\ TurnOk(e) /\ sock[e].snd_nxt > 0
  <2> SUFFICES ASSUME ~IsClient(e) PROVE sock[e].snd_nxt > 0 /\ TurnOk(e) /\ ipc = "idle"
    OBVIOUS
  <2>1. PICK c \in Clients, i \in 0..MaxChild : e = <<c, i>>
    BY DEF Ends
  <2>2. i \in 1..MaxChild
    BY <2>1 DEF IsClient
  <2>3. e \in hashed
    BY <1>2 DEF Handles
  <2> QED
    BY <1>2, <2>1, <2>2, <2>3 DEF SynInv, ChildOk, Known, Started, TurnInv, Takes
<1>5. timewait' \subseteq timewait \union {e} /\ StateTakes(e, p, s)
  BY <1>2 DEF Takes, HostTakes, SocketTakes
<1>6. CASE UNCHANGED <<acceptVars, ipVars>>
  <2>1. UNCHANGED <<accept_queue, apc, popped, ipc, child>>
    BY <1>6 DEF acceptVars, ipVars
  <2>2. ASSUME ~IsClient(e) PROVE TurnOk(e)'
    <3>1. /\ Waiting(e)' <=> Waiting(e)
          /\ ~Holding(e)'
      BY <1>4, <2>1, <2>2 DEF Waiting, Queued, Holding
    <3>2. sock[e].state = "SYN_RECV" => sock[e].snd_nxt = 1 /\ ~Waiting(e)
      BY <1>4, <2>2 DEF TurnOk
    <3>3. sock[e].state \in Opening \union {"CLOSED", "LAST_ACK"} /\ sock[e].snd_nxt \in Nat \ {0}
      BY <1>3, <1>4, <2>2 DEF TurnOk, Socket
    <3>4. /\ s.state \in Opening \union {"CLOSED", "LAST_ACK"}
          /\ s.state = "SYN_RECV" => sock[e].state = "SYN_RECV" /\ s.snd_nxt = sock[e].snd_nxt
          /\ s.snd_nxt <= (IF Waiting(e) THEN 1 ELSE 2) + (IF s.state \in Opening THEN 0 ELSE 1)
      BY <1>4, <1>5, <2>2, <3>3 DEF TurnOk, StateTakes, Opening
    <3>5. e \in timewait' => s.snd_nxt >= 2
      <4>1. CASE UNCHANGED timewait
        BY <1>4, <1>5, <2>2, <3>3, <4>1 DEF TurnOk, StateTakes
      <4>2. CASE s.state # sock[e].state /\ s.state \in {"LAST_ACK", "TIME_WAIT"}
        BY <1>5, <3>3, <4>2 DEF StateTakes, Opening
      <4> QED
        BY <1>2, <4>1, <4>2 DEF Takes, HostTakes
    <3> QED
      BY <1>3, <3>1, <3>2, <3>4, <3>5 DEF TurnOk, Holding
  <2>3. ASSUME IsClient(e) PROVE sock'[e].state # "SYN_RECV"
    <3>1. sock[e].state # "SYN_RECV"
      BY <2>3 DEF TurnInv
    <3> QED
      BY <1>3, <1>5, <3>1 DEF StateTakes
  <2> QED
    BY <1>3, <1>5, <2>1, <2>2, <2>3, TurnElsewhere DEF IInv
<1>7. CASE AckEnqueue(e, p)
  <2>1. /\ sock[e].state = "SYN_RECV" /\ p.flags = "ACK"
        /\ UNCHANGED <<timewait, apc, popped>>
        /\ accept_queue' = Append(accept_queue, e) /\ ipc' = "wake" /\ child' = e
    BY <1>7 DEF AckEnqueue, Arrives
  <2>2. accept_queue \in Seq(Ends)
    BY DEF IInv, AcceptInv
  <2> DEFINE n == Len(accept_queue) + 1
  <2>3. /\ n \in Nat \ {0} /\ Len(accept_queue') = n /\ accept_queue'[n] = e
        /\ \A k \in 1..Len(accept_queue) : accept_queue'[k] = accept_queue[k] /\ k \in 1..n
        /\ \A k \in 1..n : k = n \/ k \in 1..Len(accept_queue)
    BY <2>1, <2>2
  <2> HIDE DEF n
  <2>4. PICK c \in Clients, i \in 0..MaxChild : e = <<c, i>>
    BY DEF Ends
  <2>5. ~IsClient(e)
    BY <2>1 DEF TurnInv
  <2>6. ~Waiting(e) /\ sock[e].snd_nxt = 1 /\ ipc = "idle"
    BY <1>4, <2>1, <2>5 DEF TurnOk
  <2>7. \A x \in Ends \ {e} : Queued(x)' <=> Queued(x)
    BY <2>3 DEF Queued
  <2>8. QueuedOnce'
    <3>1. \A k \in 1..Len(accept_queue) : accept_queue[k] # e
      BY <2>6 DEF Waiting, Queued
    <3>2. \A k, l \in 1..n : accept_queue'[k] = accept_queue'[l] => k = l
      BY <2>3, <3>1 DEF TurnInv, QueuedOnce
    <3>3. apc = "set" => popped # e /\ popped \in Ends
      BY <2>6 DEF Waiting, IInv, AcceptInv
    <3>4. apc' = "set" => ~Queued(popped)'
      <4> SUFFICES ASSUME apc' = "set", NEW k \in 1..n, accept_queue'[k] = popped PROVE FALSE
        BY <2>1, <2>3 DEF Queued
      <4> QED
        BY <2>1, <2>3, <3>3 DEF TurnInv, QueuedOnce, Queued
    <3> QED
      BY <2>3, <3>2, <3>4 DEF QueuedOnce
  <2>9. TurnOk(e)'
    <3>1. s.state = "SYN_RECV" /\ s.snd_nxt = 1
      BY <1>5, <2>1, <2>6 DEF StateTakes
    <3>2. e \notin timewait'
      BY <1>4, <2>1, <2>5, <2>6 DEF TurnOk
    <3> QED
      BY <1>3, <2>1, <3>1, <3>2 DEF TurnOk, Opening
  <2>10. ASSUME NEW x \in Ends \ {e}, ~IsClient(x) PROVE TurnOk(x)'
    <3>1. Unturned(x)
      BY <1>3, <2>1, <2>6, <2>7 DEF Unturned, Waiting, Holding
    <3>2. sock[x] \in Socket /\ TurnOk(x)
      BY <2>10 DEF IInv, Types, TurnInv
    <3> QED
      BY <3>1, <3>2, TurnStill
  <2>11. ASSUME NEW x \in Ends, IsClient(x) PROVE sock'[x].state # "SYN_RECV"
    BY <1>3, <2>5, <2>11 DEF TurnInv
  <2> QED
    BY <2>8, <2>9, <2>10, <2>11 DEF TurnInv
<1> QED
  BY <1>2, <1>6, <1>7 DEF Takes, HostTakes

LEMMA SynListenTurn ==
  ASSUME IInv, SynInv, TurnInv, NEW c \in Clients, SynListen(c)
  PROVE  TurnInv'
<1>1. PICK i \in 1..MaxChild :
        LET e == <<c, i>>
            s == [sock[e] EXCEPT !.state = "SYN_RECV", !.rcv_nxt = SeqEnd(Head(link[<<c, "toServer">>]))]
        IN  /\ \A j \in 1..MaxChild : sock[<<c, j>>].snd_nxt = 0 <=> j >= i
            /\ Becomes(e, Sent(s, "SYNACK"), <<Packet(s, "SYNACK")>>)
  BY DEF SynListen
<1> DEFINE e == <<c, i>>
           n == SeqEnd(Head(link[<<c, "toServer">>]))
           s == [sock[e] EXCEPT !.state = "SYN_RECV", !.rcv_nxt = n]
           r == Sent(s, "SYNACK")
<1>2. e \in Ends /\ ~IsClient(e) /\ In(e) = <<c, "toServer">>
  BY EndsOf, ConnConstants DEF ConnConstants
<1>3. link[In(e)] # <<>>
  BY <1>2 DEF SynListen
<1>4. n \in Nat /\ sock[e] \in Socket
  BY <1>2, <1>3, NextPacket DEF SeqEnd, Packets, IInv, Types
<1>5. sock[e].snd_nxt = 0
  BY <1>1
<1>6. Unseen(e) /\ TurnOk(e)
  BY <1>2, <1>5 DEF SynInv, ChildOk, Known, Started, TurnInv
<1>7. sock' = [sock EXCEPT ![e] = r]
  BY <1>1 DEF Becomes
<1>8. UNCHANGED <<timewait, accept_queue, apc, popped, ipc, child>>
  BY DEF SynListen, ipFrame, acceptVars, ipVars
<1> HIDE DEF e, n
<1>9. s \in Socket /\ s.state = "SYN_RECV" /\ s.snd_nxt = 0
  BY <1>4, <1>5 DEF Socket, States
<1> HIDE DEF s
<1>10. r.state = "SYN_RECV" /\ r.snd_nxt = 1
  BY <1>9, SentData DEF Flags
<1> HIDE DEF r
<1>11. sock'[e] = r /\ \A x \in Ends \ {e} : sock'[x] = sock[x]
  BY <1>2, <1>7 DEF IInv, Types
<1>12. ~Waiting(e)' /\ ~Holding(e)'
  BY <1>6, <1>8 DEF Unseen, Waiting, Queued, Holding
<1>13. e \notin timewait'
  BY <1>5, <1>6, <1>8 DEF TurnOk
<1>14. TurnOk(e)'
  BY <1>10, <1>11, <1>12, <1>13 DEF TurnOk, Holding, Opening
<1> QED
  BY <1>2, <1>8, <1>11, <1>14, TurnElsewhere DEF IInv

LEMMA AppTurn ==
  ASSUME IInv, TurnInv, NEW c \in Clients, App(c)
  PROVE  TurnInv'
<1> DEFINE e == <<c, 0>>
<1>1. e \in Ends /\ IsClient(e)
  BY EndsOf, ConnConstants DEF ConnConstants
<1>2. sock \in [Ends -> Socket] /\ sock[e] \in Socket /\ sock[e].state # "SYN_RECV"
  BY <1>1 DEF IInv, Types, TurnInv
<1>3. UNCHANGED <<timewait, accept_queue, apc, popped, ipc, child>>
  BY DEF App, Connect, Connected, Confirm, Write, WriteReturns, CloseSet, CloseSend,
         acceptVars, ipVars, connVars
<1>4. ASSUME NEW state \in States \ {"SYN_RECV"}, NEW flags \in Flags, Send(c, state, flags)
      PROVE  sock'[e].state # "SYN_RECV" /\ \A x \in Ends \ {e} : sock'[x] = sock[x]
  <2> DEFINE s == [sock[e] EXCEPT !.state = state]
             r == Sent(s, flags)
  <2>1. sock' = [sock EXCEPT ![e] = r]
    BY <1>4 DEF Send
  <2>2. s \in Socket /\ s.state = state
    BY <1>2 DEF Socket
  <2> HIDE DEF s
  <2>3. r.state = state
    BY <2>2, SentData
  <2> HIDE DEF r, e
  <2> QED
    BY <1>1, <1>2, <2>1, <2>3
<1>5. sock'[e].state # "SYN_RECV" /\ \A x \in Ends \ {e} : sock'[x] = sock[x]
  <2>1. CASE Connect(c)
    BY <1>4, <2>1 DEF Connect, States, Flags
  <2>2. CASE Connected(c)
    BY <1>1, <1>2, <2>2, StateOnly DEF Connected
  <2>3. CASE Confirm(c)
    BY <1>2, <1>4, <2>3 DEF Confirm, Flags, Socket
  <2>4. CASE Write(c)
    BY <1>2, <1>4, <2>4 DEF Write, Flags, Socket
  <2>5. CASE WriteReturns(c)
    BY <1>2, <2>5 DEF WriteReturns, connVars
  <2>6. CASE CloseSet(c)
    BY <1>1, <1>2, <2>6, StateOnly DEF CloseSet
  <2>7. CASE CloseSend(c)
    BY <1>2, <1>4, <2>7 DEF CloseSend, Flags, Socket
  <2> QED
    BY <2>1, <2>2, <2>3, <2>4, <2>5, <2>6, <2>7 DEF App
<1> HIDE DEF e
<1> QED
  BY <1>1, <1>3, <1>5, TurnElsewhere DEF IInv

\* The accept loop.  A child that is set ESTABLISHED once more leaves the queue for good.
LEMMA AcceptTurn ==
  ASSUME IInv, TurnInv, Accept
  PROVE  TurnInv'
<1>1. UNCHANGED <<timewait, ipc, child>>
  BY DEF Accept, AcceptTest, AcceptSleep, AcceptWoken, AcceptPop, AcceptSet, AcceptHash,
         acceptFrame, ipVars
<1>2. sock \in [Ends -> Socket] /\ accept_queue \in Seq(Ends)
  BY DEF IInv, Types, AcceptInv
<1>3. ASSUME UNCHANGED sock, QueuedOnce', \A x \in Ends : Waiting(x)' => Waiting(x)
      PROVE  TurnInv'
  <2>1. ASSUME NEW x \in Ends, ~IsClient(x) PROVE TurnOk(x)'
    <3>1. Unturned(x) /\ TurnOk(x)
      BY <1>1, <1>3, <2>1 DEF Unturned, Holding, TurnInv
    <3> QED
      BY <1>2, <3>1, TurnStill
  <2> QED
    BY <1>3, <2>1 DEF TurnInv
<1>4. CASE AcceptTest \/ AcceptSleep \/ AcceptWoken \/ AcceptHash
  <2>1. /\ UNCHANGED <<sock, accept_queue>> /\ apc' # "set"
    BY <1>4 DEF AcceptTest, AcceptSleep, AcceptWoken, AcceptHash
  <2> QED
    BY <1>3, <2>1 DEF TurnInv, QueuedOnce, Queued, Waiting
<1>5. CASE AcceptPop
  <2>1. /\ UNCHANGED sock /\ apc' = "set" /\ accept_queue # <<>>
        /\ popped' = Head(accept_queue) /\ accept_queue' = Tail(accept_queue)
    BY <1>5 DEF AcceptPop, IInv, AcceptInv
  <2>2. /\ popped' = accept_queue[1] /\ 1 \in 1..Len(accept_queue)
        /\ \A k \in 1..Len(accept_queue') :
             k + 1 \in 1..Len(accept_queue) /\ accept_queue'[k] = accept_queue[k + 1] /\ k + 1 # 1
    BY <1>2, <2>1
  <2>3. QueuedOnce'
    <3>1. \A k \in 1..Len(accept_queue') : accept_queue'[k] # popped'
      BY <2>2 DEF TurnInv, QueuedOnce
    <3>2. \A k, l \in 1..Len(accept_queue') : accept_queue'[k] = accept_queue'[l] => k = l
      <4> SUFFICES ASSUME NEW k \in 1..Len(accept_queue'), NEW l \in 1..Len(accept_queue'),
                          accept_queue'[k] = accept_queue'[l]
                   PROVE  k = l
        OBVIOUS
      <4>1. k + 1 = l + 1
        BY <2>2 DEF TurnInv, QueuedOnce
      <4> QED
        BY <4>1
    <3> QED
      BY <3>1, <3>2 DEF QueuedOnce, Queued
  <2>4. \A x \in Ends : Waiting(x)' => Waiting(x)
    BY <2>1, <2>2 DEF Waiting, Queued
  <2> QED
    BY <1>3, <2>1, <2>3, <2>4
<1>6. CASE AcceptSet
  <2>1. /\ UNCHANGED <<accept_queue, popped>> /\ apc = "set" /\ apc' = "hash"
        /\ sock' = [sock EXCEPT ![popped].state = "ESTABLISHED"]
    BY <1>6 DEF AcceptSet
  <2>2. popped \in Ends
    BY <2>1 DEF IInv, AcceptInv
  <2>3. /\ \A x \in Ends \ {popped} : sock'[x] = sock[x]
        /\ sock'[popped].snd_nxt = sock[popped].snd_nxt /\ sock'[popped].state = "ESTABLISHED"
    BY <1>2, <2>1, <2>2, StateOnly
  <2>4. QueuedOnce'
    BY <2>1 DEF TurnInv, QueuedOnce, Queued
  <2>5. \A x \in Ends : Waiting(x)' => Waiting(x)
    BY <2>1 DEF Waiting, Queued
  <2>6. Waiting(popped) /\ ~Waiting(popped)'
    BY <2>1 DEF TurnInv, QueuedOnce, Waiting, Queued
  <2>7. ASSUME NEW x \in Ends, ~IsClient(x) PROVE TurnOk(x)'
    <3>1. TurnOk(x) /\ sock[x] \in Socket
      BY <1>2, <2>7 DEF TurnInv
    <3>2. CASE x # popped
      <4>1. Unturned(x)
        BY <1>1, <2>3, <2>5, <3>2 DEF Unturned, Holding
      <4> QED
        BY <3>1, <4>1, TurnStill
    <3>3. CASE x = popped
      <4>1. Waiting(x) /\ ~Waiting(x)'
        BY <2>1, <2>6, <3>3 DEF Waiting, Queued
      <4>2. sock'[x].snd_nxt = sock[x].snd_nxt /\ sock'[x].state = "ESTABLISHED"
        BY <2>3, <3>3
      <4> QED
        BY <1>1, <3>1, <4>1, <4>2 DEF TurnOk, Opening, Socket
    <3> QED
      BY <3>2, <3>3
  <2>8. ASSUME NEW x \in Ends, IsClient(x) PROVE sock'[x].state # "SYN_RECV"
    BY <2>3, <2>8 DEF TurnInv
  <2> QED
    BY <2>4, <2>7, <2>8 DEF TurnInv
<1> QED
  BY <1>4, <1>5, <1>6 DEF Accept

LEMMA HostTurn ==
  ASSUME IInv, TurnInv, AckWake \/ AckEstablish \/ \E e \in Ends : TimewaitOver(e)
  PROVE  TurnInv'
<1>1. UNCHANGED <<accept_queue, apc, popped>> /\ timewait' \subseteq timewait
  BY DEF AckWake, AckEstablish, TimewaitOver, connVars, acceptVars, ipFrame
<1>2. sock \in [Ends -> Socket]
  BY DEF IInv, Types
<1>3. QueuedOnce' /\ \A x \in Ends : Waiting(x)' <=> Waiting(x)
  BY <1>1 DEF TurnInv, QueuedOnce, Queued, Waiting
<1>4. CASE AckWake
  <2>1. UNCHANGED <<sock, child>> /\ ipc' # "idle" /\ ipc # "idle"
    BY <1>4 DEF AckWake, connVars
  <2>2. ASSUME NEW x \in Ends, ~IsClient(x) PROVE TurnOk(x)'
    <3>1. Unturned(x) /\ TurnOk(x)
      BY <1>1, <1>3, <2>1, <2>2 DEF Unturned, Holding, TurnInv
    <3> QED
      BY <1>2, <3>1, TurnStill
  <2> QED
    BY <1>3, <2>1, <2>2 DEF TurnInv
<1>5. CASE AckEstablish
  <2>1. ipc = "establish" /\ ipc' = "idle" /\ sock' = [sock EXCEPT ![child].state = "ESTABLISHED"]
    BY <1>5 DEF AckEstablish
  <2>2. child \in Ends
    BY <2>1 DEF IInv, AcceptInv
  <2>3. /\ \A x \in Ends \ {child} : sock'[x] = sock[x]
        /\ sock'[child].snd_nxt = sock[child].snd_nxt /\ sock'[child].state = "ESTABLISHED"
    BY <1>2, <2>1, <2>2, StateOnly
  <2>4. ASSUME NEW x \in Ends, ~IsClient(x) PROVE TurnOk(x)'
    <3>1. TurnOk(x) /\ sock[x] \in Socket
      BY <1>2, <2>4 DEF TurnInv
    <3>2. CASE x # child
      <4>1. ~Holding(x) /\ ~Holding(x)'
        BY <2>1, <3>2 DEF Holding
      <4>2. Unturned(x)
        BY <1>1, <1>3, <2>3, <3>2, <4>1 DEF Unturned
      <4> QED
        BY <3>1, <4>2, TurnStill
    <3>3. CASE x = child
      BY <1>1, <1>3, <2>1, <2>3, <3>1, <3>3 DEF TurnOk, Opening, Socket
    <3> QED
      BY <3>2, <3>3
  <2>5. ASSUME NEW x \in Ends, IsClient(x) PROVE sock'[x].state # "SYN_RECV"
    BY <2>3, <2>5 DEF TurnInv
  <2> QED
    BY <1>3, <2>4, <2>5 DEF TurnInv
<1>6. ASSUME NEW e \in Ends, TimewaitOver(e) PROVE TurnInv'
  <2>1. /\ e \in timewait /\ UNCHANGED <<ipc, child>>
        /\ sock' = [sock EXCEPT ![e].state = "CLOSED"]
    BY <1>6 DEF TimewaitOver, ipVars
  <2>2. /\ \A x \in Ends \ {e} : sock'[x] = sock[x]
        /\ sock'[e].snd_nxt = sock[e].snd_nxt /\ sock'[e].state = "CLOSED"
    BY <1>2, <2>1, StateOnly
  <2>3. ASSUME ~IsClient(e) PROVE TurnOk(e)'
    <3>1. TurnOk(e) /\ sock[e] \in Socket /\ e \in timewait
      BY <1>2, <2>1, <2>3 DEF TurnInv
    <3> QED
      BY <1>1, <1>3, <2>1, <2>2, <3>1 DEF TurnOk, Opening, Socket
  <2> QED
    BY <1>1, <2>1, <2>2, <2>3, TurnElsewhere DEF IInv
<1> QED
  BY <1>4, <1>5, <1>6

LEMMA InitTurn == Init => HostTypes /\ TurnInv
<1> SUFFICES ASSUME Init PROVE HostTypes /\ TurnInv
  OBVIOUS
<1>1. HostTypes
  <2>1. \A w \in Wires : Len(link[w]) = 0
    BY DEF Init, Wires
  <2>2. 0 <= QueueLen
    BY ConnConstants DEF ConnConstants
  <2> QED
    BY <2>1, <2>2 DEF Init, HostTypes, Bounded
<1>2. \A e \in Ends : sock[e].state = "CLOSED" /\ (~IsClient(e) => sock[e].snd_nxt = 0)
  BY DEF Init, Iss
<1>3. accept_queue = <<>> /\ Len(accept_queue) = 0 /\ apc = "test" /\ ipc = "idle" /\ timewait = {}
  BY DEF Init
<1>4. TurnInv
  BY <1>2, <1>3 DEF TurnInv, QueuedOnce, Queued, Waiting, TurnOk, Opening
<1> QED
  BY <1>1, <1>4

LEMMA StepTurn == IInv /\ SynInv /\ TurnInv /\ [Next]_vars => TurnInv'
<1> SUFFICES ASSUME IInv, SynInv, TurnInv, [Next]_vars PROVE TurnInv'
  OBVIOUS
<1>1. ASSUME NEW c \in Clients, ClientIp(c) PROVE TurnInv'
  BY <1>1, EndsOf, HandleTurn, ConnConstants DEF ClientIp, ConnConstants
<1>2. ASSUME NEW c \in Clients, NEW i \in 1..MaxChild, Handle(<<c, i>>) PROVE TurnInv'
  BY <1>2, EndsOf, HandleTurn
<1>3. CASE ServerIp
  BY <1>2, <1>3, SynListenTurn, HostTurn DEF ServerIp
<1>4. CASE (\E e \in Ends : \E p \in sock[e].send_buf : Retransmit(e, p)) \/ Finished \/ UNCHANGED vars
  <2>1. UNCHANGED <<sock, timewait, accept_queue, apc, popped, ipc, child>>
    BY <1>4 DEF Retransmit, Finished, vars, connVars, acceptVars, ipVars
  <2> QED
    BY <2>1 DEF TurnInv, QueuedOnce, Queued, TurnOk, Waiting
<1> QED
  BY <1>1, <1>3, <1>4, AppTurn, AcceptTurn, HostTurn DEF Next
-----------------------------------------------------------------------------
(* The numbers of data and FIN.                                             *)

\* Second: the numbers.  A client sends SYN, ACK, its segment, FIN and ACK, in this order.
Number(place) ==
  CASE place = "connect" -> 1
    [] place \in {"wait", "confirm", "write"} -> 2
    [] place \in {"written", "close", "fin"} -> 3
    [] place = "done" -> 4

Items(w) == {w[k] : k \in 1..Len(w)}

FromClient(p) ==
  \/ p.flags = "SYN" /\ p.seq = 1
  \/ p.flags = "ACK" /\ p.seq \in {2, 4}
  \/ p.flags = "PSHACK" /\ p.seq = 2
  \/ p.flags = "FIN" /\ p.seq = 3

InOrder(w) == \A k, l \in 1..Len(w) : k < l => SeqEnd(w[k]) <= SeqEnd(w[l])

\* A child of client c has received everything below n.
Reached(c, n) == \E i \in 1..MaxChild : sock[<<c, i>>].rcv_nxt >= n

FromChild(c, p) ==
  /\ p.flags \in {"SYNACK", "ACK", "ACKFIN"}
  /\ SeqEnd(p) <= 4 /\ Reached(c, p.ack)
  /\ p.flags = "ACKFIN" => Reached(c, 4)

\* What client c has sent, and keeps until it is acknowledged.
Sending(c) ==
  LET s == sock[<<c, 0>>]
  IN  /\ s.snd_nxt = Number(app[c]) /\ s.rcv_nxt <= 4 /\ s.received = 0
      /\ \A p \in s.send_buf : FromClient(p) /\ p.flags # "ACK" /\ SeqEnd(p) = s.snd_nxt
      /\ app[c] \in {"close", "fin"} => s.send_buf = {}
      /\ \A p \in Items(Up(c)) : FromClient(p) /\ SeqEnd(p) <= s.snd_nxt
      /\ InOrder(Up(c))

\* What the children of client c have received ...
Receiving(c) ==
  \A i \in 1..MaxChild :
    LET t == sock[<<c, i>>]
    IN  IF Started(<<c, i>>)
        THEN /\ t.rcv_nxt \in 2..4 /\ t.rcv_nxt <= sock[<<c, 0>>].snd_nxt
             /\ t.received = IF t.rcv_nxt >= 3 THEN 1 ELSE 0
             /\ \A p \in Items(Up(c)) : SeqEnd(p) >= t.rcv_nxt
        ELSE t.rcv_nxt = 0 /\ t.received = 0 /\ t.send_buf = {}

\* ... and acknowledged, ...
Acking(c) ==
  /\ \A p \in Items(Down(c)) : FromChild(c, p)
  /\ \A i \in 1..MaxChild : \A p \in sock[<<c, i>>].send_buf : FromChild(c, p)

\* ... and what the client has learnt from it.
Learning(c) ==
  /\ app[c] \in {"close", "fin", "done"} => Reached(c, 3)
  /\ app[c] = "written" /\ sock[<<c, 0>>].send_buf = {} => Reached(c, 3)
  /\ sock[<<c, 0>>].state = "TIME_WAIT" => Reached(c, 4)

DataOk(c) == Sending(c) /\ Receiving(c) /\ Acking(c) /\ Learning(c)
DataInv   == \A c \in Clients : DataOk(c)

LEMMA ItemsTail ==
  ASSUME NEW w \in Seq(Packets), w # <<>>
  PROVE  /\ Head(w) \in Items(w) /\ Items(Tail(w)) \subseteq Items(w)
         /\ InOrder(w) => /\ InOrder(Tail(w))
                          /\ \A p \in Items(Tail(w)) : SeqEnd(Head(w)) <= SeqEnd(p)
<1> DEFINE u == Tail(w)
<1>1. /\ Len(w) \in Nat \ {0} /\ Len(u) = Len(w) - 1 /\ Head(w) = w[1]
      /\ \A k \in 1..Len(u) : u[k] = w[k + 1]
  OBVIOUS
<1>2. /\ 1 \in 1..Len(w)
      /\ \A k \in 1..Len(u) : k + 1 \in 1..Len(w) /\ u[k] = w[k + 1] /\ 1 < k + 1
      /\ \A k, l \in 1..Len(u) : k < l => k + 1 < l + 1
  BY <1>1
<1> HIDE DEF u
<1>3. Head(w) \in Items(w) /\ Items(u) \subseteq Items(w)
  BY <1>1, <1>2 DEF Items
<1>4. ASSUME InOrder(w) PROVE InOrder(u) /\ \A p \in Items(u) : SeqEnd(Head(w)) <= SeqEnd(p)
  BY <1>1, <1>2, <1>4 DEF InOrder, Items
<1> QED
  BY <1>3, <1>4 DEF u

LEMMA ItemsAppend ==
  ASSUME NEW w \in Seq(Packets), NEW q \in Packets
  PROVE  LET u == w \o <<q>>
         IN  /\ \A p \in Items(u) : p \in Items(w) \/ p = q
             /\ InOrder(w) /\ (\A p \in Items(w) : SeqEnd(p) <= SeqEnd(q)) => InOrder(u)
<1> DEFINE u == w \o <<q>>
           n == Len(w) + 1
<1>1. /\ Len(w) \in Nat /\ Len(u) = n /\ u[n] = q
      /\ \A k \in 1..Len(w) : u[k] = w[k]
  OBVIOUS
<1>2. \A k \in 1..Len(u) : (k \in 1..Len(w) /\ u[k] = w[k]) \/ (k = n /\ u[k] = q)
  BY <1>1
<1>3. \A k, l \in 1..Len(u) : k < l => k \in 1..Len(w) /\ u[k] = w[k]
  BY <1>1
<1> HIDE DEF u, n
<1>4. \A p \in Items(u) : p \in Items(w) \/ p = q
  BY <1>2 DEF Items
<1>5. InOrder(w) /\ (\A p \in Items(w) : SeqEnd(p) <= SeqEnd(q)) => InOrder(u)
  BY <1>2, <1>3 DEF InOrder, Items
<1> QED
  BY <1>4, <1>5 DEF u

LEMMA ItemsTyped ==
  ASSUME Types, NEW c \in Clients
  PROVE  /\ Up(c) \in Seq(Packets) /\ Down(c) \in Seq(Packets)
         /\ Items(Up(c)) \subseteq Packets /\ Items(Down(c)) \subseteq Packets
<1>1. Up(c) \in Seq(Packets) /\ Down(c) \in Seq(Packets)
  BY DEF Types, Links, Wires, Up, Down
<1>2. \A w \in Seq(Packets) : Items(w) \subseteq Packets
  BY DEF Items
<1> QED
  BY <1>1, <1>2

LEMMA SeqEndType == \A p \in Packets : SeqEnd(p) \in Nat /\ p.ack \in Nat /\ p.seq \in Nat
BY DEF SeqEnd, Packets

\* What a child sends stays true of what the children have received.
LEMMA FromChildStays ==
  ASSUME NEW c \in Clients, NEW p \in Packets, FromChild(c, p),
         \A j \in 1..MaxChild : /\ sock[<<c, j>>].rcv_nxt \in Nat /\ sock'[<<c, j>>].rcv_nxt \in Nat
                                /\ sock'[<<c, j>>].rcv_nxt >= sock[<<c, j>>].rcv_nxt
  PROVE  FromChild(c, p)'
<1>1. \A n \in Nat : Reached(c, n) => \E j \in 1..MaxChild : sock'[<<c, j>>].rcv_nxt >= n
  BY DEF Reached
<1>2. \A n \in Nat : (\E j \in 1..MaxChild : sock'[<<c, j>>].rcv_nxt >= n) <=> Reached(c, n)'
  BY DEF Reached
<1> QED
  BY <1>1, <1>2, SeqEndType DEF FromChild

Data(e) == <<sock[e].snd_nxt, sock[e].rcv_nxt, sock[e].send_buf, sock[e].received>>

\* A step that is nothing to the exchange between client d and its children.
Untouched(d) ==
  /\ \A j \in 0..MaxChild : UNCHANGED Data(<<d, j>>)
  /\ UNCHANGED Up(d) /\ UNCHANGED Down(d)
  /\ sock'[<<d, 0>>].state = "TIME_WAIT" => sock[<<d, 0>>].state = "TIME_WAIT"

LEMMA DataStill ==
  ASSUME NEW d \in Clients, DataOk(d), Untouched(d),
         Number(app'[d]) = Number(app[d]),
         app'[d] \in {"close", "fin"} => sock[<<d, 0>>].send_buf = {},
         app'[d] \in {"close", "fin", "done"} => Reached(d, 3),
         app'[d] = "written" => app[d] = "written"
  PROVE  DataOk(d)'
<1>1. 0 \in 0..MaxChild /\ \A j \in 1..MaxChild : j \in 0..MaxChild
  BY ConnConstants DEF ConnConstants
<1>2. \A n : Reached(d, n)' <=> Reached(d, n)
  BY <1>1 DEF Reached, Untouched, Data
<1>3. \A j \in 1..MaxChild : Started(<<d, j>>)' <=> Started(<<d, j>>)
  BY <1>1 DEF Started, Untouched, Data
<1>4. Sending(d)'
  BY <1>1 DEF DataOk, Sending, Untouched, Data
<1>5. Receiving(d)'
  BY <1>1, <1>3 DEF DataOk, Receiving, Untouched, Data
<1>6. \A p : FromChild(d, p) => FromChild(d, p)'
  BY <1>1 DEF FromChild, Reached, Untouched, Data
<1>7. Acking(d)'
  BY <1>1, <1>6 DEF DataOk, Acking, Untouched, Data
<1>8. Learning(d)'
  BY <1>1, <1>2 DEF DataOk, Learning, Untouched, Data
<1> QED
  BY <1>4, <1>5, <1>7, <1>8 DEF DataOk

LEMMA DataElsewhere ==
  ASSUME DataInv, NEW e \in Ends, Elsewhere(e), NEW d \in Clients \ {e[1]}
  PROVE  DataOk(d)'
<1>1. \A j \in 0..MaxChild : <<d, j>> \in Ends \ {e}
  BY EndsOf
<1>2. 0 \in 0..MaxChild
  BY ConnConstants DEF ConnConstants
<1>3. UNCHANGED Up(d) /\ UNCHANGED Down(d)
  <2>1. \A x \in {"toServer", "toClient"} : <<d, x>> \in Wires \ {In(e), Out(e)}
    BY DEF Wires, In, Out
  <2> QED
    BY <2>1 DEF Up, Down, Elsewhere
<1>4. \A j \in 0..MaxChild : sock'[<<d, j>>] = sock[<<d, j>>]
  BY <1>1 DEF Elsewhere
<1>5. DataOk(d) /\ app'[d] = app[d]
  BY DEF DataInv, Elsewhere
<1>6. Untouched(d)
  BY <1>2, <1>3, <1>4 DEF Untouched, Data
<1> QED
  BY <1>5, <1>6, DataStill DEF DataOk, Sending, Learning

\* A step of client c that sends at most q, and takes at most a packet.
ClientSteps(c, q) ==
  LET s == sock'[<<c, 0>>]
  IN  /\ Elsewhere(<<c, 0>>) /\ Items(Down(c)') \subseteq Items(Down(c))
      /\ Up(c)' = Up(c) \/ (Up(c)' = Up(c) \o <<q>> /\ FromClient(q) /\ SeqEnd(q) = s.snd_nxt)
      /\ s.snd_nxt >= sock[<<c, 0>>].snd_nxt /\ s.snd_nxt = Number(app'[c])
      /\ s.rcv_nxt <= 4 /\ s.received = 0
      /\ \A p \in s.send_buf : FromClient(p) /\ p.flags # "ACK" /\ SeqEnd(p) = s.snd_nxt
      /\ app'[c] \in {"close", "fin"} => s.send_buf = {}
      /\ app'[c] \in {"close", "fin", "done"} => Reached(c, 3)
      /\ app'[c] = "written" /\ s.send_buf = {} => Reached(c, 3)
      /\ s.state = "TIME_WAIT" => Reached(c, 4)

LEMMA ClientData ==
  ASSUME Types, Types', DataInv, NEW c \in Clients, NEW q \in Packets, ClientSteps(c, q)
  PROVE  DataInv'
<1> DEFINE e == <<c, 0>>
           s == sock'[e]
<1>1. e \in Ends /\ e[1] = c /\ \A i \in 1..MaxChild : <<c, i>> \in Ends \ {e}
  BY EndsOf, ConnConstants DEF ConnConstants
<1>2. \A i \in 1..MaxChild : sock'[<<c, i>>] = sock[<<c, i>>]
  BY <1>1 DEF ClientSteps, Elsewhere
<1>3. \A n : Reached(c, n)' <=> Reached(c, n)
  BY <1>2 DEF Reached
<1>4. \A p : FromChild(c, p) => FromChild(c, p)'
  BY <1>2 DEF FromChild, Reached
<1>5. DataOk(c) /\ s.snd_nxt \in Nat /\ sock[e].snd_nxt \in Nat
  BY <1>1 DEF DataInv, Types, Socket
<1>6. \A p \in Items(Up(c)') : \/ p \in Items(Up(c))
                               \/ p = q /\ FromClient(q) /\ SeqEnd(q) = s.snd_nxt
  BY ItemsTyped, ItemsAppend DEF ClientSteps
<1>7. \A p \in Items(Up(c)) : SeqEnd(p) <= s.snd_nxt /\ SeqEnd(p) \in Nat
  BY <1>5, ItemsTyped, SeqEndType DEF DataOk, Sending, ClientSteps
<1>8. InOrder(Up(c)')
  <2>1. InOrder(Up(c)) /\ Up(c) \in Seq(Packets)
    BY <1>5, ItemsTyped DEF DataOk, Sending
  <2>2. SeqEnd(q) = s.snd_nxt => InOrder(Up(c) \o <<q>>)
    BY <1>7, <2>1, ItemsAppend
  <2>3. Up(c)' = Up(c) \/ (Up(c)' = Up(c) \o <<q>> /\ SeqEnd(q) = s.snd_nxt)
    BY DEF ClientSteps
  <2> HIDE DEF s
  <2> QED
    BY <2>1, <2>2, <2>3
<1>9. Sending(c)'
  <2>1. \A p \in Items(Up(c)') : FromClient(p) /\ SeqEnd(p) <= s.snd_nxt
    BY <1>5, <1>6, <1>7 DEF DataOk, Sending
  <2>2. Items(Up(c))' = Items(Up(c)') /\ InOrder(Up(c))'
    BY <1>8 DEF Items, InOrder
  <2>3. \A p : FromClient(p)' <=> FromClient(p)
    BY DEF FromClient
  <2> QED
    BY <1>8, <2>1, <2>2, <2>3 DEF Sending, ClientSteps
<1>10. Receiving(c)'
  <2> SUFFICES ASSUME NEW i \in 1..MaxChild
               PROVE  LET t == sock[<<c, i>>]
                      IN  IF Started(<<c, i>>)
                          THEN /\ t.rcv_nxt \in 2..4 /\ t.rcv_nxt <= s.snd_nxt
                               /\ t.received = IF t.rcv_nxt >= 3 THEN 1 ELSE 0
                               /\ \A p \in Items(Up(c)') : SeqEnd(p) >= t.rcv_nxt
                          ELSE t.rcv_nxt = 0 /\ t.received = 0 /\ t.send_buf = {}
    BY <1>2 DEF Receiving, Started, Items
  <2> DEFINE t == sock[<<c, i>>]
  <2>1. CASE Started(<<c, i>>)
    <3>1. /\ t.rcv_nxt \in 2..4 /\ t.rcv_nxt <= sock[e].snd_nxt
          /\ t.received = IF t.rcv_nxt >= 3 THEN 1 ELSE 0
          /\ \A p \in Items(Up(c)) : SeqEnd(p) >= t.rcv_nxt
      BY <1>5, <2>1 DEF DataOk, Receiving
    <3>2. t.rcv_nxt <= s.snd_nxt
      BY <1>5, <3>1 DEF ClientSteps
    <3> HIDE DEF t
    <3>3. \A p \in Items(Up(c)') : SeqEnd(p) >= t.rcv_nxt
      BY <1>6, <3>1, <3>2
    <3> QED
      BY <2>1, <3>1, <3>2, <3>3 DEF t
  <2>2. CASE ~Started(<<c, i>>)
    BY <1>5, <2>2 DEF DataOk, Receiving
  <2> QED
    BY <2>1, <2>2
<1>11. Acking(c)'
  <2>1. \A p \in Items(Down(c)') : FromChild(c, p)'
    BY <1>4, <1>5 DEF DataOk, Acking, ClientSteps
  <2>2. \A i \in 1..MaxChild : \A p \in sock'[<<c, i>>].send_buf : FromChild(c, p)'
    BY <1>2, <1>4, <1>5 DEF DataOk, Acking
  <2> QED
    BY <2>1, <2>2 DEF Acking, Items
<1>12. Learning(c)'
  BY <1>3 DEF Learning, ClientSteps
<1>13. \A d \in Clients \ {c} : DataOk(d)'
  <2> HIDE DEF e
  <2> QED
    BY <1>1, DataElsewhere DEF ClientSteps, e
<1> QED
  BY <1>9, <1>10, <1>11, <1>12, <1>13 DEF DataInv, DataOk

\* A step of child i of client c.
ChildSteps(c, i) ==
  LET t == sock'[<<c, i>>]
  IN  /\ Elsewhere(<<c, i>>) /\ UNCHANGED app
      /\ Items(Up(c)') \subseteq Items(Up(c)) /\ InOrder(Up(c)')
      /\ t.snd_nxt > 0 /\ t.rcv_nxt >= sock[<<c, i>>].rcv_nxt
      /\ t.rcv_nxt \in 2..4 /\ t.rcv_nxt <= sock[<<c, 0>>].snd_nxt
      /\ t.received = IF t.rcv_nxt >= 3 THEN 1 ELSE 0
      /\ \A p \in Items(Up(c)') : SeqEnd(p) >= t.rcv_nxt
      /\ \A p \in t.send_buf : p \in sock[<<c, i>>].send_buf \/ FromChild(c, p)'
      /\ \A p \in Items(Down(c)') : p \in Items(Down(c)) \/ FromChild(c, p)'

LEMMA ChildData ==
  ASSUME Types, Types', DataInv, NEW c \in Clients, NEW i \in 1..MaxChild, ChildSteps(c, i)
  PROVE  DataInv'
<1> DEFINE e == <<c, i>>
           t == sock'[e]
<1>1. /\ e \in Ends /\ e[1] = c /\ <<c, 0>> \in Ends \ {e}
      /\ \A j \in 1..MaxChild : <<c, j>> \in Ends /\ (j # i => <<c, j>> \in Ends \ {e})
  BY EndsOf, ConnConstants DEF ConnConstants
<1>2. /\ sock'[<<c, 0>>] = sock[<<c, 0>>]
      /\ \A j \in 1..MaxChild : j # i => sock'[<<c, j>>] = sock[<<c, j>>]
  BY <1>1 DEF ChildSteps, Elsewhere
<1>3. DataOk(c) /\ \A j \in 1..MaxChild : /\ sock[<<c, j>>].rcv_nxt \in Nat
                                          /\ sock'[<<c, j>>].rcv_nxt \in Nat
                                          /\ sock[<<c, j>>].send_buf \subseteq Packets
  BY <1>1 DEF DataInv, Types, Socket
<1>4. \A j \in 1..MaxChild : sock'[<<c, j>>].rcv_nxt >= sock[<<c, j>>].rcv_nxt
  BY <1>2, <1>3 DEF ChildSteps
<1>5. \A p \in Packets : FromChild(c, p) => FromChild(c, p)'
  BY <1>3, <1>4, FromChildStays
<1>6. \A n \in Nat : Reached(c, n) => Reached(c, n)'
  <2>1. \A n \in Nat : Reached(c, n) => \E j \in 1..MaxChild : sock'[<<c, j>>].rcv_nxt >= n
    BY <1>3, <1>4 DEF Reached
  <2> QED
    BY <2>1 DEF Reached
<1>7. Sending(c)'
  BY <1>2, <1>3 DEF DataOk, Sending, ChildSteps, Items, InOrder, FromClient
<1>8. Receiving(c)'
  <2> SUFFICES ASSUME NEW j \in 1..MaxChild
               PROVE  LET u == sock'[<<c, j>>]
                      IN  IF u.snd_nxt > 0
                          THEN /\ u.rcv_nxt \in 2..4 /\ u.rcv_nxt <= sock[<<c, 0>>].snd_nxt
                               /\ u.received = IF u.rcv_nxt >= 3 THEN 1 ELSE 0
                               /\ \A p \in Items(Up(c)') : SeqEnd(p) >= u.rcv_nxt
                          ELSE u.rcv_nxt = 0 /\ u.received = 0 /\ u.send_buf = {}
    BY <1>2 DEF Receiving, Started, Items
  <2>1. CASE j = i
    BY <2>1 DEF ChildSteps
  <2>2. CASE j # i
    BY <1>2, <1>3, <2>2 DEF DataOk, Receiving, Started, ChildSteps
  <2> QED
    BY <2>1, <2>2
<1>9. Acking(c)'
  <2>1. \A p \in Items(Down(c)') : FromChild(c, p)'
    BY <1>3, <1>5, ItemsTyped DEF DataOk, Acking, ChildSteps
  <2>2. ASSUME NEW j \in 1..MaxChild, NEW p \in sock'[<<c, j>>].send_buf PROVE FromChild(c, p)'
    <3>1. p \in sock[<<c, j>>].send_buf \/ FromChild(c, p)'
      BY <1>2, <2>2 DEF ChildSteps
    <3> QED
      BY <1>3, <1>5, <2>2, <3>1 DEF DataOk, Acking
  <2> QED
    BY <2>1, <2>2 DEF Acking, Items
<1>10. Learning(c)'
  BY <1>2, <1>3, <1>6 DEF DataOk, Learning, ChildSteps
<1>11. \A d \in Clients \ {c} : DataOk(d)'
  <2> HIDE DEF e
  <2> QED
    BY <1>1, DataElsewhere DEF ChildSteps, e
<1> QED
  BY <1>7, <1>8, <1>9, <1>10, <1>11 DEF DataInv, DataOk

\* Every child that has begun is the one that has received most.
LEMMA OnlyOneReached ==
  ASSUME SynInv, DataInv, NEW c \in Clients, NEW i \in 1..MaxChild, Started(<<c, i>>),
         NEW n \in Nat \ {0}, Reached(c, n)
  PROVE  sock[<<c, i>>].rcv_nxt >= n
<1>1. PICK j \in 1..MaxChild : sock[<<c, j>>].rcv_nxt >= n
  BY DEF Reached
<1>2. Started(<<c, j>>)
  <2>1. ~Started(<<c, j>>) => sock[<<c, j>>].rcv_nxt = 0
    BY DEF DataInv, DataOk, Receiving
  <2> QED
    BY <1>1, <2>1
<1>3. i = j
  BY <1>2 DEF SynInv, ChildOk
<1> QED
  BY <1>1, <1>3

\* A number of packets that were sent tells how far the client is.
LEMMA Numbers ==
  /\ \A place \in Places : Number(place) \in 1..4
  /\ \A place \in Places : Number(place) >= 4 <=> place = "done"
  /\ \A place \in Places : Number(place) >= 2 <=> place # "connect"
BY DEF Places, Number

LEMMA NextOfClient ==
  ASSUME IInv, DataInv, NEW c \in Clients, Up(c) # <<>>
  PROVE  LET p == Head(Up(c))
         IN  /\ p \in Packets /\ p \in Items(Up(c)) /\ FromClient(p)
             /\ SeqEnd(p) \in 2..4 /\ SeqEnd(p) <= sock[<<c, 0>>].snd_nxt
             /\ Items(Tail(Up(c))) \subseteq Items(Up(c)) /\ InOrder(Tail(Up(c)))
             /\ \A x \in Items(Tail(Up(c))) : SeqEnd(x) >= SeqEnd(p) /\ SeqEnd(x) \in Nat
<1>1. Up(c) \in Seq(Packets) /\ Items(Up(c)) \subseteq Packets
  BY ItemsTyped DEF IInv
<1>2. Sending(c)
  BY DEF DataInv, DataOk
<1>3. /\ Head(Up(c)) \in Items(Up(c)) /\ Items(Tail(Up(c))) \subseteq Items(Up(c))
      /\ InOrder(Tail(Up(c)))
      /\ \A p \in Items(Tail(Up(c))) : SeqEnd(Head(Up(c))) <= SeqEnd(p)
  BY <1>1, <1>2, ItemsTail DEF Sending
<1> DEFINE p == Head(Up(c))
<1>4. p \in Packets /\ FromClient(p) /\ SeqEnd(p) <= sock[<<c, 0>>].snd_nxt
  BY <1>1, <1>2, <1>3 DEF Sending
<1> HIDE DEF p
<1>5. SeqEnd(p) \in 2..4
  BY <1>4 DEF FromClient, SeqEnd
<1>6. \A x \in Items(Tail(Up(c))) : SeqEnd(x) \in Nat
  BY <1>1, <1>3, SeqEndType
<1> QED
  BY <1>3, <1>4, <1>5, <1>6 DEF p

\* A child handles the client's next packet.
LEMMA ChildHandlesData ==
  ASSUME IInv, IInv', SynInv, TurnInv, DataInv, NEW c \in Clients, NEW i \in 1..MaxChild, Handle(<<c, i>>)
  PROVE  DataInv'
<1> DEFINE e == <<c, i>>
<1>1. /\ e \in Ends /\ ~IsClient(e) /\ link[In(e)] = Up(c) /\ link'[In(e)] = Up(c)'
      /\ link[Out(e)] = Down(c) /\ link'[Out(e)] = Down(c)'
  BY EndsOf, ConnConstants DEF ConnConstants, Up, Down
<1>2. PICK p \in Packets : \E s, out : Handles(e, p) /\ Takes(e, p, s, out)
  BY <1>1, HandleTakes
<1>3. PICK s, out : Handles(e, p) /\ Takes(e, p, s, out)
  BY <1>2
<1>4. Up(c) # <<>> /\ p = Head(Up(c)) /\ e \in hashed /\ UNCHANGED app
  BY <1>1, <1>3 DEF Handles, HostHandles
<1> DEFINE t == sock[e]
           rest == Tail(Up(c))
<1>5. sock'[e] = s /\ s \in Socket /\ t \in Socket
  <2> HIDE DEF e
  <2> QED
    BY <1>1, <1>3, TakesOne DEF IInv, Types, Takes, SocketTakes
<1>6. Started(e)
  BY <1>4 DEF SynInv, ChildOk, Known
<1>7. /\ t.rcv_nxt \in 2..4 /\ t.rcv_nxt <= sock[<<c, 0>>].snd_nxt
      /\ t.received = IF t.rcv_nxt >= 3 THEN 1 ELSE 0
      /\ \A x \in Items(Up(c)) : SeqEnd(x) >= t.rcv_nxt
  BY <1>6 DEF DataInv, DataOk, Receiving
<1>8. /\ p \in Items(Up(c)) /\ FromClient(p)
      /\ SeqEnd(p) \in 2..4 /\ SeqEnd(p) <= sock[<<c, 0>>].snd_nxt
      /\ Items(rest) \subseteq Items(Up(c)) /\ InOrder(rest)
      /\ \A x \in Items(rest) : SeqEnd(x) >= SeqEnd(p) /\ SeqEnd(x) \in Nat
  BY <1>4, NextOfClient
<1>9. SeqEnd(p) >= t.rcv_nxt
  BY <1>7, <1>8
<1>10. app[c] \in Places /\ sock[<<c, 0>>].snd_nxt = Number(app[c])
  BY DEF IInv, Types, DataInv, DataOk, Sending
<1>11. SeqEnd(p) = 4 => t.rcv_nxt >= 3
  <2> SUFFICES ASSUME SeqEnd(p) = 4 PROVE t.rcv_nxt >= 3
    OBVIOUS
  <2>1. app[c] = "done"
    BY <1>8, <1>10, Numbers
  <2>2. Reached(c, 3)
    BY <2>1 DEF DataInv, DataOk, Learning
  <2> QED
    BY <1>6, <2>2, OnlyOneReached
<1>12. /\ IF p.flags = "PSHACK" /\ p.seq # t.rcv_nxt
          THEN s.rcv_nxt = t.rcv_nxt ELSE s.rcv_nxt = SeqEnd(p)
       /\ IF p.flags = "PSHACK" /\ p.seq = t.rcv_nxt
          THEN s.received = t.received + 1 ELSE s.received = t.received
       /\ \A q \in s.send_buf : q \in t.send_buf \/ (q.flags = "ACKFIN" /\ Answer(e, p, s, q))
       /\ out = <<>> \/ \E q \in Packets : Answer(e, p, s, q) /\ out = <<q>>
       /\ StateTakes(e, p, s)
  BY <1>3 DEF Takes, SocketTakes
<1> HIDE DEF t, rest
<1>13. /\ s.rcv_nxt \in 2..4 /\ s.rcv_nxt >= t.rcv_nxt /\ s.rcv_nxt <= sock[<<c, 0>>].snd_nxt
       /\ s.received = IF s.rcv_nxt >= 3 THEN 1 ELSE 0
       /\ SeqEnd(p) >= s.rcv_nxt
  <2>1. CASE p.flags = "PSHACK"
    <3>1. p.seq = 2 /\ SeqEnd(p) = 3
      BY <1>8, <2>1 DEF FromClient, SeqEnd
    <3> QED
      BY <1>7, <1>8, <1>9, <1>12, <2>1, <3>1
  <2>2. CASE p.flags # "PSHACK"
    <3>1. SeqEnd(p) # 3
      BY <1>8, <2>2 DEF FromClient, SeqEnd
    <3> QED
      BY <1>7, <1>8, <1>9, <1>11, <1>12, <2>2, <3>1
  <2> QED
    BY <2>1, <2>2
<1>14. ASSUME NEW q \in Packets, Answer(e, p, s, q) PROVE FromChild(c, q)'
  <2>1. q.seq = t.snd_nxt /\ q.ack = s.rcv_nxt /\ q.flags \in {"ACK", "ACKFIN"}
        /\ (q.flags = "ACKFIN" => p.flags = "FIN")
    BY <1>14 DEF Answer, t
  <2>2. t.snd_nxt <= 3
    BY <1>1, <1>5 DEF TurnInv, TurnOk, t, Socket
  <2>3. SeqEnd(q) <= 4
    BY <1>5, <2>1, <2>2 DEF SeqEnd, Socket
  <2>4. \A n \in Nat : s.rcv_nxt >= n => Reached(c, n)'
    BY <1>5 DEF Reached
  <2>5. q.flags = "ACKFIN" => s.rcv_nxt >= 4
    BY <1>8, <1>12, <2>1 DEF FromClient, SeqEnd
  <2> QED
    BY <1>13, <2>1, <2>3, <2>4, <2>5 DEF FromChild
<1>15. s.snd_nxt > 0
  BY <1>5, <1>6, <1>12 DEF Started, StateTakes, Socket, t
<1>16. Up(c)' = rest /\ \A x \in Items(Down(c)') : x \in Items(Down(c)) \/ FromChild(c, x)'
  <2>1. Becomes(e, s, out)
    BY <1>3 DEF Takes
  <2> DEFINE before == [link EXCEPT ![In(e)] = Tail(@)]
  <2>2. link \in Links /\ In(e) \in Wires
    BY <1>1, EndsOf DEF IInv, Types
  <2>3. before \in Links
    BY <1>1, <1>4, Taking DEF IInv
  <2>4. before[In(e)] = rest /\ \A w \in Wires \ {In(e)} : before[w] = link[w]
    BY <1>1, <2>2 DEF Links, rest
  <2>5. Transmit(before, e, out)
    BY <2>1 DEF Becomes
  <2> HIDE DEF before, e
  <2>6. link'[In(e)] = rest /\ (link'[Out(e)] = link[Out(e)] \/ link'[Out(e)] = link[Out(e)] \o out)
    BY <1>1, <2>2, <2>3, <2>4, <2>5, EndReach
  <2>7. Down(c) \in Seq(Packets)
    BY ItemsTyped DEF IInv
  <2>8. Down(c)' = Down(c) \/ \E q \in Packets : Answer(e, p, s, q) /\ Down(c)' = Down(c) \o <<q>>
    <3>1. Down(c) \o <<>> = Down(c)
      BY <2>7
    <3> QED
      BY <1>1, <1>12, <2>6, <3>1
  <2> QED
    BY <1>1, <1>14, <2>6, <2>7, <2>8, ItemsAppend
<1>17. \A x \in s.send_buf : x \in t.send_buf \/ FromChild(c, x)'
  BY <1>5, <1>12, <1>14 DEF Socket
<1>18. Elsewhere(e)
  <2> HIDE DEF e
  <2> QED
    BY <1>1, <1>3, HandledReach
<1>19. \A x \in Items(rest) : SeqEnd(x) >= s.rcv_nxt
  BY <1>8, <1>13
<1>20. ChildSteps(c, i)
  BY <1>4, <1>5, <1>8, <1>13, <1>15, <1>16, <1>17, <1>18, <1>19 DEF ChildSteps, t, rest
<1> QED
  BY <1>20, ChildData DEF IInv

\* The client has sent its FIN if a child has received everything.
LEMMA AllReached ==
  ASSUME IInv, DataInv, NEW c \in Clients, Reached(c, 4)
  PROVE  sock[<<c, 0>>].snd_nxt = 4
<1>1. PICK i \in 1..MaxChild : sock[<<c, i>>].rcv_nxt >= 4
  BY DEF Reached
<1>2. Receiving(c) /\ sock[<<c, 0>>].snd_nxt = Number(app[c]) /\ app[c] \in Places
  BY DEF IInv, Types, DataInv, DataOk, Sending
<1>3. ~Started(<<c, i>>) => sock[<<c, i>>].rcv_nxt = 0
  BY <1>2 DEF Receiving
<1>4. sock[<<c, i>>].rcv_nxt \in 2..4 /\ sock[<<c, i>>].rcv_nxt <= sock[<<c, 0>>].snd_nxt
  BY <1>1, <1>2, <1>3 DEF Receiving
<1> QED
  BY <1>1, <1>2, <1>4, Numbers

\* The client handles a child's next packet.
LEMMA ClientHandlesData ==
  ASSUME IInv, IInv', DataInv, NEW c \in Clients, Handle(<<c, 0>>)
  PROVE  DataInv'
<1> DEFINE e == <<c, 0>>
<1>1. /\ e \in Ends /\ e[1] = c /\ link[In(e)] = Down(c) /\ link'[In(e)] = Down(c)'
      /\ link[Out(e)] = Up(c) /\ link'[Out(e)] = Up(c)'
  BY EndsOf, ConnConstants DEF ConnConstants, Up, Down
<1>2. PICK p \in Packets : \E s, out : Handles(e, p) /\ Takes(e, p, s, out)
  BY <1>1, HandleTakes
<1>3. PICK s, out : Handles(e, p) /\ Takes(e, p, s, out)
  BY <1>2
<1> DEFINE t == sock[e]
           rest == Tail(Down(c))
<1>4. Down(c) # <<>> /\ p = Head(Down(c)) /\ UNCHANGED app
  BY <1>1, <1>3 DEF Handles, HostHandles
<1>5. sock'[e] = s /\ s \in Socket /\ t \in Socket
  <2> HIDE DEF e
  <2> QED
    BY <1>1, <1>3, TakesOne DEF IInv, Types, Takes, SocketTakes
<1>6. Sending(c) /\ Learning(c) /\ Acking(c)
  BY DEF DataInv, DataOk
<1>7. Down(c) \in Seq(Packets) /\ Up(c) \in Seq(Packets)
  BY ItemsTyped DEF IInv
<1>8. p \in Items(Down(c)) /\ Items(rest) \subseteq Items(Down(c))
  BY <1>4, <1>7, ItemsTail
<1>9. FromChild(c, p)
  BY <1>6, <1>8 DEF Acking
<1>10. /\ s.rcv_nxt = SeqEnd(p) /\ s.received = t.received /\ StateTakes(e, p, s)
       /\ \A q \in s.send_buf : \/ q \in t.send_buf
                                \/ q.flags = "ACKFIN" /\ Answer(e, p, s, q)
       /\ \A q \in t.send_buf : q \in s.send_buf \/ SeqEnd(q) <= p.ack
       /\ out = <<>> \/ \E q \in Packets : Answer(e, p, s, q) /\ out = <<q>>
  BY <1>3, <1>9 DEF Takes, SocketTakes, FromChild
<1> HIDE DEF t, rest
<1>11. s.snd_nxt = t.snd_nxt /\ (s.state = "TIME_WAIT" => Reached(c, 4))
  BY <1>6, <1>9, <1>10 DEF StateTakes, FromChild, Learning, t
<1>12. \A q \in s.send_buf : q \in t.send_buf
  BY <1>9, <1>10 DEF Answer, FromChild
<1>13. ASSUME NEW q \in Packets, Answer(e, p, s, q) PROVE FromClient(q) /\ SeqEnd(q) = s.snd_nxt
  <2>1. q.flags = "ACK" /\ q.seq = t.snd_nxt /\ Reached(c, 4)
    BY <1>9, <1>13 DEF Answer, FromChild, t
  <2>2. t.snd_nxt = 4
    BY <2>1, AllReached DEF t
  <2> QED
    BY <1>11, <2>1, <2>2 DEF FromClient, SeqEnd
<1>14. Elsewhere(e) /\ Down(c)' = rest
  <2> HIDE DEF e
  <2> QED
    BY <1>1, <1>3, HandledReach DEF rest
<1>15. Up(c)' = Up(c) \/ Up(c)' = Up(c) \o out
  <2>1. Becomes(e, s, out)
    BY <1>3 DEF Takes
  <2> DEFINE before == [link EXCEPT ![In(e)] = Tail(@)]
  <2>2. link \in Links /\ In(e) \in Wires
    BY <1>1, EndsOf DEF IInv, Types
  <2>3. before \in Links
    BY <1>1, <1>4, Taking DEF IInv
  <2>4. \A w \in Wires \ {In(e)} : before[w] = link[w]
    BY <2>2 DEF Links
  <2>5. Transmit(before, e, out)
    BY <2>1 DEF Becomes
  <2> HIDE DEF before, e
  <2> QED
    BY <1>1, <2>2, <2>3, <2>4, <2>5, EndReach
<1>16. \E q \in Packets : \/ Up(c)' = Up(c)
                          \/ Up(c)' = Up(c) \o <<q>> /\ FromClient(q) /\ SeqEnd(q) = s.snd_nxt
  <2>1. Up(c) \o <<>> = Up(c)
    BY <1>7
  <2> QED
    BY <1>10, <1>13, <1>15, <2>1
<1>17. PICK q \in Packets : \/ Up(c)' = Up(c)
                            \/ Up(c)' = Up(c) \o <<q>> /\ FromClient(q) /\ SeqEnd(q) = s.snd_nxt
  BY <1>16
<1>18. app[c] = "written" /\ s.send_buf = {} => Reached(c, 3)
  <2> SUFFICES ASSUME app[c] = "written", s.send_buf = {} PROVE Reached(c, 3)
    OBVIOUS
  <2>1. CASE t.send_buf = {}
    BY <1>6, <2>1 DEF Learning, t
  <2>2. CASE t.send_buf # {}
    <3>1. PICK x \in t.send_buf : SeqEnd(x) = t.snd_nxt /\ SeqEnd(x) <= p.ack
      BY <1>6, <1>10, <2>2 DEF Sending, t
    <3>2. t.snd_nxt = 3
      BY <1>6 DEF Sending, Number, t
    <3>3. Reached(c, p.ack) /\ p.ack \in Nat
      BY <1>9, SeqEndType DEF FromChild
    <3>4. PICK i \in 1..MaxChild : sock[<<c, i>>].rcv_nxt >= p.ack
      BY <3>3 DEF Reached
    <3>5. sock[<<c, i>>].rcv_nxt \in Nat
      <4>1. <<c, i>> \in Ends
        BY EndsOf
      <4> QED
        BY <4>1 DEF IInv, Types, Socket
    <3>6. sock[<<c, i>>].rcv_nxt >= 3
      BY <3>1, <3>2, <3>3, <3>4, <3>5
    <3> QED
      BY <3>6 DEF Reached
  <2> QED
    BY <2>1, <2>2
<1>19. /\ s.snd_nxt = Number(app[c]) /\ s.rcv_nxt <= 4 /\ s.received = 0
       /\ s.snd_nxt >= t.snd_nxt
       /\ \A x \in s.send_buf : FromClient(x) /\ x.flags # "ACK" /\ SeqEnd(x) = s.snd_nxt
       /\ app[c] \in {"close", "fin"} => s.send_buf = {}
  BY <1>5, <1>6, <1>9, <1>10, <1>11, <1>12 DEF Sending, FromChild, t, Socket
<1>20. app[c] \in {"close", "fin", "done"} => Reached(c, 3)
  BY <1>6 DEF Learning
<1>21. ClientSteps(c, q)
  BY <1>4, <1>5, <1>8, <1>11, <1>14, <1>17, <1>18, <1>19, <1>20 DEF ClientSteps, t
<1> QED
  BY <1>21, ClientData DEF IInv

\* Nothing is kept when the client sends its next packet.
LEMMA NothingKept ==
  ASSUME SynInv, DataInv, NEW c \in Clients, app[c] \in {"connect", "confirm", "write", "fin"}
  PROVE  sock[<<c, 0>>].send_buf = {}
<1>1. Sending(c)
  BY DEF DataInv, DataOk
<1>2. CASE app[c] = "fin"
  BY <1>1, <1>2 DEF Sending
<1>3. CASE app[c] # "fin"
  <2> SUFFICES ASSUME NEW p \in sock[<<c, 0>>].send_buf PROVE FALSE
    OBVIOUS
  <2>1. FromClient(p) /\ p.flags # "ACK" /\ SeqEnd(p) = Number(app[c])
    BY <1>1 DEF Sending
  <2>2. Number(app[c]) \in {1, 2} /\ (Number(app[c]) = 2 => ~KeepsSyn(c))
    BY <1>3 DEF Number, SynInv, ClientOk, Connecting
  <2>3. SeqEnd(p) >= 2 /\ (SeqEnd(p) = 2 => p.flags = "SYN")
    BY <2>1 DEF FromClient, SeqEnd
  <2> QED
    BY <2>1, <2>2, <2>3 DEF KeepsSyn
<1> QED
  BY <1>2, <1>3

Sendings == {<<"connect", "wait", "SYN">>, <<"confirm", "write", "ACK">>,
             <<"write", "written", "PSHACK">>, <<"fin", "done", "FIN">>}

\* The client's thread sends a packet.
LEMMA ClientSendsData ==
  ASSUME IInv, IInv', SynInv, DataInv, NEW c \in Clients, NEW state \in States,
         state = "TIME_WAIT" => sock[<<c, 0>>].state = "TIME_WAIT",
         NEW from, NEW to, NEW flags, <<from, to, flags>> \in Sendings,
         At(c, from, to), Send(c, state, flags),
         \A x \in Ends \ {<<c, 0>>} : x \in hashed' <=> x \in hashed,
         UNCHANGED <<connected, acceptVars, ipVars>>
  PROVE  DataInv'
<1> DEFINE e == <<c, 0>>
           t == sock[e]
           s == [t EXCEPT !.state = state]
           q == Packet(s, flags)
           r == Sent(s, flags)
<1>1. e \in Ends
  BY EndsOf, ConnConstants DEF ConnConstants
<1>2. app[c] = from /\ app' = [app EXCEPT ![c] = to] /\ app \in [Clients -> Places]
  BY DEF At, IInv, Types
<1>3. app'[c] = to /\ flags \in Flags /\ from \in {"connect", "confirm", "write", "fin"}
  BY <1>2 DEF Sendings, Flags
<1>4. sock' = [sock EXCEPT ![e] = r] /\ Transmit(link, e, <<q>>)
  BY DEF Send
<1>5. Sending(c) /\ Learning(c) /\ t.send_buf = {}
  BY <1>2, <1>3, NothingKept DEF DataInv, DataOk
<1>6. t \in Socket /\ link \in Links
  BY <1>1 DEF IInv, Types
<1> HIDE DEF t
<1>7. /\ s \in Socket /\ s.send_buf = {} /\ s.state = state /\ s.received = t.received
      /\ s.rcv_nxt = t.rcv_nxt /\ s.snd_nxt = t.snd_nxt
  BY <1>5, <1>6 DEF Socket
<1> HIDE DEF s
<1>8. q \in Packets /\ q.flags = flags /\ q.seq = t.snd_nxt
  BY <1>3, <1>7, PacketType DEF Packet
<1>9. /\ r \in Socket /\ r.state = state /\ r.received = t.received /\ r.rcv_nxt = t.rcv_nxt
      /\ r.snd_nxt = t.snd_nxt + (IF flags = "ACK" THEN 0 ELSE 1)
      /\ r.send_buf = IF flags = "ACK" THEN {} ELSE {q}
  <2>1. /\ r \in Socket /\ r.state = s.state /\ r.received = s.received /\ r.rcv_nxt = s.rcv_nxt
        /\ IF flags = "ACK" THEN r = s
           ELSE r.snd_nxt = s.snd_nxt + 1 /\ r.send_buf = s.send_buf \union {q}
    BY <1>3, <1>7, SentData
  <2>2. t.snd_nxt \in Nat
    BY <1>6 DEF Socket
  <2> HIDE DEF q, r
  <2>3. CASE flags = "ACK"
    BY <1>7, <2>1, <2>2, <2>3
  <2>4. CASE flags # "ACK"
    BY <1>7, <2>1, <2>2, <2>4
  <2> QED
    BY <2>3, <2>4
<1> HIDE DEF q, r
<1>10. /\ Elsewhere(e) /\ sock'[e] = r
       /\ Up(c)' = Up(c) \/ Up(c)' = Up(c) \o <<q>>
       /\ Down(c)' = link[<<c, "toClient">>]
  <2> DEFINE out == <<q>>
  <2>1. \A d \in Clients \ {c} : app'[d] = app[d] /\ (d \in connected' <=> d \in connected)
    BY <1>2
  <2>2. \A x \in Ends \ {e} : (x \in hashed' <=> x \in hashed) /\ (Unseen(x) => Unseen(x)')
    BY DEF Unseen, acceptVars, ipVars
  <2>3. Transmit(link, e, out) /\ \A w \in Wires \ {<<c, "toClient">>} : link[w] = link[w]
    BY <1>4
  <2> HIDE DEF out
  <2>4. /\ Elsewhere(e) /\ sock'[e] = r
        /\ Up(c)' = Up(c) \/ Up(c)' = Up(c) \o out
        /\ Down(c)' = link[<<c, "toClient">>]
    BY <1>4, <1>6, <2>1, <2>2, <2>3, ClientElsewhere
  <2> QED
    BY <2>4 DEF out
<1>11. t.snd_nxt = Number(from) /\ t.rcv_nxt <= 4 /\ t.received = 0
  BY <1>2, <1>5 DEF Sending, t
<1>12. /\ r.snd_nxt = Number(to) /\ r.snd_nxt >= t.snd_nxt
       /\ FromClient(q) /\ SeqEnd(q) = r.snd_nxt
  BY <1>8, <1>9, <1>11 DEF Sendings, Number, FromClient, SeqEnd
<1>13. /\ to \in {"close", "fin", "done"} => from = "fin"
       /\ to \notin {"close", "fin"} /\ (to = "written" => flags = "PSHACK")
  BY DEF Sendings
<1>14. from = "fin" => Reached(c, 3)
  BY <1>2, <1>5 DEF Learning
<1>15. state = "TIME_WAIT" => Reached(c, 4)
  BY <1>5 DEF Learning
<1>16. Items(Down(c)') = Items(Down(c))
  BY <1>10 DEF Down
<1>17. \A x \in r.send_buf : x = q /\ flags # "ACK"
  BY <1>9
<1>18. to = "written" => r.send_buf # {}
  BY <1>9, <1>13
<1>19. ClientSteps(c, q)
  BY <1>3, <1>8, <1>9, <1>10, <1>11, <1>12, <1>13, <1>14, <1>15, <1>16, <1>17, <1>18
     DEF ClientSteps, t
<1> QED
  BY <1>8, <1>19, ClientData DEF IInv

\* The client's thread is at another place, and has sent nothing.
Moved(d) ==
  /\ Number(app'[d]) = Number(app[d])
  /\ app'[d] \in {"close", "fin"} => sock[<<d, 0>>].send_buf = {}
  /\ app'[d] \in {"close", "fin", "done"} => Reached(d, 3)
  /\ app'[d] = "written" => app[d] = "written"

LEMMA StillMoved ==
  ASSUME DataInv, NEW d \in Clients, app'[d] = app[d]
  PROVE  Moved(d)
BY DEF DataInv, DataOk, Sending, Learning, Moved

LEMMA StillData ==
  ASSUME DataInv, UNCHANGED link, \A e \in Ends : UNCHANGED Data(e),
         \A d \in Clients : /\ Moved(d)
                            /\ sock'[<<d, 0>>].state = "TIME_WAIT" => sock[<<d, 0>>].state = "TIME_WAIT"
  PROVE  DataInv'
<1> SUFFICES ASSUME NEW d \in Clients PROVE DataOk(d)'
  BY DEF DataInv
<1>1. \A j \in 0..MaxChild : UNCHANGED Data(<<d, j>>)
  BY EndsOf
<1>2. UNCHANGED Up(d) /\ UNCHANGED Down(d)
  BY DEF Up, Down
<1>3. Untouched(d)
  BY <1>1, <1>2 DEF Untouched
<1> QED
  BY <1>3, DataStill DEF DataInv, Moved

\* The state of an end is set, though not to TIME_WAIT.
LEMMA StateData ==
  ASSUME IInv, DataInv, UNCHANGED link, NEW x \in Ends, NEW state, state # "TIME_WAIT",
         sock' = [sock EXCEPT ![x].state = state], \A d \in Clients : Moved(d)
  PROVE  DataInv'
<1>1. /\ \A e \in Ends \ {x} : sock'[e] = sock[e]
      /\ \A e \in Ends : /\ sock'[e].snd_nxt = sock[e].snd_nxt /\ sock'[e].rcv_nxt = sock[e].rcv_nxt
                         /\ sock'[e].send_buf = sock[e].send_buf
                         /\ sock'[e].received = sock[e].received
      /\ sock'[x].state = state
  BY StateOnly DEF IInv, Types
<1>2. \A e \in Ends : UNCHANGED Data(e)
  BY <1>1 DEF Data
<1>3. \A d \in Clients : <<d, 0>> \in Ends
  <2>1. 0 \in 0..MaxChild
    BY ConnConstants DEF ConnConstants
  <2> QED
    BY <2>1, EndsOf
<1>4. \A d \in Clients : sock'[<<d, 0>>].state = "TIME_WAIT" => sock[<<d, 0>>].state = "TIME_WAIT"
  BY <1>1, <1>3
<1>5. \A d \in Clients : /\ Moved(d)
                         /\ sock'[<<d, 0>>].state = "TIME_WAIT" => sock[<<d, 0>>].state = "TIME_WAIT"
  BY <1>4
<1> QED
  BY <1>2, <1>5, StillData

LEMMA AppData ==
  ASSUME IInv, IInv', SynInv, DataInv, NEW c \in Clients, App(c)
  PROVE  DataInv'
<1>1. app \in [Clients -> Places] /\ <<c, 0>> \in Ends /\ sock[<<c, 0>>].state \in States
  BY EndsOf, ConnConstants DEF ConnConstants, IInv, Types, Socket
<1>2. Sending(c) /\ Learning(c)
  BY DEF DataInv, DataOk
<1>3. ASSUME NEW from, NEW to, At(c, from, to), app'[c] = to => Moved(c)
      PROVE  \A d \in Clients : Moved(d)
  BY <1>1, <1>3, StillMoved DEF At
<1>4. CASE Connect(c)
  <2>1. At(c, "connect", "wait") /\ Send(c, "SYN_SENT", "SYN")
        /\ UNCHANGED <<connected, acceptVars, ipVars>> /\ hashed' = hashed \union {<<c, 0>>}
    BY <1>4 DEF Connect
  <2>2. <<"connect", "wait", "SYN">> \in Sendings /\ "SYN_SENT" \in States
    BY DEF Sendings, States
  <2>3. \A x \in Ends \ {<<c, 0>>} : x \in hashed' <=> x \in hashed
    BY <2>1
  <2>4. UNCHANGED connected /\ UNCHANGED acceptVars /\ UNCHANGED ipVars
    BY <2>1
  <2> QED
    BY <2>1, <2>2, <2>3, <2>4, ClientSendsData
<1>5. CASE Connected(c)
  <2>1. At(c, "wait", "confirm") /\ UNCHANGED link
        /\ sock' = [sock EXCEPT ![<<c, 0>>].state = "ESTABLISHED"]
    BY <1>5 DEF Connected, netVars
  <2>2. app'[c] = "confirm" => Moved(c)
    BY <2>1 DEF At, Moved, Number
  <2> QED
    BY <1>1, <1>3, <2>1, <2>2, StateData
<1>6. CASE Confirm(c)
  BY <1>1, <1>6, ClientSendsData DEF Confirm, Sendings
<1>7. CASE Write(c)
  BY <1>1, <1>7, ClientSendsData DEF Write, Sendings
<1>8. CASE WriteReturns(c)
  <2>1. /\ At(c, "written", "close") /\ UNCHANGED <<link, sock>>
        /\ sock[<<c, 0>>].send_buf = {}
    BY <1>8 DEF WriteReturns, netVars, connVars
  <2>2. app'[c] = "close" => Moved(c)
    BY <1>2, <2>1 DEF At, Moved, Number, Learning
  <2>3. \A e \in Ends : UNCHANGED Data(e)
    BY <2>1 DEF Data
  <2> QED
    BY <1>3, <2>1, <2>2, <2>3, StillData
<1>9. CASE CloseSet(c)
  <2>1. At(c, "close", "fin") /\ UNCHANGED link
        /\ sock' = [sock EXCEPT ![<<c, 0>>].state = "FIN_WAIT_1"]
    BY <1>9 DEF CloseSet, netVars
  <2>2. app'[c] = "fin" => Moved(c)
    BY <1>2, <2>1 DEF At, Moved, Number, Sending, Learning
  <2> QED
    BY <1>1, <1>3, <2>1, <2>2, StateData
<1>10. CASE CloseSend(c)
  BY <1>1, <1>10, ClientSendsData DEF CloseSend, Sendings
<1> QED
  BY <1>4, <1>5, <1>6, <1>7, <1>8, <1>9, <1>10 DEF App

\* The listener takes the client's SYN: its first child has received number 1.
LEMMA SynListenData ==
  ASSUME IInv, IInv', SynInv, DataInv, NEW c \in Clients, SynListen(c)
  PROVE  DataInv'
<1>1. PICK i \in 1..MaxChild :
        LET e == <<c, i>>
            s == [sock[e] EXCEPT !.state = "SYN_RECV", !.rcv_nxt = SeqEnd(Head(link[<<c, "toServer">>]))]
        IN  /\ \A j \in 1..MaxChild : sock[<<c, j>>].snd_nxt = 0 <=> j >= i
            /\ Becomes(e, Sent(s, "SYNACK"), <<Packet(s, "SYNACK")>>)
            /\ hashed' = hashed \union {e}
  BY DEF SynListen
<1> DEFINE e == <<c, i>>
           p == Head(Up(c))
           n == SeqEnd(p)
           t == sock[e]
           s == [t EXCEPT !.state = "SYN_RECV", !.rcv_nxt = n]
           q == Packet(s, "SYNACK")
           r == Sent(s, "SYNACK")
           before == [link EXCEPT ![In(e)] = Tail(@)]
<1>2. /\ e \in Ends /\ e[1] = c /\ In(e) = <<c, "toServer">> /\ Out(e) = <<c, "toClient">>
      /\ In(e) \in Wires /\ Out(e) \in Wires
  BY EndsOf
<1>3. Up(c) # <<>> /\ p.flags = "SYN" /\ UNCHANGED <<app, connected, acceptVars, ipVars>>
  BY DEF SynListen, Up, ipFrame
<1>4. /\ p \in Packets /\ FromClient(p) /\ n \in 2..4 /\ n <= sock[<<c, 0>>].snd_nxt
      /\ Items(Tail(Up(c))) \subseteq Items(Up(c)) /\ InOrder(Tail(Up(c)))
      /\ \A x \in Items(Tail(Up(c))) : SeqEnd(x) >= n
  BY <1>3, NextOfClient
<1>5. n = 2
  BY <1>3, <1>4 DEF FromClient, SeqEnd
<1>6. t \in Socket /\ t.snd_nxt = 0 /\ ~Started(e)
  BY <1>1, <1>2 DEF IInv, Types, Started
<1>7. t.rcv_nxt = 0 /\ t.received = 0 /\ t.send_buf = {}
  BY <1>6 DEF DataInv, DataOk, Receiving
<1>8. Becomes(e, r, <<q>>) /\ hashed' = hashed \union {e}
  BY <1>1 DEF Up
<1>9. link \in Links /\ sock \in [Ends -> Socket] /\ Down(c) \in Seq(Packets)
  BY ItemsTyped DEF IInv, Types
<1>10. before \in Links
  BY <1>2, <1>3, Taking DEF IInv, Up
<1>11. before[In(e)] = Tail(Up(c)) /\ \A w \in Wires \ {In(e)} : before[w] = link[w]
  BY <1>2, <1>9 DEF Links, Up
<1>12. sock' = [sock EXCEPT ![e] = r] /\ Transmit(before, e, <<q>>)
  BY <1>8 DEF Becomes
<1> HIDE DEF before, n, p, t
<1>13. s \in Socket /\ s.rcv_nxt = 2 /\ s.snd_nxt = 0 /\ s.send_buf = {} /\ s.received = 0
  BY <1>5, <1>6, <1>7 DEF Socket, States
<1> HIDE DEF s
<1>14. q \in Packets /\ q.flags = "SYNACK" /\ q.ack = 2 /\ q.seq = 0
  BY <1>13, PacketType DEF Flags, Packet
<1>15. r.snd_nxt = 1 /\ r.rcv_nxt = 2 /\ r.received = 0 /\ r.send_buf = {q}
  <2>1. /\ r.received = s.received /\ r.rcv_nxt = s.rcv_nxt
        /\ r.snd_nxt = s.snd_nxt + 1 /\ r.send_buf = s.send_buf \union {q}
    BY <1>13, SentData DEF Flags
  <2> HIDE DEF q, r
  <2> QED
    BY <1>13, <2>1
<1> HIDE DEF q, r
<1>16. sock'[e] = r /\ \A x \in Ends \ {e} : sock'[x] = sock[x]
  BY <1>2, <1>9, <1>12
<1> HIDE DEF e
<1>17. /\ \A w \in Wires \ {In(e), Out(e)} : link'[w] = link[w]
       /\ link'[In(e)] = before[In(e)]
       /\ link'[Out(e)] = link[Out(e)] \/ link'[Out(e)] = link[Out(e)] \o <<q>>
  <2> DEFINE out == <<q>>
  <2>1. Transmit(before, e, out)
    BY <1>12
  <2> HIDE DEF out
  <2>2. /\ \A w \in Wires \ {In(e), Out(e)} : link'[w] = link[w]
        /\ link'[In(e)] = before[In(e)]
        /\ link'[Out(e)] = link[Out(e)] \/ link'[Out(e)] = link[Out(e)] \o out
    BY <1>2, <1>9, <1>10, <1>11, <2>1, EndReach
  <2> QED
    BY <2>2 DEF out
<1>18. Elsewhere(e)
  <2>1. \A x \in Ends \ {e} : (x \in hashed' <=> x \in hashed) /\ (Unseen(x) => Unseen(x)')
    BY <1>3, <1>8 DEF Unseen, acceptVars, ipVars
  <2> QED
    BY <1>3, <1>16, <1>17, <2>1 DEF Elsewhere
<1>19. \A x \in Packets : x.flags = "SYNACK" /\ x.ack = 2 /\ x.seq = 0 => FromChild(c, x)'
  <2>1. sock'[<<c, i>>].rcv_nxt >= 2
    BY <1>15, <1>16 DEF e
  <2>2. Reached(c, 2)'
    BY <2>1 DEF Reached
  <2> QED
    BY <2>2 DEF FromChild, SeqEnd
<1>20. Up(c)' = Tail(Up(c)) /\ (Down(c)' = Down(c) \/ Down(c)' = Down(c) \o <<q>>)
  BY <1>2, <1>11, <1>17 DEF Up, Down
<1>21. /\ \A x \in Items(Down(c)') : x \in Items(Down(c)) \/ FromChild(c, x)'
       /\ \A x \in r.send_buf : FromChild(c, x)'
  <2>1. \A x \in Items(Down(c)') : x \in Items(Down(c)) \/ x = q
    BY <1>9, <1>14, <1>20, ItemsAppend
  <2> QED
    BY <1>14, <1>15, <1>19, <2>1
<1>22. /\ sock'[<<c, i>>] = r /\ sock[<<c, i>>] = t
       /\ r.rcv_nxt >= t.rcv_nxt /\ r.rcv_nxt <= sock[<<c, 0>>].snd_nxt
       /\ \A x \in Items(Tail(Up(c))) : SeqEnd(x) >= r.rcv_nxt
  BY <1>4, <1>5, <1>7, <1>15, <1>16 DEF e, t
<1>23. ChildSteps(c, i)
  BY <1>3, <1>4, <1>15, <1>18, <1>20, <1>21, <1>22 DEF ChildSteps, e
<1> QED
  BY <1>23, ChildData DEF IInv

\* What is sent again has been sent.
LEMMA RetransmitData ==
  ASSUME IInv, IInv', SynInv, DataInv, NEW e \in Ends, NEW p, Retransmit(e, p)
  PROVE  DataInv'
<1>1. p \in sock[e].send_buf /\ Transmit(link, e, <<p>>)
      /\ UNCHANGED <<sock, hashed, app, connected, acceptVars, ipVars>>
  BY DEF Retransmit, connVars
<1>2. link \in Links /\ sock[e] \in Socket /\ p \in Packets
  BY <1>1 DEF IInv, Types, Socket
<1>3. /\ \A w \in Wires \ {In(e), Out(e)} : link'[w] = link[w]
      /\ link'[In(e)] = link[In(e)]
      /\ link'[Out(e)] = link[Out(e)] \/ link'[Out(e)] = link[Out(e)] \o <<p>>
  <2> DEFINE out == <<p>>
  <2>1. Transmit(link, e, out) /\ \A w \in Wires \ {In(e)} : link[w] = link[w]
    BY <1>1
  <2> HIDE DEF out
  <2>2. /\ \A w \in Wires \ {In(e), Out(e)} : link'[w] = link[w]
        /\ link'[In(e)] = link[In(e)]
        /\ link'[Out(e)] = link[Out(e)] \/ link'[Out(e)] = link[Out(e)] \o out
    BY <1>2, <2>1, EndReach
  <2> QED
    BY <2>2 DEF out
<1>4. Elsewhere(e)
  BY <1>1, <1>3 DEF Elsewhere, Unseen, acceptVars, ipVars
<1>5. PICK c \in Clients, i \in 0..MaxChild : e = <<c, i>>
  BY DEF Ends
<1>6. Sending(c) /\ Receiving(c) /\ Acking(c) /\ Learning(c)
  BY DEF DataInv, DataOk
<1>7. Up(c) \in Seq(Packets) /\ Down(c) \in Seq(Packets)
  BY ItemsTyped DEF IInv
<1>8. CASE i = 0
  <2>1. /\ Down(c)' = Down(c) /\ (Up(c)' = Up(c) \/ Up(c)' = Up(c) \o <<p>>)
    <3>1. In(e) = <<c, "toClient">> /\ Out(e) = <<c, "toServer">>
      BY <1>5, <1>8, EndsOf
    <3> QED
      BY <1>3, <3>1 DEF Up, Down
  <2>2. /\ Items(Down(c)') \subseteq Items(Down(c)) /\ app'[c] = app[c] /\ sock'[e] = sock[e]
        /\ sock[e].snd_nxt >= sock[e].snd_nxt /\ FromClient(p) /\ SeqEnd(p) = sock[e].snd_nxt
    BY <1>1, <1>2, <1>5, <1>6, <1>8, <2>1 DEF Sending, Socket
  <2>3. ClientSteps(c, p)
    BY <1>4, <1>5, <1>6, <1>8, <2>1, <2>2 DEF ClientSteps, Sending, Learning
  <2> QED
    BY <1>2, <2>3, ClientData DEF IInv
<1>9. CASE i # 0
  <2>1. i \in 1..MaxChild
    BY <1>9
  <2>2. /\ Up(c)' = Up(c) /\ (Down(c)' = Down(c) \/ Down(c)' = Down(c) \o <<p>>)
    <3>1. In(e) = <<c, "toServer">> /\ Out(e) = <<c, "toClient">>
      BY <1>5, <2>1, EndsOf
    <3> QED
      BY <1>3, <3>1 DEF Up, Down
  <2>3. Started(e)
    BY <1>1, <1>5, <1>6, <2>1 DEF Receiving
  <2>4. FromChild(c, p)'
    BY <1>1, <1>5, <1>6, <2>1 DEF Acking, FromChild, Reached
  <2>5. \A x \in Items(Down(c)') : x \in Items(Down(c)) \/ x = p
    BY <1>2, <1>7, <2>2, ItemsAppend
  <2>6. InOrder(Up(c)')
    BY <1>6, <2>2 DEF Sending
  <2>7. sock'[e] = sock[e] /\ sock[e].rcv_nxt \in Nat
    BY <1>1, <1>2 DEF Socket
  <2>8. ChildSteps(c, i)
    BY <1>1, <1>4, <1>5, <1>6, <2>1, <2>2, <2>3, <2>4, <2>5, <2>6, <2>7
       DEF ChildSteps, Receiving, Started
  <2> QED
    BY <2>1, <2>8, ChildData DEF IInv
<1> QED
  BY <1>8, <1>9

\* The accept loop, the end of the handshake and the timers set no end to TIME_WAIT.
LEMMA HostData ==
  ASSUME IInv, DataInv,
         Accept \/ AckWake \/ AckEstablish \/ (\E e \in Ends : TimewaitOver(e)) \/ UNCHANGED vars
  PROVE  DataInv'
<1>1. UNCHANGED <<link, app>>
  BY DEF Accept, AcceptTest, AcceptSleep, AcceptWoken, AcceptPop, AcceptSet, AcceptHash,
         acceptFrame, AckWake, AckEstablish, TimewaitOver, vars, ipFrame, netVars
<1>2. \A d \in Clients : Moved(d)
  BY <1>1, StillMoved
<1>3. ASSUME UNCHANGED sock PROVE DataInv'
  <2>1. \A e \in Ends : UNCHANGED Data(e)
    BY <1>3 DEF Data
  <2> QED
    BY <1>1, <1>2, <1>3, <2>1, StillData
<1>4. CASE UNCHANGED sock
  BY <1>3, <1>4
<1>5. CASE AcceptSet
  <2>1. popped \in Ends
    BY <1>5 DEF AcceptSet, IInv, AcceptInv
  <2>2. sock' = [sock EXCEPT ![popped].state = "ESTABLISHED"]
    BY <1>5 DEF AcceptSet
  <2> DEFINE x == popped
  <2>3. x \in Ends /\ sock' = [sock EXCEPT ![x].state = "ESTABLISHED"]
    BY <2>1, <2>2
  <2> HIDE DEF x
  <2> QED
    BY <1>1, <1>2, <2>3, StateData
<1>6. CASE AckEstablish
  <2>1. child \in Ends
    BY <1>6 DEF AckEstablish, IInv, AcceptInv
  <2>2. sock' = [sock EXCEPT ![child].state = "ESTABLISHED"]
    BY <1>6 DEF AckEstablish
  <2> DEFINE x == child
  <2>3. x \in Ends /\ sock' = [sock EXCEPT ![x].state = "ESTABLISHED"]
    BY <2>1, <2>2
  <2> HIDE DEF x
  <2> QED
    BY <1>1, <1>2, <2>3, StateData
<1>7. ASSUME NEW e \in Ends, TimewaitOver(e) PROVE DataInv'
  <2>1. sock' = [sock EXCEPT ![e].state = "CLOSED"]
    BY <1>7 DEF TimewaitOver
  <2> QED
    BY <1>1, <1>2, <2>1, StateData
<1>8. CASE AcceptTest \/ AcceptSleep \/ AcceptWoken \/ AcceptPop \/ AcceptHash \/ AckWake \/ UNCHANGED vars
  <2>1. UNCHANGED sock
    BY <1>8 DEF AcceptTest, AcceptSleep, AcceptWoken, AcceptPop, AcceptHash, AckWake, vars, connVars
  <2> QED
    BY <1>4, <2>1
<1> QED
  BY <1>5, <1>6, <1>7, <1>8 DEF Accept

LEMMA InitData == Init => DataInv
<1> SUFFICES ASSUME Init, NEW c \in Clients PROVE DataOk(c)
  BY DEF DataInv
<1>1. Up(c) = <<>> /\ Down(c) = <<>>
  BY DEF Init, Up, Down
<1>2. \A i \in 0..MaxChild : /\ sock[<<c, i>>].send_buf = {} /\ sock[<<c, i>>].state = "CLOSED"
                             /\ sock[<<c, i>>].snd_nxt = (IF i = 0 THEN 1 ELSE 0)
                             /\ sock[<<c, i>>].rcv_nxt = 0 /\ sock[<<c, i>>].received = 0
  BY EndsOf DEF Init, Iss
<1>3. 0 \in 0..MaxChild /\ \A i \in 1..MaxChild : i \in 0..MaxChild /\ i # 0
  BY ConnConstants DEF ConnConstants
<1>4. app[c] = "connect" /\ Number("connect") = 1
  BY DEF Init, Number
<1>5. Items(<<>>) = {} /\ InOrder(<<>>)
  BY DEF Items, InOrder
<1>6. Sending(c)
  BY <1>1, <1>2, <1>3, <1>4, <1>5 DEF Sending
<1>7. Receiving(c) /\ Acking(c) /\ Learning(c)
  BY <1>1, <1>2, <1>3, <1>4, <1>5 DEF Receiving, Started, Acking, Learning
<1> QED
  BY <1>6, <1>7 DEF DataOk

LEMMA StepData ==
  IInv /\ IInv' /\ SynInv /\ TurnInv /\ DataInv /\ [Next]_vars => DataInv'
<1> SUFFICES ASSUME IInv, IInv', SynInv, TurnInv, DataInv, [Next]_vars PROVE DataInv'
  OBVIOUS
<1>1. ASSUME NEW c \in Clients, ClientIp(c) PROVE DataInv'
  BY <1>1, ClientHandlesData DEF ClientIp
<1>2. CASE ServerIp
  BY <1>2, SynListenData, ChildHandlesData, HostData DEF ServerIp
<1>3. CASE Finished
  BY <1>3, HostData DEF Finished
<1>4. CASE UNCHANGED vars
  BY <1>4, HostData
<1>5. CASE Accept
  BY <1>5, HostData
<1>6. ASSUME NEW e \in Ends, TimewaitOver(e) PROVE DataInv'
  BY <1>6, HostData
<1> QED
  BY <1>1, <1>2, <1>3, <1>4, <1>5, <1>6, AppData, RetransmitData DEF Next

LEMMA TypesOk == IInv /\ HostTypes /\ TurnInv /\ DataInv => TypeOK
<1> SUFFICES ASSUME IInv, HostTypes, TurnInv, DataInv PROVE TypeOK
  OBVIOUS
<1> DEFINE Narrow == [state : States, snd_nxt : 0..4, rcv_nxt : 0..4,
                      send_buf : SUBSET Packets, received : 0..1]
<1>1. ASSUME NEW c \in Clients PROVE sock[<<c, 0>>] \in Narrow
  <2>1. sock[<<c, 0>>] \in Socket /\ app[c] \in Places
    BY EndsOf, ConnConstants DEF ConnConstants, IInv, Types
  <2>2. Sending(c)
    BY DEF DataInv, DataOk
  <2> QED
    BY <2>1, <2>2, Numbers DEF Sending, Socket
<1>2. ASSUME NEW c \in Clients, NEW i \in 1..MaxChild PROVE sock[<<c, i>>] \in Narrow
  <2>1. /\ <<c, i>> \in Ends /\ ~IsClient(<<c, i>>) /\ sock[<<c, i>>] \in Socket
    BY EndsOf DEF IInv, Types, IsClient
  <2>2. sock[<<c, i>>].snd_nxt <= 3
    BY <2>1 DEF TurnInv, TurnOk, Socket
  <2>3. sock[<<c, i>>].rcv_nxt \in 0..4 /\ sock[<<c, i>>].received \in 0..1
    <3>1. Receiving(c)
      BY DEF DataInv, DataOk
    <3>2. CASE Started(<<c, i>>)
      BY <3>1, <3>2 DEF Receiving
    <3>3. CASE ~Started(<<c, i>>)
      BY <3>1, <3>3 DEF Receiving
    <3> QED
      BY <3>2, <3>3
  <2> QED
    BY <2>1, <2>2, <2>3 DEF Socket
<1>3. \A e \in Ends : sock[e] \in Narrow
  <2> SUFFICES ASSUME NEW c \in Clients, NEW i \in 0..MaxChild PROVE sock[<<c, i>>] \in Narrow
    BY DEF Ends
  <2>1. i = 0 \/ i \in 1..MaxChild
    OBVIOUS
  <2> HIDE DEF Narrow
  <2> QED
    BY <1>1, <1>2, <2>1
<1>4. sock \in [Ends -> Narrow]
  <2>1. sock \in [Ends -> Socket]
    BY DEF IInv, Types
  <2> HIDE DEF Narrow
  <2> QED
    BY <1>3, <2>1
<1>5. accept_queue \in Seq(Ends)
  BY DEF IInv, AcceptInv
<1>6. \A l \in DOMAIN link : link[l] \in Seq(Packets) /\ Len(link[l]) <= QueueLen
  BY DEF IInv, Types, Links, HostTypes, Bounded
<1> QED
  BY <1>4, <1>5, <1>6 DEF HostTypes, TypeOK

\* Whatever is lost and sent again, the data is delivered at most once, and a client comes
\* to TIME_WAIT only when its peer has received the data, once, and then its FIN, the last
\* number the client uses (tcp_in.c:202-277).
THEOREM TimeWaitIsAgreed == Spec => []TimeWaitAgreed
<1>1. IInv /\ HostTypes /\ TurnInv /\ DataInv => TimeWaitAgreed
  <2> SUFFICES ASSUME IInv, HostTypes, TurnInv, DataInv PROVE TimeWaitAgreed
    OBVIOUS
  <2>1. ASSUME NEW c \in Clients, sock[<<c, 0>>].state = "TIME_WAIT"
        PROVE  \E i \in 1..MaxChild : /\ sock[<<c, i>>].received = 1
                                      /\ sock[<<c, i>>].rcv_nxt = sock[<<c, 0>>].snd_nxt
    <3>1. Reached(c, 4) /\ Receiving(c)
      BY <2>1 DEF DataInv, DataOk, Learning
    <3>2. PICK i \in 1..MaxChild : sock[<<c, i>>].rcv_nxt >= 4
      BY <3>1 DEF Reached
    <3>3. ~Started(<<c, i>>) => sock[<<c, i>>].rcv_nxt = 0
      BY <3>1 DEF Receiving
    <3>4. /\ sock[<<c, i>>].rcv_nxt \in 2..4
          /\ sock[<<c, i>>].received = IF sock[<<c, i>>].rcv_nxt >= 3 THEN 1 ELSE 0
      BY <3>1, <3>2, <3>3 DEF Receiving
    <3>5. sock[<<c, 0>>].snd_nxt = 4
      BY <3>1, AllReached
    <3> QED
      BY <3>2, <3>4, <3>5
  <2> QED
    BY <2>1, TypesOk DEF TimeWaitAgreed
<1>2. IInv /\ HostTypes /\ [Next]_vars => HostTypes'
  BY StepTypes
<1>3. IInv /\ SynInv /\ TurnInv /\ [Next]_vars => TurnInv'
  BY StepTurn
<1>4. IInv /\ IInv' /\ SynInv /\ TurnInv /\ DataInv /\ [Next]_vars => DataInv'
  BY StepData
<1>5. Init => HostTypes /\ TurnInv /\ DataInv
  BY InitTurn, InitData
<1>6. Init => SynInv
  BY InitSyn
<1>7. IInv /\ SynInv /\ [Next]_vars => SynInv'
  BY StepSyn
<1>8. Spec => []IInv
  BY Invariance
<1> QED
  BY <1>1, <1>2, <1>3, <1>4, <1>5, <1>6, <1>7, <1>8, PTL DEF Spec
=============================================================================
