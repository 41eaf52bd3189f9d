------------------------------ MODULE TcpConn ------------------------------
(***************************************************************************)
(* The life of TCP connections in the 16-tcp_stack of Lab14: tcp_client     *)
(* connects, writes and closes, tcp_server accepts and reads and never      *)
(* closes.  Each host has an IP thread in tcp_process and a timer thread.   *)
(*                                                                          *)
(* An end <<c, 0>> is the socket of client c; <<c, i>> with i > 0 is the    *)
(* i-th child the listener made for it.  A client writes one segment, so no *)
(* hole can form; holes, windows and fast retransmission belong to          *)
(* TcpTransfer.                                                             *)
(***************************************************************************)
EXTENDS Integers, Sequences, FiniteSets

CONSTANTS
  Clients,       \* hosts running tcp_client
  Serves,        \* connections the server accepts: 1 in tcp_server
  MaxChild,      \* bound: children the listener makes per client
  QueueLen,      \* bound: packets a link holds
  MaxLoss        \* bound: packets the links lose

ASSUME ConnConstants ==
  /\ Serves \in Nat \ {0} /\ MaxChild \in Nat \ {0}
  /\ QueueLen \in Nat \ {0} /\ MaxLoss \in Nat

Ends == Clients \X (0..MaxChild)
IsClient(e) == e[2] = 0

VARIABLES
  sock,          \* struct tcp_sock of every end
  hashed,        \* ends in an established_table
  timewait,      \* ends whose time-wait timer is in timer_list
  app,           \* place of every client in tcp_client
  connected,     \* clients whose wait_connect is notified
  accept_queue,
  accepted,      \* children the server application has got, in order
  apc, popped,   \* the accept loop: place, child at hand
  wait_accept,   \* struct synch_wait
  ipc, child,    \* the server's IP thread, inside the handling of an ACK
  link,          \* packets under way, per client and direction
  losses, crashed

connVars   == <<sock, hashed, timewait>>
acceptVars == <<accept_queue, accepted, apc, popped, wait_accept>>
ipVars     == <<ipc, child>>
netVars    == <<link, losses>>
vars == <<connVars, app, connected, acceptVars, ipVars, netVars, crashed>>

\* rand() for a client; a child starts at its listener's iss, which is 0.
Iss(e) == IF IsClient(e) THEN 1 ELSE 0
NoEnd  == <<>>

Init ==
  /\ sock = [e \in Ends |-> [state |-> "CLOSED", snd_nxt |-> Iss(e), rcv_nxt |-> 0,
                             send_buf |-> {}, received |-> 0]]
  /\ hashed = {} /\ timewait = {}
  /\ app = [c \in Clients |-> "connect"]
  /\ connected = {}
  /\ accept_queue = <<>> /\ accepted = <<>>
  /\ apc = "test" /\ popped = NoEnd
  /\ wait_accept = [notified |-> FALSE, sleep |-> FALSE]
  /\ ipc = "idle" /\ child = NoEnd
  /\ link = [l \in Clients \X {"toServer", "toClient"} |-> <<>>]
  /\ losses = 0 /\ crashed = FALSE
-----------------------------------------------------------------------------
(* Packets: tcp_out.c.                                                      *)

\* A packet of socket s with the next sequence number.
Packet(s, flags) == [flags |-> flags, seq |-> s.snd_nxt, ack |-> s.rcv_nxt]

\* SYN, FIN and the data segment take a number each.
SeqEnd(p) == p.seq + (IF p.flags = "ACK" THEN 0 ELSE 1)

\* Slip: an ACK|FIN is not kept.
SentLosesFin(s, flags) ==
  IF flags \in {"ACK", "ACKFIN"} THEN [s EXCEPT !.snd_nxt = @ + (IF flags = "ACK" THEN 0 ELSE 1)]
  ELSE [s EXCEPT !.snd_nxt = @ + 1, !.send_buf = @ \union {Packet(s, flags)}]

\* tcp_send_control_packet and tcp_send_packet: what takes a number is kept in
\* send_buf until it is acknowledged.  The order of its entries is that of their numbers.
Sent(s, flags) ==
  IF flags = "ACK" THEN s
  ELSE [s EXCEPT !.snd_nxt = @ + 1, !.send_buf = @ \union {Packet(s, flags)}]

In(e)  == <<e[1], IF IsClient(e) THEN "toClient" ELSE "toServer">>
Out(e) == <<e[1], IF IsClient(e) THEN "toServer" ELSE "toClient">>

\* The links once end e has sent the packets of out, at most one: a packet is
\* queued, lost, or dropped by a full queue.
Transmit(before, e, out) ==
  \/ /\ link' = [before EXCEPT ![Out(e)] = IF Len(@) < QueueLen THEN @ \o out ELSE @]
     /\ UNCHANGED losses
  \/ /\ out # <<>> /\ losses < MaxLoss
     /\ losses' = losses + 1 /\ link' = before
-----------------------------------------------------------------------------
(* The client's application thread: tcp_client.                             *)

At(c, from, to) == app[c] = from /\ app' = [app EXCEPT ![c] = to]

\* The client's socket takes a state and sends a packet.
Send(c, state, flags) ==
  LET e == <<c, 0>>
      s == [sock[e] EXCEPT !.state = state]
  IN sock' = [sock EXCEPT ![e] = Sent(s, flags)] /\ Transmit(link, e, <<Packet(s, flags)>>)

\* tcp_sock_connect up to its sleep_on.
Connect(c) ==
  /\ At(c, "connect", "wait") /\ Send(c, "SYN_SENT", "SYN")
  /\ hashed' = hashed \union {<<c, 0>>}
  /\ UNCHANGED <<timewait, connected, acceptVars, ipVars, crashed>>

\* The SYN|ACK has woken it: set the state, ...
Connected(c) ==
  /\ At(c, "wait", "confirm") /\ c \in connected /\ connected' = connected \ {c}
  /\ sock' = [sock EXCEPT ![<<c, 0>>].state = "ESTABLISHED"]
  /\ UNCHANGED <<hashed, timewait, acceptVars, ipVars, netVars, crashed>>

\* ... and send the last packet of the handshake, which is not kept.
Confirm(c) ==
  /\ At(c, "confirm", "write") /\ Send(c, sock[<<c, 0>>].state, "ACK")
  /\ UNCHANGED <<hashed, timewait, connected, acceptVars, ipVars, crashed>>

\* tcp_sock_write sends the segment ...
Write(c) ==
  /\ At(c, "write", "written") /\ Send(c, sock[<<c, 0>>].state, "PSHACK")
  /\ UNCHANGED <<hashed, timewait, connected, acceptVars, ipVars, crashed>>

\* Slip: it does not wait.
WriteReturnsAtOnce(c) ==
  /\ At(c, "written", "close")
  /\ UNCHANGED <<connVars, connected, acceptVars, ipVars, netVars, crashed>>

\* ... and sleeps until it is acknowledged: a full window is one segment, less
\* what has just been sent.
WriteReturns(c) ==
  /\ At(c, "written", "close") /\ sock[<<c, 0>>].send_buf = {}
  /\ UNCHANGED <<connVars, connected, acceptVars, ipVars, netVars, crashed>>

\* tcp_sock_close: look at the state and set it, ...
CloseSet(c) ==
  /\ At(c, "close", "fin") /\ sock[<<c, 0>>].state = "ESTABLISHED"
  /\ sock' = [sock EXCEPT ![<<c, 0>>].state = "FIN_WAIT_1"]
  /\ UNCHANGED <<hashed, timewait, connected, acceptVars, ipVars, netVars, crashed>>

\* ... and send the FIN.
CloseSend(c) ==
  /\ At(c, "fin", "done") /\ Send(c, sock[<<c, 0>>].state, "FIN")
  /\ UNCHANGED <<hashed, timewait, connected, acceptVars, ipVars, crashed>>

App(c) ==
  \/ Connect(c) \/ Connected(c) \/ Confirm(c) \/ Write(c) \/ WriteReturns(c)
  \/ CloseSet(c) \/ CloseSend(c)
-----------------------------------------------------------------------------
(* The server's application thread: tcp_sock_accept.                        *)

acceptFrame == <<app, timewait, connected, ipVars, netVars, crashed>>

\* while (list_empty(&tsk->accept_queue)) sleep_on(tsk->wait_accept);
AcceptTest ==
  /\ apc = "test" /\ Len(accepted) < Serves
  /\ apc' = (IF accept_queue = <<>> THEN "sleep" ELSE "pop")
  /\ UNCHANGED <<acceptFrame, sock, hashed, accept_queue, accepted, popped, wait_accept>>

AcceptSleep ==
  /\ apc = "sleep" /\ ~wait_accept.notified
  /\ apc' = "wait" /\ wait_accept' = [wait_accept EXCEPT !.sleep = TRUE]
  /\ UNCHANGED <<acceptFrame, sock, hashed, accept_queue, accepted, popped>>

AcceptWoken ==
  /\ apc \in {"sleep", "wait"} /\ wait_accept.notified
  /\ apc' = "test" /\ wait_accept' = [notified |-> FALSE, sleep |-> FALSE]
  /\ UNCHANGED <<acceptFrame, sock, hashed, accept_queue, accepted, popped>>

AcceptPop ==
  /\ apc = "pop" /\ apc' = "set"
  /\ popped' = Head(accept_queue) /\ accept_queue' = Tail(accept_queue)
  /\ UNCHANGED <<acceptFrame, sock, hashed, accepted, wait_accept>>

\* tcp_set_state(pop, TCP_ESTABLISHED), whatever the IP thread made of it ...
AcceptSet ==
  /\ apc = "set" /\ apc' = "hash"
  /\ sock' = [sock EXCEPT ![popped].state = "ESTABLISHED"]
  /\ UNCHANGED <<acceptFrame, hashed, accept_queue, accepted, popped, wait_accept>>

\* ... and tcp_hash, which refuses a closed socket and one whose four numbers
\* are in the table.
AcceptHash ==
  /\ apc = "hash" /\ apc' = "test" /\ popped' = NoEnd
  /\ hashed' = (IF sock[popped].state = "CLOSED" \/ \E e \in hashed : ~IsClient(e) /\ e[1] = popped[1]
                THEN hashed ELSE hashed \union {popped})
  /\ accepted' = Append(accepted, popped)
  /\ UNCHANGED <<acceptFrame, sock, accept_queue, wait_accept>>

Accept == AcceptTest \/ AcceptSleep \/ AcceptWoken \/ AcceptPop \/ AcceptSet \/ AcceptHash
-----------------------------------------------------------------------------
(* The IP threads: tcp_process.                                             *)

\* Before the switch: rcv_nxt, and the acknowledged entries.  Lab14 takes every
\* packet for an ACK, its test being `flags | TCP_ACK'.
Received(s, p) ==
  [s EXCEPT !.rcv_nxt  = IF p.flags = "PSHACK" THEN @ ELSE SeqEnd(p),
            !.send_buf = {q \in @ : SeqEnd(q) > p.ack}]

\* The packet p is the next one end e handles, and s is its socket then.
Arrives(e, flags, p) ==
  /\ IsClient(e) \/ ipc = "idle"
  /\ e \in hashed /\ link[In(e)] # <<>> /\ p = Head(link[In(e)]) /\ p.flags = flags

\* End e is s once it has handled its packet, and answers with out.
Becomes(e, s, out) ==
  sock' = [sock EXCEPT ![e] = s] /\ Transmit([link EXCEPT ![In(e)] = Tail(@)], e, out)

ipFrame == <<app, acceptVars>>

NoChild(c) == \A e \in hashed : IsClient(e) \/ e[1] # c

\* Slip: the child is not hashed before the handshake is over.
SynListenUnhashed(c) ==
  /\ ipc = "idle" /\ NoChild(c)
  /\ LET in == link[<<c, "toServer">>]
     IN /\ in # <<>> /\ Head(in).flags = "SYN"
        /\ \E i \in 1..MaxChild :
             LET e == <<c, i>>
                 s == [sock[e] EXCEPT !.state = "SYN_RECV", !.rcv_nxt = SeqEnd(Head(in))]
             IN /\ \A j \in 1..MaxChild : sock[<<c, j>>].snd_nxt = 0 <=> j >= i
                /\ Becomes(e, Sent(s, "SYNACK"), <<Packet(s, "SYNACK")>>)
  /\ UNCHANGED <<ipFrame, hashed, timewait, connected, ipVars, crashed>>

\* A SYN for the listener, which makes a child.
SynListen(c) ==
  /\ ipc = "idle" /\ NoChild(c)
  /\ LET in == link[<<c, "toServer">>]
     IN /\ in # <<>> /\ Head(in).flags = "SYN"
        /\ \E i \in 1..MaxChild :
             LET e == <<c, i>>
                 s == [sock[e] EXCEPT !.state = "SYN_RECV", !.rcv_nxt = SeqEnd(Head(in))]
             IN /\ \A j \in 1..MaxChild : sock[<<c, j>>].snd_nxt = 0 <=> j >= i
                /\ Becomes(e, Sent(s, "SYNACK"), <<Packet(s, "SYNACK")>>)
                /\ hashed' = hashed \union {e}
  /\ UNCHANGED <<ipFrame, timewait, connected, ipVars, crashed>>

\* Slip: a SYN that comes again completes the handshake.
SynAgainEstablishes(e, p) ==
  /\ Arrives(e, "SYN", p)
  /\ Becomes(e, [Received(sock[e], p) EXCEPT !.state = IF @ = "SYN_RECV" THEN "ESTABLISHED" ELSE @], <<>>)
  /\ UNCHANGED <<ipFrame, hashed, timewait, connected, ipVars, crashed>>

\* A SYN for the child.
SynAgain(e, p) ==
  /\ Arrives(e, "SYN", p) /\ Becomes(e, Received(sock[e], p), <<>>)
  /\ UNCHANGED <<ipFrame, hashed, timewait, connected, ipVars, crashed>>

SynAck(e, p) ==
  /\ Arrives(e, "SYNACK", p) /\ Becomes(e, Received(sock[e], p), <<>>)
  /\ connected' = (IF sock[e].state = "SYN_SENT" THEN connected \union {e[1]} ELSE connected)
  /\ UNCHANGED <<ipFrame, hashed, timewait, ipVars, crashed>>

\* The last packet of the handshake: the child is queued, ...
AckEnqueue(e, p) ==
  /\ Arrives(e, "ACK", p) /\ sock[e].state = "SYN_RECV"
  /\ Becomes(e, Received(sock[e], p), <<>>)
  /\ accept_queue' = Append(accept_queue, e)
  /\ ipc' = "wake" /\ child' = e
  /\ UNCHANGED <<app, hashed, timewait, connected, accepted, apc, popped, wait_accept, crashed>>

\* Slip: only a sleeper is notified, as after a data segment (tcp_in.c:247).
AckWakeSleeper ==
  /\ ipc = "wake" /\ ipc' = "establish"
  /\ wait_accept' = [wait_accept EXCEPT !.notified = wait_accept.sleep]
  /\ UNCHANGED <<connVars, app, connected, accept_queue, accepted, apc, popped, child, netVars, crashed>>

\* ... the accept loop woken, ...
AckWake ==
  /\ ipc = "wake" /\ ipc' = "establish"
  /\ wait_accept' = [wait_accept EXCEPT !.notified = TRUE]
  /\ UNCHANGED <<connVars, app, connected, accept_queue, accepted, apc, popped, child, netVars, crashed>>

\* ... and the state set.
AckEstablish ==
  /\ ipc = "establish" /\ ipc' = "idle" /\ child' = NoEnd
  /\ sock' = [sock EXCEPT ![child].state = "ESTABLISHED"]
  /\ UNCHANGED <<ipFrame, hashed, timewait, connected, netVars, crashed>>

\* Any other ACK.
Ack(e, p) ==
  /\ Arrives(e, "ACK", p) /\ sock[e].state # "SYN_RECV"
  /\ LET s    == Received(sock[e], p)
         next == [FIN_WAIT_1 |-> "FIN_WAIT_2", LAST_ACK |-> "CLOSED"]
     IN Becomes(e, IF s.state \in DOMAIN next THEN [s EXCEPT !.state = next[@]] ELSE s, <<>>)
  /\ hashed' = (IF sock[e].state = "LAST_ACK" THEN hashed \ {e} ELSE hashed)
  /\ UNCHANGED <<ipFrame, timewait, connected, ipVars, crashed>>

\* Data: delivered once, acknowledged always.
PshAck(e, p) ==
  /\ Arrives(e, "PSHACK", p)
  /\ LET s   == Received(sock[e], p)
         est == [s EXCEPT !.state = IF @ = "SYN_RECV" THEN "ESTABLISHED" ELSE @]
         r   == IF p.seq = s.rcv_nxt
                THEN [est EXCEPT !.received = @ + 1, !.rcv_nxt = SeqEnd(p)] ELSE est
     IN Becomes(e, r, <<Packet(r, "ACK")>>)
  /\ UNCHANGED <<ipFrame, hashed, timewait, connected, ipVars, crashed>>

\* tcp_set_timewait_timer.  Linking a timer that is in timer_list already cuts
\* off the timers behind it, or keeps it there after it expires, to be released
\* again by every scan.
SetTimewait(e) ==
  /\ timewait' = timewait \union {e}
  /\ crashed' = (crashed \/ e \in timewait)

AckFin(e, p) ==
  /\ Arrives(e, "ACKFIN", p)
  /\ LET s == Received(sock[e], p)
     IN IF s.state = "FIN_WAIT_1"
        THEN Becomes(e, [s EXCEPT !.state = "TIME_WAIT"], <<Packet(s, "ACK")>>) /\ SetTimewait(e)
        ELSE Becomes(e, s, <<>>) /\ UNCHANGED <<timewait, crashed>>
  /\ UNCHANGED <<ipFrame, hashed, connected, ipVars>>

Fin(e, p) ==
  /\ Arrives(e, "FIN", p)
  /\ LET s     == Received(sock[e], p)
         reply == [ESTABLISHED |-> "ACKFIN",   FIN_WAIT_2 |-> "ACK"]
         next  == [ESTABLISHED |-> "LAST_ACK", FIN_WAIT_2 |-> "TIME_WAIT"]
     IN IF s.state \in DOMAIN next
        THEN /\ Becomes(e, Sent([s EXCEPT !.state = next[@]], reply[s.state]), <<Packet(s, reply[s.state])>>)
             /\ SetTimewait(e)
        ELSE Becomes(e, s, <<>>) /\ UNCHANGED <<timewait, crashed>>
  /\ UNCHANGED <<ipFrame, hashed, connected, ipVars>>

Handle(e) ==
  \E p \in {Head(link[In(e)])} :
     \/ SynAgain(e, p) \/ SynAck(e, p) \/ AckEnqueue(e, p) \/ Ack(e, p)
     \/ PshAck(e, p) \/ AckFin(e, p) \/ Fin(e, p)

ClientIp(c) == link[<<c, "toClient">>] # <<>> /\ Handle(<<c, 0>>)

ServerIp ==
  \/ \E c \in Clients : /\ link[<<c, "toServer">>] # <<>>
                        /\ SynListen(c) \/ \E i \in 1..MaxChild : Handle(<<c, i>>)
  \/ AckWake \/ AckEstablish
-----------------------------------------------------------------------------
(* The timer threads: tcp_scan_timer_list.                                  *)

\* Slip: the SYN|ACK of a child is not sent again.
RetransmitNoSynAck(e, p) ==
  /\ p \in sock[e].send_buf /\ Len(link[Out(e)]) < QueueLen
  /\ sock[e].state # "SYN_RECV"
  /\ Transmit(link, e, <<p>>)
  /\ UNCHANGED <<connVars, app, connected, acceptVars, ipVars, crashed>>

\* An entry of send_buf is sent again, however often it was before.
Retransmit(e, p) ==
  /\ p \in sock[e].send_buf /\ Len(link[Out(e)]) < QueueLen
  /\ Transmit(link, e, <<p>>)
  /\ UNCHANGED <<connVars, app, connected, acceptVars, ipVars, crashed>>

\* Two MSL are over: the socket is closed, and stays in its table.
TimewaitOver(e) ==
  /\ e \in timewait /\ timewait' = timewait \ {e}
  /\ sock' = [sock EXCEPT ![e].state = "CLOSED"]
  /\ UNCHANGED <<hashed, app, connected, acceptVars, ipVars, netVars, crashed>>
-----------------------------------------------------------------------------
Running == ~crashed

\* Nothing is left to do, or the server's timer list is broken.
Finished ==
  /\ \/ ~Running
     \/ \A e \in Ends : sock[e].send_buf = {} /\ link[Out(e)] = <<>> /\ e \notin timewait
  /\ \A c \in Clients : Running => app[c] = "done"
  /\ UNCHANGED vars

Next ==
  \/ Running /\ (\E c \in Clients : App(c) \/ ClientIp(c))
  \/ Running /\ (Accept \/ ServerIp)
  \/ Running /\ (\E e \in Ends : TimewaitOver(e) \/ \E p \in sock[e].send_buf : Retransmit(e, p))
  \/ Finished

Spec == Init /\ [][Next]_vars

\* Threads are scheduled, and the timer thread scans for ever.
FairSpec ==
  /\ Spec
  /\ \A c \in Clients : WF_vars(Running /\ App(c)) /\ WF_vars(Running /\ ClientIp(c))
  /\ WF_vars(Running /\ Accept) /\ WF_vars(Running /\ ServerIp)
  /\ \A e \in Ends : /\ WF_vars(Running /\ TimewaitOver(e))
                     /\ \A seq \in 0..3 : WF_vars(Running /\ \E p \in sock[e].send_buf :
                                                      p.seq = seq /\ Retransmit(e, p))
-----------------------------------------------------------------------------
(* Properties.                                                              *)

States == {"CLOSED", "SYN_SENT", "SYN_RECV", "ESTABLISHED", "FIN_WAIT_1",
           "FIN_WAIT_2", "TIME_WAIT", "LAST_ACK"}
Packets == [flags : {"SYN", "SYNACK", "ACK", "PSHACK", "FIN", "ACKFIN"}, seq : Nat, ack : Nat]

\* Every variable keeps its type.  A client uses three numbers, a child at most
\* three, and the data is delivered once.
TypeOK ==
  /\ sock \in [Ends -> [state : States, snd_nxt : 0..4, rcv_nxt : 0..4,
                        send_buf : SUBSET Packets, received : 0..1]]
  /\ hashed \subseteq Ends /\ timewait \subseteq Ends /\ connected \subseteq Clients
  /\ accept_queue \in Seq(Ends) /\ accepted \in Seq(Ends) /\ popped \in Ends \union {NoEnd}
  /\ \A l \in DOMAIN link : link[l] \in Seq(Packets) /\ Len(link[l]) <= QueueLen

\* The server takes a connection for established only if its client does too:
\* whatever is retransmitted, only the client's own ACK or data ends SYN_RECV.
HandshakeAgreed ==
  \A e \in Ends : ~IsClient(e) /\ sock[e].snd_nxt > 0 /\ sock[e].state # "SYN_RECV"
                 => app[e[1]] \notin {"connect", "wait"}

\* A SYN that is sent again makes no second child: the first one is hashed, so
\* the lookup finds it before the listener.
OneChild == \A c \in Clients : \A i, j \in 1..MaxChild :
  sock[<<c, i>>].snd_nxt > 0 /\ sock[<<c, j>>].snd_nxt > 0 => i = j

\* tcp_sock_accept tests the queue and sleeps without a common lock; still, when
\* it sleeps with no notification, nothing is queued, or the IP thread is about
\* to wake it.
AcceptWakes ==
  apc \in {"sleep", "wait"} /\ ~wait_accept.notified => accept_queue = <<>> \/ ipc = "wake"

\* Data is delivered at most once (TypeOK), and a client in TIME_WAIT has had all its
\* data received, and the last thing its peer received is its FIN: no late segment can
\* change the child afterwards.
TimeWaitAgreed ==
  /\ TypeOK
  /\ \A c \in Clients : sock[<<c, 0>>].state = "TIME_WAIT" =>
       \E i \in 1..MaxChild : LET peer == sock[<<c, i>>]
                              IN peer.received = 1 /\ peer.rcv_nxt = sock[<<c, 0>>].snd_nxt

\* Whatever is lost, tcp_sock_connect returns, the segment is acknowledged, and
\* the client comes to its close: the SYN, the SYN|ACK and the data are sent
\* again until they are acknowledged.
ClientCloses == \A c \in Clients : <>(crashed \/ app[c] = "done")

\* A FIN is answered: the client leaves FIN_WAIT_1.
FinAnswered ==
  \A c \in Clients : sock[<<c, 0>>].state = "FIN_WAIT_1" ~> crashed \/ sock[<<c, 0>>].state # "FIN_WAIT_1"

\* A child that is queued is accepted, as long as the application accepts.
QueuedIsAccepted ==
  \A e \in Ends : (\E k \in 1..Len(accept_queue) : accept_queue[k] = e)
                 ~> crashed \/ Len(accepted) = Serves \/ (\E k \in 1..Len(accepted) : accepted[k] = e)
-----------------------------------------------------------------------------
(* What comments and reports say and the code does not keep.                *)

\* tcp_sock.h:68-70: a connection whose handshake is over is in accept_queue, or
\* on its way to the application.  But when the ACK is lost, the data that follows
\* makes the child ESTABLISHED without queueing it (tcp_in.c:203).
EstablishedIsQueued ==
  \A e \in Ends : ~IsClient(e) /\ sock[e].state = "ESTABLISHED" /\ ipc = "idle"
                 => e = popped \/ \E k \in 1..Len(accept_queue \o accepted) : (accept_queue \o accepted)[k] = e

\* tcp_timer.c:11: after 2 MSL the socket is released.  But it stays in the
\* established table, where the lookup still finds it.
TimewaitReleases ==
  \A c \in Clients : sock[<<c, 0>>].state = "CLOSED" => <<c, 0>> \notin hashed
=============================================================================
