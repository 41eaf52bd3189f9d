---------------------------- MODULE TcpTransfer ----------------------------
(***************************************************************************)
(* One direction of an established TCP connection of the 16-tcp_stack labs: *)
(* the client's application thread in tcp_sock_write, the IP threads of     *)
(* both hosts in tcp_process, and the client's retransmission timer, over   *)
(* two FIFO links that lose packets.                                        *)
(*                                                                          *)
(* Sequence numbers and windows are counted in segments: the SYN has        *)
(* sequence number 0, the k-th segment handed to tcp_send_packet has number *)
(* k, the FIN N + 1.  A segment is identified by its number: one thread     *)
(* stamps them, and a retransmission sends the stored copy.                 *)
(***************************************************************************)
EXTENDS Integers, Sequences

CONSTANTS
  N,             \* segments the application writes
  InitCwnd,      \* cwnd when the model starts (2 after a Lab14 handshake)
  InitSsthresh,  \* ssthresh when the model starts
  AdvWnds,       \* the windows the receiver may advertise
  WndMod,        \* 2^32 / MSS: snd_wnd is an unsigned 32 bit integer
  SynPending,    \* the SYN is still in send_buf (Lab15; popped in Lab14)
  AnyFlagAcks,   \* every packet is handled as an ACK (Lab14 tcp_in.c:54)
  WithClose,     \* the application closes the socket after its last write
  BurstTimers,   \* unacknowledged segments expire in the same scan
  QuietTimers,   \* a scan finds a segment expired only when nothing moves
  QueueLen,      \* bound: packets a link holds
  MaxLoss        \* bound: packets the links lose

ASSUME ConstantsOK ==
  /\ N \in Nat \ {0} /\ InitCwnd \in Nat \ {0} /\ InitSsthresh \in Nat
  /\ AdvWnds \in SUBSET Nat /\ AdvWnds # {}
  /\ WndMod \in Nat \ {0} /\ \A w \in AdvWnds : w < WndMod
  /\ QueueLen \in Nat \ {0} /\ MaxLoss \in Nat
  /\ {SynPending, AnyFlagAcks, WithClose, BurstTimers, QuietTimers} \subseteq BOOLEAN

VARIABLES
  wpc, wtmp,                      \* application thread: place, snd_wnd it read
  snd_nxt, snd_una, snd_wnd, adv_wnd, inflight, send_buf,
  cwnd, cnt, ssthresh, ack_time, nrstate, recovery_point,
  wait_send,                      \* struct synch_wait, one sleeper
  cpc, cb,                        \* client's IP thread: place, packet at hand
  scan,                           \* timer thread: entry scanned, 0 = no scan
  rpc, seq_end,                   \* server's IP thread
  rcv_nxt, ofo, ofo_front, rcvd, peer_state,
  toServer, toClient, losses, crashed

writerVars  == <<wpc, wtmp>>
sendVars    == <<snd_nxt, send_buf, inflight>>
windowVars  == <<snd_wnd, adv_wnd>>
renoVars    == <<cwnd, cnt, ssthresh, ack_time, nrstate, recovery_point>>
ackVars     == <<cpc, cb>>
serverVars  == <<rpc, seq_end, rcv_nxt, ofo, ofo_front, rcvd, peer_state>>
netVars     == <<toServer, toClient, losses>>
vars == <<writerVars, sendVars, snd_una, windowVars, renoVars, wait_send,
          ackVars, scan, serverVars, netVars, crashed>>

Smaller(a, b) == IF a < b THEN a ELSE b

\* What a dead list node yields; the packet at hand of an idle IP thread.
Garbage == 0
NoCb    == [type |-> "ACK", ack |-> 0, rwnd |-> 0]

\* The packet stored in the send_buf entry that ends at e.
Packet(e) == [type |-> IF e = 1 THEN "SYN" ELSE IF e = N + 2 THEN "FIN" ELSE "DATA",
              seq  |-> e - 1]

Init ==
  /\ wpc = "stamp" /\ wtmp = 0
  /\ snd_nxt = 1
  /\ snd_una = (IF SynPending THEN 0 ELSE 1)
  /\ send_buf = (IF SynPending THEN <<[end |-> 1, times |-> 1]>> ELSE <<>>)
  /\ inflight = (IF SynPending THEN 1 ELSE 0)
  /\ cwnd = InitCwnd /\ cnt = 0 /\ ssthresh = InitSsthresh
  /\ ack_time = 0 /\ nrstate = "OPEN" /\ recovery_point = 0
  /\ IF SynPending
     THEN adv_wnd = 0 /\ snd_wnd = 0
     ELSE adv_wnd \in AdvWnds /\ snd_wnd = Smaller(adv_wnd, InitCwnd)
  /\ wait_send = [notified |-> ~SynPending, sleep |-> FALSE]
  /\ cpc = "idle" /\ cb = NoCb /\ scan = 0
  /\ rpc = "idle" /\ seq_end = 0 /\ rcv_nxt = 1
  /\ ofo = {} /\ ofo_front = "ok" /\ rcvd = <<>> /\ peer_state = "ESTABLISHED"
  /\ toServer = <<>> /\ toClient = <<>> /\ losses = 0 /\ crashed = "none"
-----------------------------------------------------------------------------
(* The links: a packet is queued, lost, or dropped by a full queue.         *)

Transmit(link, linkNext, m) ==
  \/ Len(link) < QueueLen /\ linkNext = Append(link, m) /\ UNCHANGED losses
  \/ losses < MaxLoss /\ losses' = losses + 1 /\ linkNext = link
  \/ Len(link) >= QueueLen /\ linkNext = link /\ UNCHANGED losses

ToServer(m) == Transmit(toServer, toServer', m)
ToClient(m) == Transmit(toClient, toClient', m)
-----------------------------------------------------------------------------
(* The application thread: tcp_sock_write, tcp_send_packet, tcp_sock_close. *)

\* What no step of the application thread writes.
writerFrame == <<snd_una, adv_wnd, renoVars, ackVars, scan, toClient, serverVars, crashed>>

\* tcp_send_packet: number the segment, and read snd_wnd for the `-='.
Stamp ==
  /\ wpc = "stamp" /\ wpc' = "store"
  /\ snd_nxt' = snd_nxt + 1 /\ wtmp' = snd_wnd
  /\ UNCHANGED <<writerFrame, send_buf, inflight, snd_wnd, wait_send, toServer, losses>>

\* Slip: the difference kept in a signed integer.
StoreWndSigned ==
  /\ wpc = "store" /\ wpc' = "push"
  /\ snd_wnd' = wtmp - 1 /\ wtmp' = 0
  /\ UNCHANGED <<writerFrame, sendVars, wait_send, toServer, losses>>

\* ... and write it back, over whatever the other threads stored meanwhile.
StoreWnd ==
  /\ wpc = "store" /\ wpc' = "push"
  /\ snd_wnd' = (IF wtmp = 0 THEN WndMod - 1 ELSE wtmp - 1)
  /\ wtmp' = 0
  /\ UNCHANGED <<writerFrame, sendVars, wait_send, toServer, losses>>

\* tcp_sndbuf_push, under send_lock ...
Push ==
  /\ wpc = "push" /\ wpc' = "count" /\ scan = 0
  /\ send_buf' = Append(send_buf, [end |-> snd_nxt, times |-> 1])
  /\ UNCHANGED <<writerFrame, wtmp, snd_nxt, inflight, snd_wnd, wait_send, toServer, losses>>

\* ... and then under count_lock.
Count ==
  /\ wpc = "count" /\ wpc' = "emit"
  /\ inflight' = inflight + 1
  /\ UNCHANGED <<writerFrame, wtmp, snd_nxt, send_buf, snd_wnd, wait_send, toServer, losses>>

Emit ==
  /\ wpc = "emit" /\ wpc' = (IF snd_nxt = N + 2 THEN "closed" ELSE "check")
  /\ ToServer(Packet(snd_nxt))
  /\ UNCHANGED <<writerFrame, wtmp, sendVars, snd_wnd, wait_send>>

\* The loop at the end of tcp_sock_write: sleep on a full window, or write on.
Check ==
  /\ wpc = "check"
  /\ wpc' = (IF snd_wnd < inflight THEN "sleep"
             ELSE IF snd_nxt <= N THEN "stamp" ELSE "done")
  /\ UNCHANGED <<writerFrame, wtmp, sendVars, snd_wnd, wait_send, toServer, losses>>

\* sleep_on(wait_send): a pending notification is consumed at once.
SleepOn ==
  /\ wpc = "sleep"
  /\ IF wait_send.notified
     THEN wpc' = "check" /\ wait_send' = [notified |-> FALSE, sleep |-> FALSE]
     ELSE wpc' = "wait" /\ wait_send' = [wait_send EXCEPT !.sleep = TRUE]
  /\ UNCHANGED <<writerFrame, wtmp, sendVars, snd_wnd, toServer, losses>>

\* pthread_cond_wait returns: the signal was sent.
Woken ==
  /\ wpc = "wait" /\ wpc' = "check" /\ wait_send.notified
  /\ wait_send' = [notified |-> FALSE, sleep |-> FALSE]
  /\ UNCHANGED <<writerFrame, wtmp, sendVars, snd_wnd, toServer, losses>>

\* tcp_sock_close: the FIN takes a number and goes through Push to Emit.
Close ==
  /\ WithClose
  /\ wpc = "done" /\ wpc' = "push"
  /\ snd_nxt' = snd_nxt + 1
  /\ UNCHANGED <<writerFrame, wtmp, send_buf, inflight, snd_wnd, wait_send, toServer, losses>>

Writer == crashed = "none" /\ (Stamp \/ StoreWnd \/ Push \/ Count \/ Emit \/ Check \/ SleepOn \/ Woken \/ Close)
-----------------------------------------------------------------------------
(* The client's IP thread: the ACK part of tcp_process.                     *)

ackFrame == <<writerVars, snd_nxt, scan, serverVars>>

\* TCP_ESTABLISHED, which tcp_sock_close leaves when it numbers the FIN.
Established == snd_nxt < N + 2

\* Slip: wake the writer only when the window was closed.
UpdateWindowWakesOnce(m, cw, nr) ==
  IF snd_una <= m.ack /\ m.ack <= snd_nxt
  THEN /\ adv_wnd' = m.rwnd /\ snd_wnd' = Smaller(m.rwnd, cw)
       /\ wait_send' = [wait_send EXCEPT !.notified = @ \/ snd_wnd = 0]
  ELSE UNCHANGED <<windowVars, wait_send>>

\* tcp_update_window_safe and the wake-ups of wait_send for the packet m, once
\* cwnd is cw and nrstate is nr.
UpdateWindow(m, cw, nr) ==
  LET inWindow == snd_una <= m.ack /\ m.ack <= snd_nxt
      wakes    == \/ inWindow /\ snd_wnd = 0
                  \/ m.type = "ACK" /\ Established /\ nr = "OPEN"
  IN /\ IF inWindow
        THEN adv_wnd' = m.rwnd /\ snd_wnd' = Smaller(m.rwnd, cw)
        ELSE UNCHANGED windowVars
     /\ wait_send' = (IF wakes THEN [wait_send EXCEPT !.notified = TRUE] ELSE wait_send)

\* The packet at the head of the link is handled as an ACK.
AckArrives ==
  /\ cpc = "idle" /\ toClient # <<>> /\ toClient' = Tail(toClient)
  /\ Head(toClient).type = "ACK" \/ AnyFlagAcks

\* cb->ack == snd_una, by nrstate: a duplicate that is only counted; ...
CountDup ==
  /\ nrstate = "OPEN" /\ ack_time < 2 /\ ack_time' = ack_time + 1
  /\ UNCHANGED <<cwnd, ssthresh, nrstate, recovery_point, toServer, losses>>

\* ... the third, which retransmits the first unacknowledged segment; ...
FastRetransmit ==
  /\ nrstate = "OPEN" /\ ack_time >= 2 /\ ack_time' = ack_time + 1
  /\ nrstate' = "RECOVER" /\ recovery_point' = snd_nxt
  /\ ssthresh' = (cwnd + 1) \div 2
  /\ IF send_buf # <<>> THEN ToServer(Packet(send_buf[1].end)) ELSE UNCHANGED <<toServer, losses>>
  /\ UNCHANGED cwnd

\* ... one during fast recovery, every second of which shrinks cwnd; ...
Deflate ==
  /\ nrstate = "RECOVER"
  /\ IF ack_time >= 1
     THEN ack_time' = ack_time - 1 /\ cwnd' = (IF cwnd = 1 THEN 1 ELSE cwnd - 1)
     ELSE ack_time' = ack_time + 1 /\ UNCHANGED cwnd
  /\ UNCHANGED <<ssthresh, nrstate, recovery_point, toServer, losses>>

\* ... and one after a timeout.  (ack_time is counted there too, but it is
\* reset before anything reads it again.)
IgnoreDup ==
  /\ nrstate = "LOSS"
  /\ UNCHANGED <<ack_time, cwnd, ssthresh, nrstate, recovery_point, toServer, losses>>

DupAck ==
  /\ AckArrives /\ Head(toClient).ack = snd_una
  /\ CountDup \/ FastRetransmit \/ Deflate \/ IgnoreDup
  /\ UpdateWindow(Head(toClient), cwnd', nrstate')
  /\ UNCHANGED <<ackFrame, send_buf, inflight, snd_una, cnt, ackVars, crashed>>

\* Where list_for_each_entry_safe stands once n entries are left: it has read
\* the next pointer already, so it never sees an entry pushed after the last.
LoopAt(n) == IF n = 0 THEN "end" ELSE IF n = 1 THEN "poplast" ELSE "pop"

\* cb->ack != snd_una: the acknowledged entries are popped one by one.
NewAck ==
  /\ AckArrives /\ Head(toClient).ack # snd_una
  /\ cb' = Head(toClient) /\ cpc' = LoopAt(Len(send_buf)) /\ ack_time' = 0
  /\ UNCHANGED <<ackFrame, send_buf, inflight, snd_una, windowVars, wait_send, toServer, losses, crashed>>
  /\ UNCHANGED <<cwnd, cnt, ssthresh, nrstate, recovery_point>>

\* Slow start below ssthresh, congestion avoidance above, nothing in recovery.
Grow ==
  IF nrstate # "OPEN" THEN UNCHANGED <<cwnd, cnt>>
  ELSE IF cwnd < ssthresh THEN cwnd' = cwnd + 1 /\ UNCHANGED cnt
  ELSE IF cnt + 1 >= cwnd THEN cwnd' = cwnd + 1 /\ cnt' = 0
  ELSE cnt' = cnt + 1 /\ UNCHANGED cwnd

\* Slip: pop without counting down.
SndbufPopUncounted == scan = 0 /\ send_buf' = Tail(send_buf) /\ UNCHANGED inflight

\* tcp_sndbuf_pop takes send_lock, so it waits for a scan to end.
SndbufPop == scan = 0 /\ send_buf' = Tail(send_buf) /\ inflight' = inflight - 1

\* Slip: pop an entry the ACK stops short of.
PopEarly ==
  /\ cpc \in {"pop", "poplast"} /\ send_buf[1].end <= cb.ack + 1
  /\ snd_una' = send_buf[1].end /\ SndbufPop
  /\ cpc' = (IF cpc = "poplast" THEN "end" ELSE LoopAt(Len(send_buf) - 1))
  /\ Grow
  /\ UNCHANGED <<ackFrame, cb, windowVars, wait_send, netVars, crashed>>
  /\ UNCHANGED <<ssthresh, ack_time, nrstate, recovery_point>>

\* The first entry is acknowledged.
Pop ==
  /\ cpc \in {"pop", "poplast"} /\ send_buf[1].end <= cb.ack
  /\ snd_una' = send_buf[1].end /\ SndbufPop
  /\ cpc' = (IF cpc = "poplast" THEN "end" ELSE LoopAt(Len(send_buf) - 1))
  /\ Grow
  /\ UNCHANGED <<ackFrame, cb, windowVars, wait_send, netVars, crashed>>
  /\ UNCHANGED <<ssthresh, ack_time, nrstate, recovery_point>>

\* The loop stands on the first unacknowledged entry, or on the list head.
AtEntry == cpc \in {"pop", "poplast"} /\ send_buf[1].end > cb.ack
Partial == nrstate = "RECOVER" /\ recovery_point > cb.ack

\* Slip: recovery ends only beyond the recovery point.
AckDoneLate ==
  /\ AtEntry \/ (cpc = "end" /\ ~Partial)
  /\ nrstate' = (IF recovery_point < cb.ack THEN "OPEN" ELSE nrstate)
  /\ IF Partial THEN ToServer(Packet(send_buf[1].end)) ELSE UNCHANGED <<toServer, losses>>
  /\ UpdateWindow(cb, cwnd, nrstate')
  /\ cpc' = "idle" /\ cb' = NoCb
  /\ UNCHANGED <<ackFrame, send_buf, inflight, snd_una, toClient, crashed>>
  /\ UNCHANGED <<cwnd, cnt, ssthresh, ack_time, recovery_point>>

\* The end of recovery, or the retransmission a partial ACK asks for.
AckDone ==
  /\ AtEntry \/ (cpc = "end" /\ ~Partial)
  /\ nrstate' = (IF recovery_point <= cb.ack THEN "OPEN" ELSE nrstate)
  /\ IF Partial THEN ToServer(Packet(send_buf[1].end)) ELSE UNCHANGED <<toServer, losses>>
  /\ UpdateWindow(cb, cwnd, nrstate')
  /\ cpc' = "idle" /\ cb' = NoCb
  /\ UNCHANGED <<ackFrame, send_buf, inflight, snd_una, toClient, crashed>>
  /\ UNCHANGED <<cwnd, cnt, ssthresh, ack_time, recovery_point>>

\* A partial ACK when the loop ran off the list: entry->packet and entry->len
\* are read out of the tcp_sock that contains the list head.
AckWild ==
  /\ cpc = "end" /\ Partial
  /\ crashed' = "client"
  /\ UNCHANGED <<ackFrame, sendVars, snd_una, windowVars, renoVars, wait_send, ackVars, netVars>>

\* ACK|FIN of the peer, which only Lab14 handles as an ACK.
SkipAckFin ==
  /\ cpc = "idle" /\ toClient # <<>> /\ Head(toClient).type = "ACKFIN" /\ ~AnyFlagAcks
  /\ toClient' = Tail(toClient)
  /\ UNCHANGED <<ackFrame, send_buf, inflight, snd_una, windowVars, renoVars, wait_send, ackVars>>
  /\ UNCHANGED <<toServer, losses, crashed>>

ClientIp == crashed = "none" /\ (DupAck \/ NewAck \/ Pop \/ AckDone \/ AckWild \/ SkipAckFin)
-----------------------------------------------------------------------------
(* The timer thread: tcp_scan_timer_list walks send_buf under send_lock.    *)
(* Times are not modelled: any entry may have expired, subject to the two   *)
(* assumptions on timing a run may make.                                    *)

scanFrame == <<writerVars, snd_nxt, inflight, snd_una, adv_wnd, cnt, ack_time,
               wait_send, ackVars, serverVars, toClient, crashed>>

NothingMoves ==
  /\ toServer = <<>> /\ toClient = <<>> /\ cpc = "idle" /\ rpc = "idle"
  /\ wpc \in {"wait", "done", "closed"}

ScanStart ==
  /\ scan = 0 /\ send_buf # <<>> /\ (QuietTimers => NothingMoves)
  /\ scan' = 1
  /\ UNCHANGED <<writerVars, sendVars, snd_una, windowVars, renoVars, wait_send, ackVars>>
  /\ UNCHANGED <<serverVars, netVars, crashed>>

ScanNext == scan' = (IF scan = Len(send_buf) THEN 0 ELSE scan + 1)

\* Slip: no recovery point for a loss.
ExpireNoPoint ==
  /\ scan # 0 /\ ScanNext
  /\ nrstate' = "LOSS"
  /\ ssthresh' = (cwnd + 1) \div 2 /\ cwnd' = 1 /\ snd_wnd' = 1
  /\ send_buf' = [send_buf EXCEPT ![scan].times = IF @ = 3 THEN 1 ELSE @ + 1]
  /\ IF send_buf[scan].times = 3 THEN UNCHANGED <<toServer, losses>>
                                 ELSE ToServer(Packet(send_buf[scan].end))
  /\ UNCHANGED <<scanFrame, recovery_point>>

\* Slip: give the segment up at its third expiry.
ExpireGivesUp ==
  /\ scan # 0
  /\ recovery_point' = (IF nrstate = "LOSS" THEN recovery_point ELSE snd_nxt)
  /\ nrstate' = "LOSS"
  /\ ssthresh' = (cwnd + 1) \div 2 /\ cwnd' = 1 /\ snd_wnd' = 1
  /\ IF send_buf[scan].times = 3
     THEN /\ send_buf' = SubSeq(send_buf, 1, scan - 1) \o SubSeq(send_buf, scan + 1, Len(send_buf))
          /\ scan' = (IF scan = Len(send_buf) THEN 0 ELSE scan)
          /\ UNCHANGED <<toServer, losses>>
     ELSE /\ ScanNext
          /\ send_buf' = [send_buf EXCEPT ![scan].times = @ + 1]
          /\ ToServer(Packet(send_buf[scan].end))
  /\ UNCHANGED scanFrame

\* An expired entry is sent again, except that its third expiry only restarts
\* the count.
Expire ==
  /\ scan # 0 /\ ScanNext
  /\ recovery_point' = (IF nrstate = "LOSS" THEN recovery_point ELSE snd_nxt)
  /\ nrstate' = "LOSS"
  /\ ssthresh' = (cwnd + 1) \div 2 /\ cwnd' = 1 /\ snd_wnd' = 1
  /\ IF send_buf[scan].times = 3
     THEN /\ send_buf' = [send_buf EXCEPT ![scan].times = 1]
          /\ UNCHANGED <<toServer, losses>>
     ELSE /\ send_buf' = [send_buf EXCEPT ![scan].times = @ + 1]
          /\ ToServer(Packet(send_buf[scan].end))
  /\ UNCHANGED scanFrame

\* An entry whose timeout has not run out.
PassOver ==
  /\ ~BurstTimers
  /\ scan # 0 /\ ScanNext
  /\ UNCHANGED <<scanFrame, send_buf, snd_wnd, cwnd, ssthresh, nrstate, recovery_point, toServer, losses>>

Timer == crashed = "none" /\ (ScanStart \/ Expire \/ PassOver)
-----------------------------------------------------------------------------
(* The server's IP thread: the receiving part of tcp_process.  The room in  *)
(* the ring buffer and the value of rcv_wnd belong to module TcpReceive.    *)

rcvFrame == <<writerVars, sendVars, snd_una, windowVars, renoVars, wait_send, ackVars, scan>>

SendAck(type, ack) == \E w \in AdvWnds : ToClient([type |-> type, ack |-> ack, rwnd |-> w])

Arrives(type) ==
  /\ rpc = "idle" /\ toServer # <<>> /\ toServer' = Tail(toServer)
  /\ Head(toServer).type = type

\* Slip: a segment received before is written again.
RcvInOrderAgain ==
  /\ Arrives("DATA") /\ Head(toServer).seq <= rcv_nxt /\ ofo_front # "stale"
  /\ rcvd' = Append(rcvd, Head(toServer).seq) /\ seq_end' = rcv_nxt + 1 /\ rpc' = "ofo"
  /\ UNCHANGED <<rcvFrame, rcv_nxt, ofo, ofo_front, peer_state, toClient, losses, crashed>>

\* The expected segment goes to the ring buffer; then rcv_ofo_buf is walked.
RcvInOrder ==
  /\ Arrives("DATA") /\ Head(toServer).seq = rcv_nxt /\ ofo_front # "stale"
  /\ rcvd' = Append(rcvd, rcv_nxt) /\ seq_end' = rcv_nxt + 1 /\ rpc' = "ofo"
  /\ UNCHANGED <<rcvFrame, rcv_nxt, ofo, ofo_front, peer_state, toClient, losses, crashed>>

\* Slip: rcv_ofo_buf is flushed across a hole.
RcvFlushHole ==
  /\ rpc = "ofo"
  /\ \E e \in ofo :
       /\ \A f \in ofo : e <= f
       /\ rcvd' = Append(rcvd, e) /\ seq_end' = e + 1 /\ ofo' = ofo \ {e}
  /\ ofo_front' = (IF ofo_front = "dangling" THEN "stale" ELSE ofo_front)
  /\ UNCHANGED <<rcvFrame, rpc, rcv_nxt, peer_state, netVars, crashed>>

\* The first entry of rcv_ofo_buf is delivered and deleted.  Deleting through
\* a prev pointer that is not the list head leaves the head on freed memory.
RcvFlush ==
  /\ rpc = "ofo"
  /\ \E e \in ofo :
       /\ \A f \in ofo : e <= f
       /\ e <= seq_end
       /\ rcvd' = Append(rcvd, e) /\ seq_end' = e + 1 /\ ofo' = ofo \ {e}
  /\ ofo_front' = (IF ofo_front = "dangling" THEN "stale" ELSE ofo_front)
  /\ UNCHANGED <<rcvFrame, rpc, rcv_nxt, peer_state, netVars, crashed>>

RcvDone ==
  /\ rpc = "ofo" /\ \A e \in ofo : seq_end < e
  /\ rcv_nxt' = seq_end /\ rpc' = "idle" /\ seq_end' = 0
  /\ SendAck("ACK", rcv_nxt')
  /\ UNCHANGED <<rcvFrame, ofo, ofo_front, rcvd, peer_state, toServer, crashed>>

\* A later segment is kept, in order.  write_ofo_buffer inserts before the
\* first entry through a copy of the list head, so the new entry is linked
\* from the old first entry only and no walk from the head finds it.
RcvOfo ==
  /\ Arrives("DATA") /\ Head(toServer).seq > rcv_nxt /\ ofo_front # "stale"
  /\ LET s == Head(toServer).seq
         inFront == ofo # {} /\ \A e \in ofo : s < e
     IN IF inFront THEN ofo_front' = "dangling" /\ UNCHANGED ofo
                   ELSE ofo' = ofo \union {s} /\ UNCHANGED ofo_front
  /\ SendAck("ACK", rcv_nxt)
  /\ UNCHANGED <<rcvFrame, rpc, seq_end, rcv_nxt, rcvd, peer_state, crashed>>

\* Either walk starts on the freed entry: the in-order one may still write a
\* stale payload before the process dies.
RcvStale ==
  /\ Arrives("DATA") /\ Head(toServer).seq >= rcv_nxt /\ ofo_front = "stale"
  /\ IF Head(toServer).seq = rcv_nxt
     THEN rcvd' \in {Append(rcvd, rcv_nxt), Append(Append(rcvd, rcv_nxt), Garbage)}
     ELSE UNCHANGED rcvd
  /\ crashed' = "server"
  /\ UNCHANGED <<rcvFrame, rpc, seq_end, rcv_nxt, ofo, ofo_front, peer_state, toClient, losses>>

\* Slip: a segment received before is dropped silently.
RcvOldSilent ==
  /\ Arrives("DATA") /\ Head(toServer).seq < rcv_nxt
  /\ UNCHANGED <<rcvFrame, serverVars, toClient, losses, crashed>>

\* A segment received before is acknowledged again.
RcvOld ==
  /\ Arrives("DATA") /\ Head(toServer).seq < rcv_nxt
  /\ SendAck("ACK", rcv_nxt)
  /\ UNCHANGED <<rcvFrame, serverVars, crashed>>

\* A SYN sent again: the first lines of tcp_process set rcv_nxt for every
\* packet without PSH, and nothing else happens to an existing child.
RcvSyn ==
  /\ Arrives("SYN")
  /\ rcv_nxt' = Head(toServer).seq + 1
  /\ UNCHANGED <<rcvFrame, rpc, seq_end, ofo, ofo_front, rcvd, peer_state, toClient, losses, crashed>>

\* A FIN moves rcv_nxt too, whatever is still missing.
RcvFin ==
  /\ Arrives("FIN")
  /\ rcv_nxt' = Head(toServer).seq + 1
  /\ peer_state' = "LAST_ACK"
  /\ IF peer_state = "ESTABLISHED" THEN SendAck("ACKFIN", rcv_nxt') ELSE UNCHANGED <<toClient, losses>>
  /\ UNCHANGED <<rcvFrame, rpc, seq_end, ofo, ofo_front, rcvd, crashed>>

ServerIp ==
  crashed = "none" /\ (RcvInOrder \/ RcvFlush \/ RcvDone \/ RcvOfo \/ RcvStale \/ RcvOld \/ RcvSyn \/ RcvFin)
-----------------------------------------------------------------------------
\* The system stops when a process died or everything was acknowledged.
Finished ==
  /\ \/ crashed # "none"
     \/ NothingMoves /\ wpc # "wait" /\ send_buf = <<>>
  /\ UNCHANGED vars

Next == Writer \/ ClientIp \/ Timer \/ ServerIp \/ Finished

Spec == Init /\ [][Next]_vars

\* Every thread is scheduled; the links lose at most MaxLoss packets.
Fairness == WF_vars(Writer) /\ WF_vars(ClientIp) /\ WF_vars(Timer) /\ WF_vars(ServerIp)

FairSpec == Spec /\ Fairness
-----------------------------------------------------------------------------
(* Properties.                                                              *)

\* How many segments are numbered but not yet in send_buf, or not counted.
Unpushed  == IF wpc \in {"store", "push"} THEN 1 ELSE 0
Uncounted == IF wpc = "count" THEN 1 ELSE 0

Entries  == [end : Nat, times : 1..3]
Segments == [type : {"SYN", "DATA", "FIN"}, seq : Nat]
Acks     == [type : {"ACK", "ACKFIN"}, ack : Nat, rwnd : Nat]

\* Every variable has its type.
SenderTypeOK ==
  /\ wpc \in {"stamp", "store", "push", "count", "emit", "check", "sleep", "wait", "done", "closed"}
  /\ wtmp \in Nat /\ snd_nxt \in Nat /\ snd_una \in Nat
  /\ snd_wnd \in Nat /\ adv_wnd \in Nat /\ inflight \in Int
  /\ send_buf \in Seq(Entries)
  /\ wait_send \in [notified : BOOLEAN, sleep : BOOLEAN]
  /\ scan \in 0..Len(send_buf)

RenoTypeOK ==
  /\ cwnd \in Nat \ {0} /\ cnt \in Nat /\ ssthresh \in Nat /\ ack_time \in Nat
  /\ nrstate \in {"OPEN", "RECOVER", "LOSS"} /\ recovery_point \in Nat
  /\ cpc \in {"idle", "pop", "poplast", "end"}
  /\ cb \in Acks

ServerTypeOK ==
  /\ rpc \in {"idle", "ofo"} /\ seq_end \in Nat /\ rcv_nxt \in Nat
  /\ ofo \in SUBSET Nat /\ ofo_front \in {"ok", "dangling", "stale"}
  /\ rcvd \in Seq(Nat) /\ peer_state \in {"ESTABLISHED", "LAST_ACK"}

NetTypeOK ==
  /\ toServer \in Seq(Segments)
  /\ toClient \in Seq(Acks)
  /\ losses \in Nat /\ crashed \in {"none", "client", "server"}

TypeOK == SenderTypeOK /\ RenoTypeOK /\ ServerTypeOK /\ NetTypeOK

\* What a live server's application can read is what was written, in order,
\* each segment once (the md5sum comparison of the lab reports).
InOrderDelivery ==
  crashed # "server" => \A i \in 1..Len(rcvd) : rcvd[i] = i

\* A data segment leaves the retransmission queue only after the receiver
\* wrote it to its ring buffer: nothing acknowledged can be lost.
AckedReceived == Smaller(snd_una, N + 1) <= Len(rcvd) + 1

\* Every number between snd_una and snd_nxt is in send_buf, in order, except
\* the one the application thread is about to push.
SendBufComplete ==
  /\ Len(send_buf) = snd_nxt - snd_una - Unpushed
  /\ \A i \in 1..Len(send_buf) : send_buf[i].end = snd_una + i

\* inflight, updated by two threads, counts the entries of send_buf.
InflightCounts == inflight = Len(send_buf) - Uncounted

\* A sender that left OPEN has a recovery point that acknowledging what it has
\* numbered reaches.
RecoveryReachable ==
  nrstate # "OPEN" /\ cpc = "idle" => snd_una <= recovery_point /\ recovery_point <= snd_nxt

\* A writer that sleeps unnotified still has something unacknowledged, whose
\* ACK can wake it: the notification is never lost between check and sleep.
SleeperHasWaker ==
  wpc \in {"sleep", "wait"} /\ ~wait_send.notified /\ cpc = "idle" => send_buf # <<>>

\* The transfer is a reliable stream.
Stream == INSTANCE ReliableStream WITH
  sent <- Smaller(snd_nxt, N + 1) - 1, delivered <- rcvd,
  acked <- Smaller(snd_una, N + 1) - 1, up <- crashed = "none"
ImplementsStream == Stream!Spec

\* With finitely many losses the write calls return and all data arrives,
\* unless a process dies on the way.
TransferCompletes ==
  <>(crashed # "none" \/ (wpc \in {"done", "closed"} /\ Len(rcvd) = N /\ send_buf = <<>>))
-----------------------------------------------------------------------------
(* What comments and reports say and the code does not keep.                *)

\* tcp_sock.h:126 says of snd_wnd: min(adv_wnd, cwnd).
WindowRespected == snd_wnd <= Smaller(adv_wnd, cwnd)

\* A partial ACK retransmits the segment it asks for (Lab14 report, line 85),
\* so the loop left an entry to send.
NoWildRetransmit == crashed # "client"

\* rcv_nxt is "the byte expected to receive next" (tcp_sock.h:120), up to the FIN.
ExpectsNext ==
  crashed # "server" /\ rpc = "idle" => Smaller(rcv_nxt, N + 1) = Len(rcvd) + 1

\* A segment beyond the expected one is written to the ofo queue (Lab13 report,
\* line 27).
BeyondIsQueued ==
  [][\A s \in 1..N : /\ toServer # <<>> /\ Head(toServer) = [type |-> "DATA", seq |-> s]
                     /\ s > rcv_nxt /\ toServer' = Tail(toServer) /\ crashed' = "none"
                     => s \in ofo']_vars
=============================================================================
