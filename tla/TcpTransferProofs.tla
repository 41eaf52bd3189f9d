------------------------- MODULE TcpTransferProofs -------------------------
(***************************************************************************)
(* Proofs about TcpTransfer for every number of segments, every window and  *)
(* every loss, for the connection of the file-transfer labs: the SYN has    *)
(* left send_buf and the socket is still open.                              *)
(***************************************************************************)
EXTENDS TcpTransfer, TLAPS

ASSUME FileTransfer == ~SynPending /\ ~WithClose

\* The sender's numbers and its queue.
SenderInv ==
  /\ SendBufComplete /\ InflightCounts
  /\ 1 <= snd_una /\ snd_una <= snd_nxt /\ snd_nxt <= N + 1
  /\ wpc # "closed"
  /\ wpc = "stamp" => snd_nxt <= N
  /\ wpc \in {"store", "push", "count", "emit"} => 2 <= snd_nxt
  /\ cpc \in {"pop", "poplast"} => send_buf # <<>>

\* What the links and the IP thread carry.
NetInv ==
  /\ \A i \in 1..Len(toServer) :
       toServer[i].type = "DATA" /\ 1 <= toServer[i].seq /\ toServer[i].seq < snd_nxt
  /\ \A i \in 1..Len(toClient) : toClient[i].type = "ACK" /\ toClient[i].ack <= rcv_nxt
  /\ cb.type = "ACK" /\ cb.ack <= rcv_nxt
  /\ snd_una <= rcv_nxt

\* The next number the server expects: seq_end inside the walk of rcv_ofo_buf.
Expected == IF rpc = "ofo" THEN seq_end ELSE rcv_nxt

ReceiverInv ==
  /\ rcv_nxt <= Expected /\ Expected <= snd_nxt /\ 1 <= rcv_nxt
  /\ \A e \in ofo : Expected <= e /\ e < snd_nxt /\ (rpc = "idle" => e # rcv_nxt)
  /\ crashed # "server" => /\ Len(rcvd) = Expected - 1
                           /\ \A i \in 1..Len(rcvd) : rcvd[i] = i
  /\ Expected <= Len(rcvd) + 1

\* Recovery ends: the recovery point is numbered, and either still ahead of
\* snd_una or covered by the ACK at hand.
RecoveryInv ==
  /\ nrstate # "OPEN" =>
       /\ recovery_point <= snd_nxt
       /\ snd_una <= recovery_point \/ (cpc # "idle" /\ snd_una <= cb.ack)

\* An unnotified sleeper without unacknowledged segments is about to be woken
\* by the ACK at hand.
WakeInv ==
  wpc \in {"sleep", "wait"} /\ ~wait_send.notified /\ send_buf = <<>>
    => cpc = "end" /\ snd_una <= cb.ack

IInv == TypeOK /\ SenderInv /\ NetInv /\ ReceiverInv /\ RecoveryInv /\ WakeInv
-----------------------------------------------------------------------------
(* The initial state.                                                       *)

\* The invariant holds when the transfer starts.
LEMMA InitIInv == Init => IInv
<1> SUFFICES ASSUME Init PROVE IInv
  OBVIOUS
<1> USE ConstantsOK, FileTransfer DEF Init, ConstantsOK, FileTransfer
<1>1. TypeOK
  <2>1. SenderTypeOK
    <3>1. adv_wnd \in Nat /\ snd_wnd \in Nat
      BY DEF Smaller
    <3>2. send_buf = <<>> /\ scan = 0 /\ Len(send_buf) = 0 /\ send_buf \in Seq(Entries)
      OBVIOUS
    <3>3. wait_send \in [notified : BOOLEAN, sleep : BOOLEAN]
      OBVIOUS
    <3>4. QED
      BY <3>1, <3>2, <3>3 DEF SenderTypeOK
  <2>2. RenoTypeOK
    BY DEF RenoTypeOK, NoCb, Acks
  <2>3. ServerTypeOK
    BY DEF ServerTypeOK
  <2>4. NetTypeOK
    BY DEF NetTypeOK
  <2>5. QED
    BY <2>1, <2>2, <2>3, <2>4 DEF TypeOK
<1>2. SenderInv
  BY DEF SenderInv, SendBufComplete, InflightCounts, Unpushed, Uncounted
<1>3. NetInv /\ ReceiverInv
  BY DEF NetInv, ReceiverInv, Expected, NoCb
<1>4. RecoveryInv /\ WakeInv
  BY DEF RecoveryInv, WakeInv
<1>5. QED
  BY <1>1, <1>2, <1>3, <1>4 DEF IInv
-----------------------------------------------------------------------------
(* Sequences and links.                                                     *)

\* Taking the first element off a sequence shifts the others.
LEMMA TailShifts ==
  ASSUME NEW S, NEW s \in Seq(S), s # <<>>
  PROVE  /\ Tail(s) \in Seq(S) /\ Len(s) \in Nat /\ Len(s) >= 1
         /\ Len(Tail(s)) = Len(s) - 1 /\ Head(s) = s[1] /\ s[1] \in S
         /\ \A i \in 1..Len(Tail(s)) : i + 1 \in 1..Len(s) /\ Tail(s)[i] = s[i + 1]
OBVIOUS

\* Appending adds one element and keeps the others.
LEMMA AppendKeeps ==
  ASSUME NEW S, NEW s \in Seq(S), NEW x \in S
  PROVE  /\ Append(s, x) \in Seq(S) /\ Len(s) \in Nat
         /\ Len(Append(s, x)) = Len(s) + 1 /\ Append(s, x)[Len(s) + 1] = x
         /\ \A i \in 1..Len(s) : Append(s, x)[i] = s[i]
OBVIOUS

\* What a step leaves in a link was there before, or is the packet it sends.
LEMMA TransmitAdds ==
  ASSUME NEW S, NEW link \in Seq(S), NEW next, NEW m \in S, losses \in Nat,
         Transmit(link, next, m)
  PROVE  /\ next \in Seq(S) /\ losses' \in Nat
         /\ \A i \in 1..Len(next) : next[i] = m \/ (i \in 1..Len(link) /\ next[i] = link[i])
<1>1. CASE next = Append(link, m) /\ UNCHANGED losses
  <2>1. ASSUME NEW i \in 1..Len(next)
        PROVE  next[i] = m \/ (i \in 1..Len(link) /\ next[i] = link[i])
    <3>1. i = Len(link) + 1 \/ i \in 1..Len(link)
      BY <1>1, AppendKeeps
    <3>2. QED
      BY <1>1, <3>1, AppendKeeps
  <2>2. QED
    BY <1>1, <2>1, AppendKeeps
<1>2. CASE next = link /\ (UNCHANGED losses \/ losses' = losses + 1)
  BY <1>2
<1>3. QED
  BY <1>1, <1>2 DEF Transmit

\* What TypeOK says of the single packets.
LEMMA LinkTypes ==
  ASSUME TypeOK
  PROVE  /\ toServer \in Seq(Segments) /\ toClient \in Seq(Acks)
         /\ \A i \in 1..Len(toServer) : toServer[i] \in Segments /\ toServer[i].seq \in Nat
         /\ \A i \in 1..Len(toClient) : toClient[i] \in Acks /\ toClient[i].ack \in Nat
<1>1. toServer \in Seq(Segments) /\ toClient \in Seq(Acks)
  BY DEF TypeOK, NetTypeOK
<1>2. \A i \in 1..Len(toServer) : toServer[i] \in Segments
  BY <1>1
<1>3. \A i \in 1..Len(toClient) : toClient[i] \in Acks
  BY <1>1
<1>4. QED
  BY <1>1, <1>2, <1>3 DEF Segments, Acks
-----------------------------------------------------------------------------
(* The application thread.                                                  *)

\* Numbering a segment keeps it: the number waits in Unpushed.
LEMMA StampStep == ASSUME IInv, Stamp PROVE IInv'
<1> USE ConstantsOK DEF IInv, Stamp, writerFrame, renoVars, ackVars, serverVars
<1>1. TypeOK'
  BY DEF TypeOK, SenderTypeOK, RenoTypeOK, ServerTypeOK, NetTypeOK
<1>2. SenderInv'
  <2>1. /\ snd_nxt \in Nat /\ snd_una \in Nat /\ Len(send_buf) \in Nat /\ N \in Nat
        /\ snd_nxt' = snd_nxt + 1 /\ snd_nxt <= N
    BY DEF TypeOK, SenderTypeOK, SenderInv, ConstantsOK
  <2>2. SendBufComplete'
    BY <2>1 DEF SenderInv, SendBufComplete, Unpushed
  <2>3. InflightCounts'
    BY DEF SenderInv, InflightCounts, Uncounted
  <2>4. QED
    BY <2>1, <2>2, <2>3 DEF SenderInv
<1>3. NetInv' /\ ReceiverInv'
  <2>1. snd_nxt \in Nat /\ snd_nxt' = snd_nxt + 1 /\ rcv_nxt \in Nat /\ seq_end \in Nat
    BY DEF TypeOK, SenderTypeOK, ServerTypeOK
  <2>2. \A i \in 1..Len(toServer) : toServer[i].seq \in Nat
    BY LinkTypes
  <2>3. \A e \in ofo : e \in Nat
    BY DEF TypeOK, ServerTypeOK
  <2>4. NetInv'
    BY <2>1, <2>2 DEF NetInv
  <2>5. ReceiverInv'
    BY <2>1, <2>3 DEF ReceiverInv, Expected
  <2>6. QED
    BY <2>4, <2>5
<1>4. RecoveryInv' /\ WakeInv'
  BY DEF TypeOK, SenderTypeOK, RenoTypeOK, RecoveryInv, WakeInv
<1>5. QED
  BY <1>1, <1>2, <1>3, <1>4

\* Writing snd_wnd back touches nothing the invariant relates.
LEMMA StoreWndStep == ASSUME IInv, StoreWnd PROVE IInv'
<1> USE ConstantsOK DEF IInv, StoreWnd, writerFrame, sendVars, renoVars, ackVars, serverVars
<1>1. TypeOK'
  BY DEF TypeOK, SenderTypeOK, RenoTypeOK, ServerTypeOK, NetTypeOK, ConstantsOK
<1>2. SenderInv'
  BY DEF TypeOK, SenderTypeOK, SenderInv, SendBufComplete, InflightCounts, Unpushed, Uncounted
<1>3. NetInv' /\ ReceiverInv'
  BY DEF NetInv, ReceiverInv, Expected
<1>4. RecoveryInv' /\ WakeInv'
  BY DEF RecoveryInv, WakeInv
<1>5. QED
  BY <1>1, <1>2, <1>3, <1>4

\* tcp_sndbuf_push appends the segment that was numbered last.
LEMMA PushStep == ASSUME IInv, Push PROVE IInv'
<1> USE ConstantsOK DEF IInv, Push, writerFrame, renoVars, ackVars, serverVars
<1> DEFINE entry == [end |-> snd_nxt, times |-> 1]
<1>1. /\ send_buf' \in Seq(Entries) /\ Len(send_buf') = Len(send_buf) + 1 /\ Len(send_buf) \in Nat
      /\ send_buf'[Len(send_buf) + 1] = entry
      /\ \A i \in 1..Len(send_buf) : send_buf'[i] = send_buf[i]
  <2>1. send_buf \in Seq(Entries) /\ entry \in Entries
    BY DEF TypeOK, SenderTypeOK, Entries
  <2>2. QED
    BY <2>1, AppendKeeps
<1>2. TypeOK'
  BY <1>1 DEF TypeOK, SenderTypeOK, RenoTypeOK, ServerTypeOK, NetTypeOK
<1>3. SenderInv'
  <2>1. Len(send_buf') = snd_nxt - snd_una
    BY <1>1 DEF TypeOK, SenderTypeOK, SenderInv, SendBufComplete, Unpushed
  <2>2. \A i \in 1..Len(send_buf') : send_buf'[i].end = snd_una + i
    <3>1. TAKE i \in 1..Len(send_buf')
    <3>2. CASE i = Len(send_buf) + 1
      BY <1>1, <2>1, <3>2 DEF TypeOK, SenderTypeOK
    <3>3. CASE i \in 1..Len(send_buf)
      BY <1>1, <3>3 DEF SenderInv, SendBufComplete
    <3>4. QED
      BY <1>1, <3>2, <3>3
  <2>3. QED
    BY <1>1, <2>1, <2>2 DEF TypeOK, SenderTypeOK, SenderInv, SendBufComplete, InflightCounts, Unpushed, Uncounted
<1>4. NetInv' /\ ReceiverInv'
  BY DEF NetInv, ReceiverInv, Expected
<1>5. RecoveryInv' /\ WakeInv'
  BY DEF RecoveryInv, WakeInv
<1>6. QED
  BY <1>2, <1>3, <1>4, <1>5

\* inflight catches up with the entry that was pushed.
LEMMA CountStep == ASSUME IInv, Count PROVE IInv'
<1> USE ConstantsOK DEF IInv, Count, writerFrame, renoVars, ackVars, serverVars
<1>1. TypeOK'
  BY DEF TypeOK, SenderTypeOK, RenoTypeOK, ServerTypeOK, NetTypeOK
<1>2. SenderInv'
  BY DEF TypeOK, SenderTypeOK, SenderInv, SendBufComplete, InflightCounts, Unpushed, Uncounted
<1>3. NetInv' /\ ReceiverInv'
  BY DEF NetInv, ReceiverInv, Expected
<1>4. RecoveryInv' /\ WakeInv'
  BY DEF RecoveryInv, WakeInv
<1>5. QED
  BY <1>1, <1>2, <1>3, <1>4

\* The segment sent first is one that was numbered.
LEMMA EmitStep == ASSUME IInv, Emit PROVE IInv'
<1> USE ConstantsOK, FileTransfer DEF IInv, Emit, writerFrame, sendVars, renoVars, ackVars, serverVars, ConstantsOK, FileTransfer
<1>1. /\ Packet(snd_nxt) \in Segments /\ Packet(snd_nxt).type = "DATA"
      /\ 1 <= Packet(snd_nxt).seq /\ Packet(snd_nxt).seq < snd_nxt
  BY DEF TypeOK, SenderTypeOK, SenderInv, Packet, Segments
<1>2. /\ toServer' \in Seq(Segments) /\ losses' \in Nat
      /\ \A i \in 1..Len(toServer') :
           toServer'[i] = Packet(snd_nxt) \/ (i \in 1..Len(toServer) /\ toServer'[i] = toServer[i])
  <2>1. toServer \in Seq(Segments) /\ losses \in Nat
    BY DEF TypeOK, NetTypeOK
  <2>2. QED
    BY <1>1, <2>1, TransmitAdds DEF ToServer
<1>3. wpc' = "check"
  BY DEF TypeOK, SenderTypeOK, SenderInv
<1>4. TypeOK'
  BY <1>2, <1>3 DEF TypeOK, SenderTypeOK, RenoTypeOK, ServerTypeOK, NetTypeOK
<1>5. SenderInv'
  BY <1>3 DEF SenderInv, SendBufComplete, InflightCounts, Unpushed, Uncounted
<1>6. NetInv' /\ ReceiverInv'
  BY <1>1, <1>2 DEF NetInv, ReceiverInv, Expected
<1>7. RecoveryInv' /\ WakeInv'
  BY <1>3 DEF RecoveryInv, WakeInv
<1>8. QED
  BY <1>4, <1>5, <1>6, <1>7

\* The window test: a writer that goes to sleep has just pushed.
LEMMA CheckStep == ASSUME IInv, Check PROVE IInv'
<1> USE DEF IInv, Check, writerFrame, sendVars, renoVars, ackVars, serverVars
<1>1. TypeOK'
  BY DEF TypeOK, SenderTypeOK, RenoTypeOK, ServerTypeOK, NetTypeOK
<1>2. SenderInv'
  BY DEF SenderInv, SendBufComplete, InflightCounts, Unpushed, Uncounted
<1>3. NetInv' /\ ReceiverInv'
  BY DEF NetInv, ReceiverInv, Expected
<1>4. WakeInv'
  <2>1. wpc' = "sleep" => snd_wnd < inflight /\ inflight = Len(send_buf)
    BY DEF SenderInv, InflightCounts, Uncounted, TypeOK, SenderTypeOK
  <2>2. wpc' = "sleep" => send_buf # <<>>
    BY <2>1 DEF TypeOK, SenderTypeOK
  <2>3. QED
    BY <2>2 DEF WakeInv
<1>5. RecoveryInv'
  BY DEF RecoveryInv
<1>6. QED
  BY <1>1, <1>2, <1>3, <1>4, <1>5

\* Falling asleep leaves the flag that a later ACK sets.
LEMMA SleepOnStep == ASSUME IInv, SleepOn PROVE IInv'
<1> USE DEF IInv, SleepOn, writerFrame, sendVars, renoVars, ackVars, serverVars
<1>1. wait_send' \in [notified : BOOLEAN, sleep : BOOLEAN] /\ wpc' \in {"check", "wait"}
      /\ (wpc' = "wait" => ~wait_send.notified)
  <2>1. wait_send \in [notified : BOOLEAN, sleep : BOOLEAN]
    BY DEF TypeOK, SenderTypeOK
  <2>2. CASE wait_send.notified
    <3>1. wpc' = "check" /\ wait_send' = [notified |-> FALSE, sleep |-> FALSE]
      BY <2>2
    <3>2. QED
      BY <3>1
  <2>3. CASE ~wait_send.notified
    <3>1. wpc' = "wait" /\ wait_send' = [wait_send EXCEPT !.sleep = TRUE]
      BY <2>3
    <3>2. QED
      BY <2>1, <2>3, <3>1
  <2>4. QED
    BY <2>2, <2>3
<1>2. TypeOK'
  BY <1>1 DEF TypeOK, SenderTypeOK, RenoTypeOK, ServerTypeOK, NetTypeOK
<1>3. SenderInv'
  BY <1>1 DEF SenderInv, SendBufComplete, InflightCounts, Unpushed, Uncounted
<1>4. NetInv' /\ ReceiverInv'
  BY DEF NetInv, ReceiverInv, Expected
<1>5. RecoveryInv' /\ WakeInv'
  BY <1>1 DEF RecoveryInv, WakeInv
<1>6. QED
  BY <1>2, <1>3, <1>4, <1>5

\* Leaving the wait takes the writer out of WakeInv.
LEMMA WokenStep == ASSUME IInv, Woken PROVE IInv'
<1> USE DEF IInv, Woken, writerFrame, sendVars, renoVars, ackVars, serverVars
<1>1. TypeOK'
  BY DEF TypeOK, SenderTypeOK, RenoTypeOK, ServerTypeOK, NetTypeOK
<1>2. SenderInv'
  BY DEF SenderInv, SendBufComplete, InflightCounts, Unpushed, Uncounted
<1>3. NetInv' /\ ReceiverInv'
  BY DEF NetInv, ReceiverInv, Expected
<1>4. RecoveryInv' /\ WakeInv'
  BY DEF RecoveryInv, WakeInv
<1>5. QED
  BY <1>1, <1>2, <1>3, <1>4

\* Every step of the application thread keeps the invariant.
LEMMA WriterStep == ASSUME IInv, Writer PROVE IInv'
BY FileTransfer, StampStep, StoreWndStep, PushStep, CountStep, EmitStep, CheckStep, SleepOnStep, WokenStep
   DEF Writer, Close, FileTransfer
-----------------------------------------------------------------------------
(* The client's IP thread.                                                  *)

\* What UpdateWindow may do to the windows and to the sleeper.
LEMMA WindowUpdate ==
  ASSUME TypeOK, NEW m \in Acks, NEW cw \in Nat, NEW nr, UpdateWindow(m, cw, nr)
  PROVE  /\ snd_wnd' \in Nat /\ adv_wnd' \in Nat
         /\ wait_send' \in [notified : BOOLEAN, sleep : BOOLEAN]
         /\ wait_send.notified => wait_send'.notified
         /\ m.type = "ACK" /\ Established /\ nr = "OPEN" => wait_send'.notified
<1>1. wait_send \in [notified : BOOLEAN, sleep : BOOLEAN] /\ snd_wnd \in Nat /\ adv_wnd \in Nat
  BY DEF TypeOK, SenderTypeOK
<1>2. m.rwnd \in Nat
  BY DEF Acks
<1>3. snd_wnd' \in Nat /\ adv_wnd' \in Nat
  BY <1>1, <1>2 DEF UpdateWindow, Smaller, windowVars
<1>4. wait_send' \in {wait_send, [wait_send EXCEPT !.notified = TRUE]}
  BY DEF UpdateWindow
<1>5. [wait_send EXCEPT !.notified = TRUE] \in [notified : BOOLEAN, sleep : BOOLEAN]
  BY <1>1
<1>6. [wait_send EXCEPT !.notified = TRUE].notified
  BY <1>1
<1>7. m.type = "ACK" /\ Established /\ nr = "OPEN" => wait_send' = [wait_send EXCEPT !.notified = TRUE]
  BY DEF UpdateWindow
<1>8. QED
  BY <1>1, <1>3, <1>4, <1>5, <1>6, <1>7

\* A stored segment is a data segment with a number already given out.
LEMMA StoredPacket ==
  ASSUME IInv, NEW i \in 1..Len(send_buf)
  PROVE  /\ send_buf[i].end = snd_una + i /\ Packet(send_buf[i].end) \in Segments
         /\ Packet(send_buf[i].end).type = "DATA"
         /\ 1 <= Packet(send_buf[i].end).seq /\ Packet(send_buf[i].end).seq < snd_nxt
<1>1. Len(send_buf) \in Nat /\ snd_una \in Nat /\ snd_nxt \in Nat /\ N \in Nat
  BY ConstantsOK DEF IInv, TypeOK, SenderTypeOK, ConstantsOK
<1>2. /\ send_buf[i].end = snd_una + i /\ 1 <= snd_una /\ snd_una + i <= snd_nxt
      /\ snd_nxt <= N + 1
  BY <1>1 DEF IInv, SenderInv, SendBufComplete, Unpushed
<1>3. Packet(send_buf[i].end) = [type |-> "DATA", seq |-> snd_una + i - 1]
  BY <1>1, <1>2 DEF Packet
<1>4. QED
  BY <1>1, <1>2, <1>3 DEF Segments

\* Sending a stored segment again keeps the link full of numbered data.
LEMMA Retransmits ==
  ASSUME IInv, NEW i \in 1..Len(send_buf), ToServer(Packet(send_buf[i].end))
  PROVE  /\ toServer' \in Seq(Segments) /\ losses' \in Nat
         /\ \A j \in 1..Len(toServer') :
              toServer'[j].type = "DATA" /\ 1 <= toServer'[j].seq /\ toServer'[j].seq < snd_nxt
<1>1. toServer \in Seq(Segments) /\ losses \in Nat
  BY DEF IInv, TypeOK, NetTypeOK
<1>2. /\ toServer' \in Seq(Segments) /\ losses' \in Nat
      /\ \A j \in 1..Len(toServer') :
           \/ toServer'[j] = Packet(send_buf[i].end)
           \/ j \in 1..Len(toServer) /\ toServer'[j] = toServer[j]
  BY <1>1, StoredPacket, TransmitAdds DEF ToServer
<1>3. QED
  BY <1>2, StoredPacket DEF IInv, NetInv

\* The packet at the head of toClient is an ACK of nothing beyond rcv_nxt.
LEMMA AckAtHead ==
  ASSUME IInv, AckArrives
  PROVE  /\ Head(toClient) \in Acks /\ Head(toClient).type = "ACK"
         /\ Head(toClient).ack <= rcv_nxt /\ Head(toClient).ack \in Nat
         /\ toClient' \in Seq(Acks)
         /\ \A i \in 1..Len(toClient') : toClient'[i].type = "ACK" /\ toClient'[i].ack <= rcv_nxt
<1>1. toClient \in Seq(Acks) /\ toClient # <<>> /\ toClient' = Tail(toClient)
  BY DEF IInv, TypeOK, NetTypeOK, AckArrives
<1>2. /\ toClient' \in Seq(Acks) /\ Head(toClient) = toClient[1] /\ toClient[1] \in Acks
      /\ 1 \in 1..Len(toClient)
      /\ \A i \in 1..Len(toClient') : i + 1 \in 1..Len(toClient) /\ toClient'[i] = toClient[i + 1]
  BY <1>1, TailShifts
<1>3. \A i \in 1..Len(toClient) : toClient[i].type = "ACK" /\ toClient[i].ack <= rcv_nxt
  BY DEF IInv, NetInv
<1>4. QED
  BY <1>2, <1>3 DEF Acks

\* A duplicate ACK: recovery starts at snd_nxt, or was on.
LEMMA DupAckStep == ASSUME IInv, DupAck PROVE IInv'
<1> USE DEF IInv, DupAck, ackFrame, ackVars, writerVars, serverVars
<1> DEFINE m == Head(toClient)
<1>1. /\ snd_nxt \in Nat /\ snd_una \in Nat /\ snd_una <= snd_nxt /\ cwnd \in Nat \ {0}
      /\ ack_time \in Nat /\ Len(send_buf) \in Nat /\ send_buf \in Seq(Entries)
  BY DEF TypeOK, SenderTypeOK, RenoTypeOK, SenderInv
<1>2. /\ cwnd' \in Nat \ {0} /\ ssthresh' \in Nat /\ ack_time' \in Nat
      /\ nrstate' \in {"OPEN", "RECOVER", "LOSS"}
      /\ recovery_point' \in Nat
  BY <1>1 DEF TypeOK, RenoTypeOK, CountDup, FastRetransmit, Deflate, IgnoreDup
<1>3. \/ nrstate' = nrstate /\ recovery_point' = recovery_point
      \/ recovery_point' = snd_nxt
  BY DEF CountDup, FastRetransmit, Deflate, IgnoreDup
<1>4. /\ toServer' \in Seq(Segments) /\ losses' \in Nat
      /\ \A j \in 1..Len(toServer') :
           toServer'[j].type = "DATA" /\ 1 <= toServer'[j].seq /\ toServer'[j].seq < snd_nxt
  <2>1. CASE UNCHANGED <<toServer, losses>>
    BY <2>1 DEF TypeOK, NetTypeOK, NetInv
  <2>2. CASE send_buf # <<>> /\ ToServer(Packet(send_buf[1].end))
    BY <1>1, <2>2, Retransmits
  <2>3. QED
    BY <2>1, <2>2 DEF CountDup, FastRetransmit, Deflate, IgnoreDup
<1>5. /\ snd_wnd' \in Nat /\ adv_wnd' \in Nat
      /\ wait_send' \in [notified : BOOLEAN, sleep : BOOLEAN]
      /\ wait_send.notified => wait_send'.notified
  BY <1>2, WindowUpdate, AckAtHead
<1>6. TypeOK'
  BY <1>2, <1>4, <1>5, AckAtHead DEF TypeOK, SenderTypeOK, RenoTypeOK, ServerTypeOK, NetTypeOK
<1>7. SenderInv'
  BY DEF SenderInv, SendBufComplete, InflightCounts, Unpushed, Uncounted
<1>8. NetInv' /\ ReceiverInv'
  <2>1. ReceiverInv'
    BY DEF ReceiverInv, Expected
  <2>2. NetInv'
    BY <1>4, AckAtHead DEF NetInv
  <2>3. QED
    BY <2>1, <2>2
<1>9. RecoveryInv'
  BY <1>1, <1>3 DEF RecoveryInv, AckArrives
<1>10. WakeInv'
  BY <1>5 DEF WakeInv, AckArrives
<1>11. QED
  BY <1>6, <1>7, <1>8, <1>9, <1>10

\* A new ACK starts the loop over send_buf.
LEMMA NewAckStep == ASSUME IInv, NewAck PROVE IInv'
<1> USE DEF IInv, NewAck, ackFrame, writerVars, windowVars, serverVars
<1>1. cpc' \in {"pop", "poplast", "end"} /\ (cpc' \in {"pop", "poplast"} => send_buf # <<>>)
  BY DEF LoopAt, TypeOK, SenderTypeOK
<1>2. TypeOK'
  BY <1>1, AckAtHead DEF TypeOK, SenderTypeOK, RenoTypeOK, ServerTypeOK, NetTypeOK
<1>3. SenderInv'
  BY <1>1 DEF SenderInv, SendBufComplete, InflightCounts, Unpushed, Uncounted
<1>4. NetInv' /\ ReceiverInv'
  <2>1. ReceiverInv'
    BY DEF ReceiverInv, Expected
  <2>2. NetInv'
    BY AckAtHead DEF NetInv
  <2>3. QED
    BY <2>1, <2>2
<1>5. RecoveryInv' /\ WakeInv'
  BY <1>1 DEF RecoveryInv, WakeInv, AckArrives
<1>6. QED
  BY <1>2, <1>3, <1>4, <1>5

\* Popping an acknowledged entry moves snd_una to its end.
LEMMA PopStep == ASSUME IInv, Pop PROVE IInv'
<1> USE DEF IInv, Pop, SndbufPop, ackFrame, writerVars, windowVars, serverVars, netVars
<1>1. /\ send_buf \in Seq(Entries) /\ send_buf # <<>> /\ snd_una \in Nat /\ snd_nxt \in Nat
      /\ Len(send_buf) \in Nat /\ Len(send_buf) >= 1 /\ cb.ack \in Nat /\ inflight \in Int
      /\ cwnd \in Nat \ {0} /\ cnt \in Nat
  BY DEF TypeOK, SenderTypeOK, RenoTypeOK, SenderInv, Acks
<1>2. /\ send_buf' \in Seq(Entries) /\ Len(send_buf') = Len(send_buf) - 1
      /\ \A i \in 1..Len(send_buf') : i + 1 \in 1..Len(send_buf) /\ send_buf'[i] = send_buf[i + 1]
  BY <1>1, TailShifts
<1>3. snd_una' = snd_una + 1 /\ snd_una' <= cb.ack /\ snd_una' <= snd_nxt
  BY <1>1 DEF SenderInv, SendBufComplete, Unpushed
<1>4. /\ cpc' \in {"pop", "poplast", "end"}
      /\ cpc' \in {"pop", "poplast"} => Len(send_buf') # 0
      /\ Len(send_buf') = 0 => cpc' = "end"
  BY <1>1, <1>2 DEF LoopAt
<1>5. cwnd' \in Nat \ {0} /\ cnt' \in Nat
  BY <1>1 DEF Grow
<1>6. TypeOK'
  BY <1>1, <1>2, <1>3, <1>4, <1>5 DEF TypeOK, SenderTypeOK, RenoTypeOK, ServerTypeOK, NetTypeOK
<1>7. SenderInv'
  <2>1. SendBufComplete'
    BY <1>1, <1>2, <1>3 DEF SenderInv, SendBufComplete, Unpushed
  <2>2. InflightCounts'
    <3>1. Uncounted' = Uncounted /\ Uncounted \in Int
      BY DEF Uncounted
    <3>2. inflight = Len(send_buf) - Uncounted /\ inflight' = inflight - 1
      BY DEF SenderInv, InflightCounts
    <3>3. QED
      BY <1>1, <1>2, <3>1, <3>2 DEF InflightCounts
  <2>3. cpc' \in {"pop", "poplast"} => send_buf' # <<>>
    BY <1>2, <1>4
  <2>4. QED
    BY <1>1, <1>3, <2>1, <2>2, <2>3 DEF SenderInv
<1>8. NetInv' /\ ReceiverInv'
  <2>1. ReceiverInv'
    BY DEF ReceiverInv, Expected
  <2>2. rcv_nxt \in Nat
    BY DEF TypeOK, ServerTypeOK
  <2>3. NetInv'
    BY <1>1, <1>3, <2>2 DEF NetInv
  <2>4. QED
    BY <2>1, <2>3
<1>9. RecoveryInv'
  BY <1>3, <1>4 DEF RecoveryInv
<1>10. WakeInv'
  <2>1. send_buf' = <<>> => cpc' = "end"
    BY <1>4
  <2>2. QED
    BY <1>3, <2>1 DEF WakeInv
<1>11. QED
  BY <1>6, <1>7, <1>8, <1>9, <1>10

\* The end of an ACK closes a recovery it covers and wakes the writer.
LEMMA AckDoneStep == ASSUME IInv, AckDone PROVE IInv'
<1> USE DEF IInv, AckDone, ackFrame, writerVars, serverVars
<1>1. /\ snd_una \in Nat /\ snd_nxt \in Nat /\ cb \in Acks /\ cb.ack \in Nat /\ cwnd \in Nat
      /\ recovery_point \in Nat /\ Len(send_buf) \in Nat /\ send_buf \in Seq(Entries) /\ N \in Nat
  BY ConstantsOK DEF TypeOK, SenderTypeOK, RenoTypeOK, Acks, ConstantsOK
<1>2. AtEntry => send_buf # <<>>
  BY DEF AtEntry, SenderInv
<1>3. /\ toServer' \in Seq(Segments) /\ losses' \in Nat
      /\ \A j \in 1..Len(toServer') :
           toServer'[j].type = "DATA" /\ 1 <= toServer'[j].seq /\ toServer'[j].seq < snd_nxt
  <2>1. CASE ~Partial
    BY <2>1 DEF TypeOK, NetTypeOK, NetInv
  <2>2. CASE Partial
    BY <1>1, <1>2, <2>2, Retransmits
  <2>3. QED
    BY <2>1, <2>2
<1>4. /\ snd_wnd' \in Nat /\ adv_wnd' \in Nat
      /\ wait_send' \in [notified : BOOLEAN, sleep : BOOLEAN]
      /\ wait_send.notified => wait_send'.notified
      /\ cb.type = "ACK" /\ Established /\ nrstate' = "OPEN" => wait_send'.notified
  BY <1>1, WindowUpdate
<1>5. TypeOK'
  BY <1>1, <1>3, <1>4 DEF TypeOK, SenderTypeOK, RenoTypeOK, ServerTypeOK, NetTypeOK, NoCb, Acks
<1>6. SenderInv'
  BY DEF SenderInv, SendBufComplete, InflightCounts, Unpushed, Uncounted
<1>7. NetInv' /\ ReceiverInv'
  <2>1. ReceiverInv'
    BY DEF ReceiverInv, Expected
  <2>2. rcv_nxt \in Nat
    BY DEF TypeOK, ServerTypeOK
  <2>3. NetInv'
    BY <1>3, <2>2 DEF NetInv, NoCb
  <2>4. QED
    BY <2>1, <2>3
<1>8. RecoveryInv'
  BY <1>1 DEF RecoveryInv
<1>9. WakeInv'
  <2>1. SUFFICES ASSUME wpc \in {"sleep", "wait"}, ~wait_send'.notified, send_buf = <<>>
                 PROVE  FALSE
    BY DEF WakeInv
  <2>2. cpc = "end" /\ snd_una <= cb.ack
    BY <1>4, <2>1 DEF WakeInv
  <2>3. snd_una = snd_nxt /\ snd_nxt <= N + 1
    BY <1>1, <2>1 DEF SenderInv, SendBufComplete, Unpushed
  <2>4. nrstate' = "OPEN"
    BY <1>1, <2>2, <2>3 DEF AtEntry, Partial, RecoveryInv, TypeOK, RenoTypeOK
  <2>5. QED
    BY <1>1, <1>4, <2>1, <2>3, <2>4 DEF Established, NetInv
<1>10. QED
  BY <1>5, <1>6, <1>7, <1>8, <1>9

\* The wild retransmission ends the client and changes nothing else.
LEMMA AckWildStep == ASSUME IInv, AckWild, crashed = "none" PROVE IInv'
<1> USE DEF IInv, AckWild, ackFrame, writerVars, sendVars, windowVars, renoVars, ackVars, serverVars, netVars
<1>1. TypeOK'
  BY DEF TypeOK, SenderTypeOK, RenoTypeOK, ServerTypeOK, NetTypeOK
<1>2. SenderInv'
  BY DEF SenderInv, SendBufComplete, InflightCounts, Unpushed, Uncounted
<1>3. NetInv' /\ RecoveryInv' /\ WakeInv'
  BY DEF NetInv, RecoveryInv, WakeInv
<1>4. ReceiverInv'
  BY DEF ReceiverInv, Expected
<1>5. QED
  BY <1>1, <1>2, <1>3, <1>4

\* Every step of the client's IP thread keeps the invariant.
LEMMA ClientIpStep == ASSUME IInv, ClientIp, crashed = "none" PROVE IInv'
<1>1. ~SkipAckFin
  <2>1. SUFFICES ASSUME SkipAckFin PROVE FALSE
    OBVIOUS
  <2>2. toClient \in Seq(Acks) /\ toClient # <<>>
    BY <2>1 DEF SkipAckFin, IInv, TypeOK, NetTypeOK
  <2>3. Head(toClient).type = "ACK"
    BY <2>2, TailShifts DEF IInv, NetInv
  <2>4. QED
    BY <2>1, <2>3 DEF SkipAckFin
<1>2. QED
  BY <1>1, DupAckStep, NewAckStep, PopStep, AckDoneStep, AckWildStep DEF ClientIp
-----------------------------------------------------------------------------
(* The timer thread.                                                        *)

\* A scan begins at the first of some entries.
LEMMA ScanStartStep == ASSUME IInv, ScanStart PROVE IInv'
<1> USE DEF IInv, ScanStart, writerVars, sendVars, windowVars, renoVars, ackVars, serverVars, netVars
<1>1. TypeOK'
  BY DEF TypeOK, SenderTypeOK, RenoTypeOK, ServerTypeOK, NetTypeOK
<1>2. SenderInv'
  BY DEF SenderInv, SendBufComplete, InflightCounts, Unpushed, Uncounted
<1>3. NetInv' /\ ReceiverInv'
  BY DEF NetInv, ReceiverInv, Expected
<1>4. RecoveryInv' /\ WakeInv'
  BY DEF RecoveryInv, WakeInv
<1>5. QED
  BY <1>1, <1>2, <1>3, <1>4

\* A timeout counts the expiry, sends the entry again and enters LOSS.
LEMMA ExpireStep == ASSUME IInv, Expire PROVE IInv'
<1> USE DEF IInv, Expire, scanFrame, writerVars, ackVars, serverVars
<1>1. /\ snd_nxt \in Nat /\ snd_una \in Nat /\ snd_una <= snd_nxt /\ cwnd \in Nat
      /\ Len(send_buf) \in Nat /\ send_buf \in Seq(Entries) /\ scan \in 1..Len(send_buf)
  BY DEF TypeOK, SenderTypeOK, RenoTypeOK, SenderInv
<1>2. /\ send_buf' \in Seq(Entries) /\ Len(send_buf') = Len(send_buf)
      /\ \A i \in 1..Len(send_buf) : send_buf'[i].end = send_buf[i].end
  <2>1. send_buf[scan] \in Entries
    BY <1>1
  <2>2. PICK t \in 1..3 : send_buf' = [send_buf EXCEPT ![scan].times = t]
    BY <1>1, <2>1 DEF Entries
  <2>3. [send_buf[scan] EXCEPT !.times = t] \in Entries
        /\ [send_buf[scan] EXCEPT !.times = t].end = send_buf[scan].end
    BY <2>1 DEF Entries
  <2>4. QED
    BY <1>1, <2>2, <2>3
<1>3. /\ toServer' \in Seq(Segments) /\ losses' \in Nat
      /\ \A j \in 1..Len(toServer') :
           toServer'[j].type = "DATA" /\ 1 <= toServer'[j].seq /\ toServer'[j].seq < snd_nxt
  <2>1. CASE UNCHANGED <<toServer, losses>>
    BY <2>1 DEF TypeOK, NetTypeOK, NetInv
  <2>2. CASE ToServer(Packet(send_buf[scan].end))
    BY <1>1, <2>2, Retransmits
  <2>3. QED
    BY <2>1, <2>2
<1>4. cwnd' \in Nat \ {0} /\ ssthresh' \in Nat /\ recovery_point' \in Nat /\ scan' \in 0..Len(send_buf)
  BY <1>1 DEF ScanNext, TypeOK, RenoTypeOK
<1>5. TypeOK'
  BY <1>1, <1>2, <1>3, <1>4 DEF TypeOK, SenderTypeOK, RenoTypeOK, ServerTypeOK, NetTypeOK
<1>6. SenderInv'
  <2>1. SendBufComplete' /\ InflightCounts'
    BY <1>1, <1>2 DEF SenderInv, SendBufComplete, InflightCounts, Unpushed, Uncounted
  <2>2. send_buf # <<>> => send_buf' # <<>>
    BY <1>1, <1>2
  <2>3. QED
    BY <2>1, <2>2 DEF SenderInv
<1>7. NetInv'
  BY <1>3 DEF NetInv
<1>8. ReceiverInv'
  BY DEF ReceiverInv, Expected
<1>9. RecoveryInv'
  BY <1>1 DEF RecoveryInv
<1>10. WakeInv'
  <2>1. send_buf' = <<>> => send_buf = <<>>
    BY <1>1, <1>2
  <2>2. QED
    BY <2>1 DEF WakeInv
<1>11. QED
  BY <1>5, <1>6, <1>7, <1>8, <1>9, <1>10

\* A scan moves on over a fresh entry.
LEMMA PassOverStep == ASSUME IInv, PassOver PROVE IInv'
<1> USE DEF IInv, PassOver, scanFrame, writerVars, ackVars, serverVars
<1>1. scan' \in 0..Len(send_buf)
  BY DEF ScanNext, TypeOK, SenderTypeOK
<1>2. TypeOK'
  BY <1>1 DEF TypeOK, SenderTypeOK, RenoTypeOK, ServerTypeOK, NetTypeOK
<1>3. SenderInv'
  BY DEF SenderInv, SendBufComplete, InflightCounts, Unpushed, Uncounted
<1>4. NetInv' /\ ReceiverInv'
  BY DEF NetInv, ReceiverInv, Expected
<1>5. RecoveryInv' /\ WakeInv'
  BY DEF RecoveryInv, WakeInv
<1>6. QED
  BY <1>2, <1>3, <1>4, <1>5

\* Every step of the timer thread keeps the invariant.
LEMMA TimerStep == ASSUME IInv, Timer PROVE IInv'
BY ScanStartStep, ExpireStep, PassOverStep DEF Timer
-----------------------------------------------------------------------------
(* The server's IP thread.                                                  *)

\* The packet at the head of toServer is numbered data, and so are the others.
LEMMA SegmentAtHead ==
  ASSUME IInv, NEW type, Arrives(type)
  PROVE  /\ Head(toServer).type = "DATA" /\ Head(toServer).seq \in Nat
         /\ 1 <= Head(toServer).seq /\ Head(toServer).seq < snd_nxt
         /\ toServer' \in Seq(Segments)
         /\ \A i \in 1..Len(toServer') :
              toServer'[i].type = "DATA" /\ 1 <= toServer'[i].seq /\ toServer'[i].seq < snd_nxt
<1>1. toServer \in Seq(Segments) /\ toServer # <<>> /\ toServer' = Tail(toServer)
  BY DEF IInv, TypeOK, NetTypeOK, Arrives
<1>2. /\ toServer' \in Seq(Segments) /\ Head(toServer) = toServer[1] /\ toServer[1] \in Segments
      /\ 1 \in 1..Len(toServer)
      /\ \A i \in 1..Len(toServer') : i + 1 \in 1..Len(toServer) /\ toServer'[i] = toServer[i + 1]
  BY <1>1, TailShifts
<1>3. \A i \in 1..Len(toServer) :
        toServer[i].type = "DATA" /\ 1 <= toServer[i].seq /\ toServer[i].seq < snd_nxt
  BY DEF IInv, NetInv
<1>4. QED
  BY <1>2, <1>3 DEF Segments

\* An ACK of n leaves only ACKs of at most n behind, if n is no step back.
LEMMA AckSent ==
  ASSUME IInv, NEW n \in Nat, rcv_nxt <= n, SendAck("ACK", n)
  PROVE  /\ toClient' \in Seq(Acks) /\ losses' \in Nat
         /\ \A i \in 1..Len(toClient') : toClient'[i].type = "ACK" /\ toClient'[i].ack <= n
<1>1. PICK w \in AdvWnds : ToClient([type |-> "ACK", ack |-> n, rwnd |-> w])
  BY DEF SendAck
<1> DEFINE m == [type |-> "ACK", ack |-> n, rwnd |-> w]
<1>2. m \in Acks /\ m.type = "ACK" /\ m.ack = n
  BY ConstantsOK DEF Acks, ConstantsOK
<1>3. toClient \in Seq(Acks) /\ losses \in Nat /\ rcv_nxt \in Nat
  BY DEF IInv, TypeOK, NetTypeOK, ServerTypeOK
<1>4. /\ toClient' \in Seq(Acks) /\ losses' \in Nat
      /\ \A i \in 1..Len(toClient') :
           toClient'[i] = m \/ (i \in 1..Len(toClient) /\ toClient'[i] = toClient[i])
  BY <1>1, <1>2, <1>3, TransmitAdds DEF ToClient
<1>5. \A i \in 1..Len(toClient) : toClient[i].type = "ACK" /\ toClient[i].ack \in Nat /\ toClient[i].ack <= n
  BY <1>3, LinkTypes DEF IInv, NetInv
<1>6. QED
  BY <1>2, <1>4, <1>5

\* No step of the server touches what the sender's invariants are about.
LEMMA SenderKept ==
  ASSUME IInv, rcvFrame' = rcvFrame
  PROVE  SenderTypeOK' /\ RenoTypeOK' /\ SenderInv' /\ RecoveryInv' /\ WakeInv'
<1> USE DEF IInv, rcvFrame, writerVars, sendVars, windowVars, renoVars, ackVars
<1>1. SenderTypeOK' /\ RenoTypeOK'
  BY DEF TypeOK, SenderTypeOK, RenoTypeOK
<1>2. SenderInv'
  BY DEF SenderInv, SendBufComplete, InflightCounts, Unpushed, Uncounted
<1>3. RecoveryInv' /\ WakeInv'
  BY DEF RecoveryInv, WakeInv
<1>4. QED
  BY <1>1, <1>2, <1>3

\* The expected segment is the next of rcvd.
LEMMA RcvInOrderStep == ASSUME IInv, RcvInOrder PROVE IInv'
<1> USE DEF IInv, RcvInOrder
<1>1. /\ rcv_nxt \in Nat /\ rcvd \in Seq(Nat) /\ Len(rcvd) \in Nat /\ snd_nxt \in Nat
      /\ ofo \in SUBSET Nat /\ rpc = "idle"
  BY DEF TypeOK, SenderTypeOK, ServerTypeOK, Arrives
<1>2. /\ rcvd' \in Seq(Nat) /\ Len(rcvd') = Len(rcvd) + 1 /\ rcvd'[Len(rcvd) + 1] = rcv_nxt
      /\ \A i \in 1..Len(rcvd) : rcvd'[i] = rcvd[i]
  BY <1>1, AppendKeeps
<1>3. SenderTypeOK' /\ RenoTypeOK' /\ SenderInv' /\ RecoveryInv' /\ WakeInv'
  BY SenderKept
<1>4. ServerTypeOK' /\ NetTypeOK'
  BY <1>1, <1>2, SegmentAtHead DEF TypeOK, ServerTypeOK, NetTypeOK
<1>5. NetInv'
  BY SegmentAtHead DEF NetInv, rcvFrame, sendVars, ackVars
<1>6. ReceiverInv'
  <2>1. /\ Expected = rcv_nxt /\ Expected' = rcv_nxt + 1 /\ rcv_nxt' = rcv_nxt /\ snd_nxt' = snd_nxt
        /\ rcv_nxt < snd_nxt /\ ofo' = ofo /\ crashed' = crashed /\ rpc' = "ofo"
    BY <1>1, SegmentAtHead DEF Expected, rcvFrame, sendVars
  <2>2. \A e \in ofo : rcv_nxt + 1 <= e /\ e < snd_nxt
    BY <1>1, <2>1 DEF ReceiverInv
  <2>3. crashed # "server" => Len(rcvd') = rcv_nxt /\ \A i \in 1..Len(rcvd') : rcvd'[i] = i
    <3>1. SUFFICES ASSUME crashed # "server"
                   PROVE  Len(rcvd') = rcv_nxt /\ \A i \in 1..Len(rcvd') : rcvd'[i] = i
      OBVIOUS
    <3>2. Len(rcvd) = rcv_nxt - 1 /\ \A i \in 1..Len(rcvd) : rcvd[i] = i
      BY <2>1, <3>1 DEF ReceiverInv
    <3>3. QED
      BY <1>1, <1>2, <3>2
  <2>4. QED
    BY <1>1, <1>2, <2>1, <2>2, <2>3 DEF ReceiverInv
<1>7. QED
  BY <1>3, <1>4, <1>5, <1>6 DEF TypeOK

\* A flushed entry is the one expected after it, not an older one.
LEMMA RcvFlushStep == ASSUME IInv, RcvFlush PROVE IInv'
<1> USE DEF IInv, RcvFlush
<1>1. /\ rcv_nxt \in Nat /\ seq_end \in Nat /\ rcvd \in Seq(Nat) /\ Len(rcvd) \in Nat
      /\ snd_nxt \in Nat /\ ofo \in SUBSET Nat
  BY DEF TypeOK, SenderTypeOK, ServerTypeOK
<1>2. PICK e \in ofo : /\ \A f \in ofo : e <= f
                       /\ e <= seq_end
                       /\ rcvd' = Append(rcvd, e) /\ seq_end' = e + 1 /\ ofo' = ofo \ {e}
  OBVIOUS
<1>3. /\ rcvd' \in Seq(Nat) /\ Len(rcvd') = Len(rcvd) + 1 /\ rcvd'[Len(rcvd) + 1] = e
      /\ \A i \in 1..Len(rcvd) : rcvd'[i] = rcvd[i]
  BY <1>1, <1>2, AppendKeeps
<1>4. SenderTypeOK' /\ RenoTypeOK' /\ SenderInv' /\ RecoveryInv' /\ WakeInv'
  BY SenderKept
<1>5. ServerTypeOK' /\ NetTypeOK'
  BY <1>1, <1>2, <1>3 DEF TypeOK, ServerTypeOK, NetTypeOK, netVars
<1>6. NetInv'
  BY DEF NetInv, rcvFrame, sendVars, ackVars, netVars
<1>7. ReceiverInv'
  <2>1. /\ Expected = seq_end /\ Expected' = e + 1 /\ rcv_nxt' = rcv_nxt /\ snd_nxt' = snd_nxt
        /\ crashed' = crashed /\ rpc' = "ofo"
    BY <1>2 DEF Expected, rcvFrame, sendVars
  <2>2. e \in Nat /\ e = seq_end /\ e < snd_nxt
    BY <1>1, <1>2, <2>1 DEF ReceiverInv
  <2>3. \A f \in ofo' : e + 1 <= f /\ f < snd_nxt
    BY <1>1, <1>2, <2>2 DEF ReceiverInv
  <2>4. crashed # "server" => Len(rcvd') = e /\ \A i \in 1..Len(rcvd') : rcvd'[i] = i
    <3>1. SUFFICES ASSUME crashed # "server"
                   PROVE  Len(rcvd') = e /\ \A i \in 1..Len(rcvd') : rcvd'[i] = i
      OBVIOUS
    <3>2. Len(rcvd) = e - 1 /\ \A i \in 1..Len(rcvd) : rcvd[i] = i
      BY <2>1, <2>2, <3>1 DEF ReceiverInv
    <3>3. QED
      BY <1>1, <1>3, <2>2, <3>2
  <2>5. QED
    BY <1>1, <1>3, <2>1, <2>2, <2>3, <2>4 DEF ReceiverInv
<1>8. QED
  BY <1>4, <1>5, <1>6, <1>7 DEF TypeOK

\* The end of the walk acknowledges what was written.
LEMMA RcvDoneStep == ASSUME IInv, RcvDone PROVE IInv'
<1> USE DEF IInv, RcvDone
<1>1. /\ rcv_nxt \in Nat /\ seq_end \in Nat /\ snd_nxt \in Nat /\ ofo \in SUBSET Nat
      /\ rcv_nxt <= seq_end /\ snd_una <= rcv_nxt /\ snd_una \in Nat /\ cb.ack \in Nat
      /\ Len(rcvd) \in Nat
  BY DEF TypeOK, SenderTypeOK, RenoTypeOK, Acks, ServerTypeOK, ReceiverInv, NetInv, Expected
<1>2. /\ toClient' \in Seq(Acks) /\ losses' \in Nat
      /\ \A i \in 1..Len(toClient') : toClient'[i].type = "ACK" /\ toClient'[i].ack <= seq_end
  BY <1>1, AckSent
<1>3. SenderTypeOK' /\ RenoTypeOK' /\ SenderInv' /\ RecoveryInv' /\ WakeInv'
  BY SenderKept
<1>4. ServerTypeOK' /\ NetTypeOK'
  BY <1>1, <1>2 DEF TypeOK, ServerTypeOK, NetTypeOK
<1>5. NetInv'
  BY <1>1, <1>2 DEF NetInv, rcvFrame, sendVars, ackVars
<1>6. ReceiverInv'
  <2>1. /\ Expected = seq_end /\ Expected' = seq_end /\ rcv_nxt' = seq_end /\ snd_nxt' = snd_nxt
        /\ crashed' = crashed /\ rpc' = "idle" /\ ofo' = ofo /\ rcvd' = rcvd
    BY DEF Expected, rcvFrame, sendVars
  <2>2. QED
    BY <1>1, <2>1 DEF ReceiverInv
<1>7. QED
  BY <1>3, <1>4, <1>5, <1>6 DEF TypeOK

\* A later segment is queued, or lost in front of the queue.
LEMMA RcvOfoStep == ASSUME IInv, RcvOfo PROVE IInv'
<1> USE DEF IInv, RcvOfo
<1>1. /\ rcv_nxt \in Nat /\ snd_nxt \in Nat /\ ofo \in SUBSET Nat /\ rpc = "idle"
      /\ Head(toServer).seq \in Nat /\ Head(toServer).seq < snd_nxt
  BY SegmentAtHead DEF TypeOK, SenderTypeOK, ServerTypeOK, Arrives
<1>2. /\ toClient' \in Seq(Acks) /\ losses' \in Nat
      /\ \A i \in 1..Len(toClient') : toClient'[i].type = "ACK" /\ toClient'[i].ack <= rcv_nxt
  BY <1>1, AckSent
<1>3. SenderTypeOK' /\ RenoTypeOK' /\ SenderInv' /\ RecoveryInv' /\ WakeInv'
  BY SenderKept
<1>4. ofo' \in {ofo, ofo \union {Head(toServer).seq}} /\ ofo_front' \in {ofo_front, "dangling"}
  OBVIOUS
<1>5. ServerTypeOK' /\ NetTypeOK'
  BY <1>1, <1>2, <1>4, SegmentAtHead DEF TypeOK, ServerTypeOK, NetTypeOK
<1>6. NetInv'
  BY <1>2, SegmentAtHead DEF NetInv, rcvFrame, sendVars, ackVars
<1>7. ReceiverInv'
  <2>1. /\ Expected = rcv_nxt /\ Expected' = rcv_nxt /\ rcv_nxt' = rcv_nxt /\ snd_nxt' = snd_nxt
        /\ crashed' = crashed /\ rpc' = "idle" /\ rcvd' = rcvd
    BY <1>1 DEF Expected, rcvFrame, sendVars
  <2>2. QED
    BY <1>1, <1>4, <2>1 DEF ReceiverInv
<1>8. QED
  BY <1>3, <1>5, <1>6, <1>7 DEF TypeOK

\* A walk over freed memory ends the server.
LEMMA RcvStaleStep == ASSUME IInv, RcvStale PROVE IInv'
<1> USE DEF IInv, RcvStale
<1>1. /\ rcv_nxt \in Nat /\ rcvd \in Seq(Nat) /\ Len(rcvd) \in Nat /\ Garbage \in Nat
  BY DEF TypeOK, ServerTypeOK, Garbage
<1>2. rcvd' \in Seq(Nat) /\ Len(rcvd') \in Nat /\ Len(rcvd') >= Len(rcvd)
  <2>1. Append(rcvd, rcv_nxt) \in Seq(Nat) /\ Len(Append(rcvd, rcv_nxt)) = Len(rcvd) + 1
    BY <1>1
  <2>2. /\ Append(Append(rcvd, rcv_nxt), Garbage) \in Seq(Nat)
        /\ Len(Append(Append(rcvd, rcv_nxt), Garbage)) = Len(rcvd) + 2
    BY <1>1, <2>1
  <2>3. CASE rcvd' = rcvd
    BY <1>1, <2>3
  <2>4. CASE rcvd' = Append(rcvd, rcv_nxt)
    BY <1>1, <2>1, <2>4
  <2>5. CASE rcvd' = Append(Append(rcvd, rcv_nxt), Garbage)
    BY <1>1, <2>2, <2>5
  <2>6. QED
    BY <2>3, <2>4, <2>5
<1>3. SenderTypeOK' /\ RenoTypeOK' /\ SenderInv' /\ RecoveryInv' /\ WakeInv'
  BY SenderKept
<1>4. ServerTypeOK' /\ NetTypeOK'
  BY <1>2, SegmentAtHead DEF TypeOK, ServerTypeOK, NetTypeOK
<1>5. NetInv'
  BY SegmentAtHead DEF NetInv, rcvFrame, sendVars, ackVars
<1>6. ReceiverInv'
  <2>1. Expected' = Expected /\ snd_nxt' = snd_nxt /\ Expected \in Nat
    BY DEF Expected, rcvFrame, sendVars, TypeOK, ServerTypeOK
  <2>2. QED
    BY <1>1, <1>2, <2>1 DEF ReceiverInv
<1>7. QED
  BY <1>3, <1>4, <1>5, <1>6 DEF TypeOK

\* An old segment is only acknowledged again.
LEMMA RcvOldStep == ASSUME IInv, RcvOld PROVE IInv'
<1> USE DEF IInv, RcvOld, serverVars
<1>1. rcv_nxt \in Nat
  BY DEF TypeOK, ServerTypeOK
<1>2. /\ toClient' \in Seq(Acks) /\ losses' \in Nat
      /\ \A i \in 1..Len(toClient') : toClient'[i].type = "ACK" /\ toClient'[i].ack <= rcv_nxt
  BY <1>1, AckSent
<1>3. SenderTypeOK' /\ RenoTypeOK' /\ SenderInv' /\ RecoveryInv' /\ WakeInv'
  BY SenderKept
<1>4. ServerTypeOK' /\ NetTypeOK'
  BY <1>2, SegmentAtHead DEF TypeOK, ServerTypeOK, NetTypeOK
<1>5. NetInv'
  BY <1>2, SegmentAtHead DEF NetInv, rcvFrame, sendVars, ackVars
<1>6. ReceiverInv'
  BY DEF ReceiverInv, Expected, rcvFrame, sendVars
<1>7. QED
  BY <1>3, <1>4, <1>5, <1>6 DEF TypeOK

\* Every step of the server's IP thread keeps the invariant.
LEMMA ServerIpStep == ASSUME IInv, ServerIp PROVE IInv'
<1>1. ~RcvSyn /\ ~RcvFin
  BY SegmentAtHead DEF RcvSyn, RcvFin, Arrives
<1>2. QED
  BY <1>1, RcvInOrderStep, RcvFlushStep, RcvDoneStep, RcvOfoStep, RcvStaleStep, RcvOldStep DEF ServerIp
-----------------------------------------------------------------------------
(* The theorems.                                                            *)

\* The invariant is inductive.
LEMMA NextIInv == IInv /\ [Next]_vars => IInv'
<1> SUFFICES ASSUME IInv, [Next]_vars PROVE IInv'
  OBVIOUS
<1>1. CASE Writer
  BY <1>1, WriterStep
<1>2. CASE ClientIp
  BY <1>2, ClientIpStep DEF ClientIp
<1>3. CASE Timer
  BY <1>3, TimerStep
<1>4. CASE ServerIp
  BY <1>4, ServerIpStep
<1>5. CASE UNCHANGED vars
  <2> USE <1>5 DEF vars, writerVars, sendVars, windowVars, renoVars, ackVars, serverVars, netVars
  <2>1. TypeOK'
    BY DEF IInv, TypeOK, SenderTypeOK, RenoTypeOK, ServerTypeOK, NetTypeOK
  <2>2. SenderInv'
    BY DEF IInv, SenderInv, SendBufComplete, InflightCounts, Unpushed, Uncounted
  <2>3. NetInv' /\ ReceiverInv'
    BY DEF IInv, NetInv, ReceiverInv, Expected
  <2>4. RecoveryInv' /\ WakeInv'
    BY DEF IInv, RecoveryInv, WakeInv
  <2>5. QED
    BY <2>1, <2>2, <2>3, <2>4 DEF IInv
<1>6. QED
  BY <1>1, <1>2, <1>3, <1>4, <1>5 DEF Next, Finished

\* Every reachable state satisfies the inductive invariant.
THEOREM Inductive == Spec => []IInv
<1>1. QED
  BY InitIInv, NextIInv, PTL DEF Spec

\* Every variable keeps its type (tcp_sock.h:40-147).
THEOREM TypeCorrect == Spec => []TypeOK
<1>1. IInv => TypeOK
  BY DEF IInv
<1>2. QED
  BY <1>1, Inductive, PTL

\* Whatever is lost, reordered by retransmissions or retransmitted twice, a
\* live server's application reads the segments in order, each once
\* (tcp_in.c:202-252).
THEOREM DeliversInOrder == Spec => []InOrderDelivery
<1>1. IInv => InOrderDelivery
  BY DEF IInv, ReceiverInv, InOrderDelivery
<1>2. QED
  BY <1>1, Inductive, PTL

\* tcp_sndbuf_pop (tcp_in.c:95) forgets only what the receiver has written to
\* its ring buffer.
THEOREM ForgetsOnlyReceived == Spec => []AckedReceived
<1>1. IInv => AckedReceived
  <2>1. SUFFICES ASSUME IInv PROVE AckedReceived
    OBVIOUS
  <2>2. snd_una <= rcv_nxt /\ rcv_nxt <= Expected /\ Expected <= Len(rcvd) + 1
    BY <2>1 DEF IInv, NetInv, ReceiverInv
  <2>3. /\ snd_una \in Nat /\ rcv_nxt \in Nat /\ Expected \in Nat /\ Len(rcvd) \in Nat /\ N \in Nat
        /\ snd_una <= N + 1
    BY <2>1, ConstantsOK
       DEF IInv, TypeOK, SenderTypeOK, ServerTypeOK, SenderInv, Expected, ConstantsOK
  <2>4. QED
    BY <2>2, <2>3 DEF AckedReceived, Smaller
<1>2. QED
  BY <1>1, Inductive, PTL

\* send_buf holds exactly the unacknowledged segments, in order, although two
\* threads change it (tcp_sock.c:438-466).
THEOREM QueueIsComplete == Spec => []SendBufComplete
<1>1. IInv => SendBufComplete
  BY DEF IInv, SenderInv
<1>2. QED
  BY <1>1, Inductive, PTL

\* inflight counts them (tcp_sock.c:450-452, 461-463).
THEOREM InflightIsExact == Spec => []InflightCounts
<1>1. IInv => InflightCounts
  BY DEF IInv, SenderInv
<1>2. QED
  BY <1>1, Inductive, PTL

\* Fast recovery and loss recovery have a recovery point that an ACK can reach
\* (tcp_in.c:72-76, 120-134, tcp_timer.c:47-51).
THEOREM RecoveryEnds == Spec => []RecoveryReachable
<1>1. IInv => RecoveryReachable
  BY DEF IInv, RecoveryInv, RecoveryReachable
<1>2. QED
  BY <1>1, Inductive, PTL

\* No wake-up of the writing application is lost (synch_wait.h:40-72).
THEOREM NoLostWakeup == Spec => []SleeperHasWaker
<1>1. IInv => SleeperHasWaker
  BY DEF IInv, WakeInv, SleeperHasWaker
<1>2. QED
  BY <1>1, Inductive, PTL
-----------------------------------------------------------------------------
(* The refinement.                                                          *)

\* Up to the SYN and the FIN the counters of the stream are the sender's.
LEMMA Counters ==
  ASSUME IInv
  PROVE  /\ Smaller(snd_nxt, N + 1) = snd_nxt /\ Smaller(snd_una, N + 1) = snd_una
         /\ snd_nxt \in Nat /\ snd_una \in Nat /\ snd_nxt <= N + 1
BY ConstantsOK DEF IInv, TypeOK, SenderTypeOK, SenderInv, Smaller, ConstantsOK

\* The transfer starts as an empty stream.
LEMMA InitRefines == Init => Stream!Init
BY ConstantsOK, FileTransfer DEF Init, Stream!Init, Smaller, ConstantsOK, FileTransfer

\* A step that leaves the numbers, the data and the hosts alone is a stutter.
LEMMA Stutters ==
  ASSUME UNCHANGED <<snd_nxt, snd_una, rcvd, crashed>>
  PROVE  UNCHANGED Stream!vars
BY DEF Stream!vars, Smaller

\* Numbering a segment is the stream's write.
LEMMA StampRefines == ASSUME IInv, Stamp, crashed = "none" PROVE Stream!Write
<1>1. /\ snd_nxt <= N /\ snd_nxt' = snd_nxt + 1 /\ snd_una' = snd_una /\ rcvd' = rcvd
      /\ crashed' = crashed
  BY DEF IInv, SenderInv, Stamp, writerFrame, serverVars
<1>2. Smaller(snd_nxt', N + 1) = snd_nxt + 1
  BY <1>1, Counters, ConstantsOK DEF Smaller, ConstantsOK
<1>3. QED
  BY <1>1, <1>2, Counters, ConstantsOK DEF Stream!Write, ConstantsOK

\* Popping an entry is the stream's acknowledgement.
LEMMA PopRefines == ASSUME IInv, Pop, crashed = "none" PROVE Stream!Acknowledge
<1>1. /\ snd_nxt' = snd_nxt /\ rcvd' = rcvd /\ crashed' = crashed
      /\ snd_una' = send_buf[1].end /\ snd_una' <= cb.ack
  BY DEF Pop, ackFrame, serverVars
<1>2. send_buf # <<>> /\ 1 \in 1..Len(send_buf)
  BY DEF IInv, SenderInv, Pop, TypeOK, SenderTypeOK
<1>3. snd_una' = snd_una + 1
  BY <1>1, <1>2, StoredPacket
<1>4. IInv'
  BY PopStep
<1>5. Smaller(snd_una', N + 1) = snd_una + 1
  BY <1>3, <1>4, ConstantsOK DEF IInv, TypeOK, SenderTypeOK, SenderInv, Smaller, ConstantsOK
<1>6. snd_una + 1 <= Len(rcvd) + 1
  BY <1>1, <1>3 DEF IInv, TypeOK, SenderTypeOK, RenoTypeOK, ServerTypeOK, NetInv, ReceiverInv, Expected, Acks
<1>7. Len(rcvd) \in Nat
  BY DEF IInv, TypeOK, ServerTypeOK
<1>8. QED
  BY <1>1, <1>5, <1>6, <1>7, Counters DEF Stream!Acknowledge

\* The next segment goes to the ring buffer.
LEMMA DeliverRefines ==
  ASSUME IInv, crashed = "none", Expected < snd_nxt, rcvd' = Append(rcvd, Expected),
         UNCHANGED <<snd_nxt, snd_una, crashed>>
  PROVE  Stream!Deliver
<1>1. Len(rcvd) = Expected - 1 /\ Expected \in Nat
  BY DEF IInv, ReceiverInv, Expected, TypeOK, ServerTypeOK
<1>2. QED
  BY <1>1, Counters DEF Stream!Deliver

\* A step of the server's IP thread delivers, fails or stutters.
LEMMA ServerRefines ==
  ASSUME IInv, ServerIp, crashed = "none"
  PROVE  Stream!Next \/ UNCHANGED Stream!vars
<1> USE DEF rcvFrame, sendVars
<1>1. CASE RcvInOrder
  <2>1. Expected = rcv_nxt /\ rcv_nxt < snd_nxt
    BY <1>1, SegmentAtHead DEF RcvInOrder, Arrives, Expected
  <2>2. QED
    BY <1>1, <2>1, DeliverRefines DEF RcvInOrder, Stream!Next
<1>2. CASE RcvFlush
  <2>1. PICK e \in ofo : /\ e <= seq_end /\ rcvd' = Append(rcvd, e)
    BY <1>2 DEF RcvFlush
  <2>2. Expected = seq_end /\ e = Expected /\ Expected < snd_nxt
    BY <1>2, <2>1 DEF RcvFlush, Expected, IInv, TypeOK, SenderTypeOK, ServerTypeOK, ReceiverInv
  <2>3. QED
    BY <1>2, <2>1, <2>2, DeliverRefines DEF RcvFlush, netVars, Stream!Next
<1>3. CASE RcvStale
  <2>1. crashed' = "server" /\ UNCHANGED <<snd_nxt, snd_una>>
    BY <1>3 DEF RcvStale
  <2>2. Stream!Fail
    BY <2>1 DEF Stream!Fail, Smaller
  <2>3. QED
    BY <2>2 DEF Stream!Next
<1>4. CASE RcvDone \/ RcvOfo \/ RcvOld
  BY <1>4, Stutters DEF RcvDone, RcvOfo, RcvOld, serverVars
<1>5. ~RcvSyn /\ ~RcvFin
  BY SegmentAtHead DEF RcvSyn, RcvFin, Arrives
<1>6. QED
  BY <1>1, <1>2, <1>3, <1>4, <1>5 DEF ServerIp

\* Every step is a step of the stream or a stutter.
LEMMA NextRefines == IInv /\ [Next]_vars => [Stream!Next]_(Stream!vars)
<1> SUFFICES ASSUME IInv, [Next]_vars
             PROVE  Stream!Next \/ UNCHANGED Stream!vars
  OBVIOUS
<1>1. CASE Writer
  <2>1. CASE Stamp
    BY <1>1, <2>1, StampRefines DEF Writer, Stream!Next
  <2>2. CASE StoreWnd \/ Push \/ Count \/ Emit \/ Check \/ SleepOn \/ Woken
    BY <2>2, Stutters
       DEF StoreWnd, Push, Count, Emit, Check, SleepOn, Woken, writerFrame, sendVars, serverVars
  <2>3. QED
    BY <1>1, <2>1, <2>2, FileTransfer DEF Writer, Close, FileTransfer
<1>2. CASE ClientIp
  <2>1. CASE Pop
    BY <1>2, <2>1, PopRefines DEF ClientIp, Stream!Next
  <2>2. CASE AckWild
    <3>1. crashed' = "client" /\ UNCHANGED <<snd_nxt, snd_una>>
      BY <2>2 DEF AckWild, sendVars
    <3>2. Stream!Fail
      BY <1>2, <3>1 DEF ClientIp, Stream!Fail, Smaller
    <3>3. QED
      BY <3>2 DEF Stream!Next
  <2>3. CASE DupAck \/ NewAck \/ AckDone \/ SkipAckFin
    BY <2>3, Stutters DEF DupAck, NewAck, AckDone, SkipAckFin, ackFrame, sendVars, serverVars
  <2>4. QED
    BY <1>2, <2>1, <2>2, <2>3 DEF ClientIp
<1>3. CASE Timer
  BY <1>3, Stutters
     DEF Timer, ScanStart, Expire, PassOver, scanFrame, sendVars, serverVars
<1>4. CASE ServerIp
  BY <1>4, ServerRefines DEF ServerIp
<1>5. CASE UNCHANGED vars
  BY <1>5, Stutters DEF vars, sendVars, serverVars
<1>6. QED
  BY <1>1, <1>2, <1>3, <1>4, <1>5 DEF Next, Finished

\* The transfer implements the reliable stream: numbering a segment is its
\* write, the ring buffer its delivery, tcp_sndbuf_pop its acknowledgement.
THEOREM TransferRefines == Spec => ImplementsStream
<1>1. QED
  BY InitRefines, NextRefines, Inductive, PTL DEF Spec, ImplementsStream, Stream!Spec
=============================================================================
