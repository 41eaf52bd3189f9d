----------------------------- MODULE TcpReceive -----------------------------
(***************************************************************************)
(* The receive buffer of a TCP socket (16-tcp_stack, Lab14 and Lab15): the  *)
(* IP thread writes payloads to the ring buffer in the PSH|ACK branch of    *)
(* tcp_process, the application takes them out in tcp_sock_read.  The two   *)
(* threads share head, tail, rcv_wnd and the struct synch_wait wait_recv;   *)
(* only the reader ever takes rcv_buf->lock.                                *)
(*                                                                          *)
(* Bytes are numbered in the order of the stream.  What is delivered, and   *)
(* in which order, is the business of TcpTransfer: here every packet brings *)
(* the payloads it makes contiguous, its own and those of rcv_ofo_buf.      *)
(***************************************************************************)
EXTENDS Integers, Sequences

CONSTANTS
  Size,      \* bytes the buffer can hold, TCP_DEFAULT_WINDOW
  ReadLen,   \* the len of every tcp_sock_read
  Packets    \* per in-order packet, the lengths of the payloads it delivers

ASSUME SizesOK ==
  /\ Size \in Nat \ {0} /\ ReadLen \in Nat \ {0}
  /\ Packets \in Seq(Seq(1..Size))

\* One slot stays empty.  rcv_wnd is a u16 and Size is 2^16 - 1.
Slots  == Size + 1
WndMod == Size + 1

Threads == {"reader", "ip"}

VARIABLES
  place,               \* where each thread stands
  head, tail, buf,     \* struct ring_buffer
  rcv_wnd, tmp,        \* the window, and the value a thread read for += or -=
  wait_recv,           \* struct synch_wait
  signalled,           \* threads pthread_cond_signal has chosen
  wait_read,           \* notified, of a struct nobody sleeps on
  rlen, out,           \* the reader's len, the bytes handed to the application
  arrived, pending     \* packets taken up, payloads left of the packet at hand

ringVars   == <<head, tail, buf>>
windowVars == <<rcv_wnd, tmp>>
waitVars   == <<wait_recv, signalled>>
readerVars == <<rlen, out>>
ipVars     == <<arrived, pending, wait_read>>
vars == <<place, ringVars, windowVars, waitVars, readerVars, ipVars>>

Init ==
  /\ place = [reader |-> "test", ip |-> "idle"]
  /\ head = 0 /\ tail = 0 /\ buf = [i \in 0..Size |-> 0]
  /\ rcv_wnd = Size /\ tmp = [t \in Threads |-> 0]
  /\ wait_recv = [notified |-> FALSE, sleep |-> FALSE] /\ signalled = {}
  /\ wait_read = FALSE
  /\ rlen = 0 /\ out = <<>>
  /\ arrived = 0 /\ pending = <<>>

Go(t, from, to) == place[t] = from /\ place' = [place EXCEPT ![t] = to]
-----------------------------------------------------------------------------
(* ring_buffer.h                                                            *)

Used == (tail - head + Slots) % Slots
Free == Slots - Used - 1

\* The n bytes from slot h on, wrapping around.
Bytes(h, n) == [i \in 1..n |-> buf[(h + i - 1) % Slots]]

\* How many bytes have been written before.
Written == Len(out) + (IF place["reader"] = "advance" THEN Used - rlen ELSE Used)
-----------------------------------------------------------------------------
(* synch_wait.h                                                             *)

Clear == [notified |-> FALSE, sleep |-> FALSE]

Waiting == {t \in Threads : place[t] = "wait"} \ signalled

\* wake_up: signal one waiter, unless a notification is already pending.
WakeUp ==
  IF wait_recv.notified THEN UNCHANGED waitVars
  ELSE /\ wait_recv' = [wait_recv EXCEPT !.notified = TRUE]
       /\ IF wait_recv.sleep /\ Waiting # {}
          THEN \E t \in Waiting : signalled' = signalled \union {t}
          ELSE UNCHANGED signalled

\* sleep_on: the flags are shared, so whoever leaves clears them for both.
SleepOn(t) ==
  /\ place[t] = "sleep"
  /\ IF wait_recv.notified
     THEN wait_recv' = Clear /\ place' = [place EXCEPT ![t] = "test"]
     ELSE wait_recv' = [wait_recv EXCEPT !.sleep = TRUE] /\ place' = [place EXCEPT ![t] = "wait"]
  /\ UNCHANGED <<ringVars, windowVars, signalled, readerVars, ipVars>>

\* Slip: an if where tcp_process loops, so the IP thread writes once woken.
WokenWrites(t) ==
  /\ t \in signalled /\ Go(t, "wait", IF t = "ip" THEN "copy" ELSE "test")
  /\ signalled' = signalled \ {t} /\ wait_recv' = Clear
  /\ UNCHANGED <<ringVars, windowVars, readerVars, ipVars>>

\* pthread_cond_wait returns; its callers loop back to their test.
Woken(t) ==
  /\ t \in signalled /\ Go(t, "wait", "test")
  /\ signalled' = signalled \ {t} /\ wait_recv' = Clear
  /\ UNCHANGED <<ringVars, windowVars, readerVars, ipVars>>

\* rcv_wnd += and -= are a load and a store.
LoadWnd(t) ==
  /\ Go(t, "load", "store")
  /\ tmp' = [tmp EXCEPT ![t] = rcv_wnd]
  /\ UNCHANGED <<ringVars, rcv_wnd, waitVars, readerVars, ipVars>>
-----------------------------------------------------------------------------
(* The application: tcp_sock_read, over and over.                           *)

RTest ==
  /\ place["reader"] = "test"
  /\ place' = [place EXCEPT !["reader"] = IF Used = 0 THEN "sleep" ELSE "measure"]
  /\ UNCHANGED <<ringVars, windowVars, waitVars, readerVars, ipVars>>

\* min(ring_buffer_used(rbuf), size): the macro evaluates the smaller again.
RMeasure ==
  /\ place["reader"] = "measure"
  /\ IF Used < ReadLen
     THEN place' = [place EXCEPT !["reader"] = "remeasure"] /\ UNCHANGED rlen
     ELSE place' = [place EXCEPT !["reader"] = "copy"] /\ rlen' = ReadLen
  /\ UNCHANGED <<ringVars, windowVars, waitVars, out, ipVars>>

RRemeasure ==
  /\ Go("reader", "remeasure", "copy") /\ rlen' = Used
  /\ UNCHANGED <<ringVars, windowVars, waitVars, out, ipVars>>

RCopy ==
  /\ Go("reader", "copy", "advance") /\ out' = out \o Bytes(head, rlen)
  /\ UNCHANGED <<ringVars, windowVars, waitVars, rlen, ipVars>>

\* Slip: head moves by the length asked for.
RAdvanceLen ==
  /\ Go("reader", "advance", "load") /\ head' = (head + ReadLen) % Slots
  /\ UNCHANGED <<tail, buf, windowVars, waitVars, readerVars, ipVars>>

RAdvance ==
  /\ Go("reader", "advance", "load") /\ head' = (head + rlen) % Slots
  /\ UNCHANGED <<tail, buf, windowVars, waitVars, readerVars, ipVars>>

RStoreWnd ==
  /\ Go("reader", "store", "spin")
  /\ rcv_wnd' = (tmp["reader"] + rlen) % WndMod
  /\ rlen' = 0 /\ tmp' = [tmp EXCEPT !["reader"] = 0]
  /\ UNCHANGED <<ringVars, waitVars, out, ipVars>>

\* while (tsk->wait_recv->sleep != 0);
RSpin ==
  /\ Go("reader", "spin", "wake") /\ ~wait_recv.sleep
  /\ UNCHANGED <<ringVars, windowVars, waitVars, readerVars, ipVars>>

RWake ==
  /\ Go("reader", "wake", "test") /\ WakeUp
  /\ UNCHANGED <<ringVars, windowVars, readerVars, ipVars>>

Reader ==
  \/ RTest \/ RMeasure \/ RRemeasure \/ RCopy \/ RAdvance \/ LoadWnd("reader") \/ RStoreWnd
  \/ RSpin \/ RWake \/ SleepOn("reader") \/ Woken("reader")
-----------------------------------------------------------------------------
(* The IP thread: an in-order PSH|ACK packet in tcp_process.                *)

IpPacket ==
  /\ arrived < Len(Packets) /\ Packets[arrived + 1] # <<>>
  /\ Go("ip", "idle", "test")
  /\ arrived' = arrived + 1 /\ pending' = Packets[arrived + 1]
  /\ UNCHANGED <<ringVars, windowVars, waitVars, readerVars, wait_read>>

\* Slip: wait only for a full buffer, as Lab12 did.
IpTestFull ==
  /\ place["ip"] = "test"
  /\ IF Free = 0
     THEN place' = [place EXCEPT !["ip"] = "sleep"] /\ wait_read' = TRUE
     ELSE place' = [place EXCEPT !["ip"] = "copy"] /\ UNCHANGED wait_read
  /\ UNCHANGED <<ringVars, windowVars, waitVars, readerVars, arrived, pending>>

\* while (ring_buffer_free(...) < size): wake_up(wait_read), sleep_on(wait_recv).
IpTest ==
  /\ place["ip"] = "test"
  /\ IF Free < pending[1]
     THEN place' = [place EXCEPT !["ip"] = "sleep"] /\ wait_read' = TRUE
     ELSE place' = [place EXCEPT !["ip"] = "copy"] /\ UNCHANGED wait_read
  /\ UNCHANGED <<ringVars, windowVars, waitVars, readerVars, arrived, pending>>

\* write_ring_buffer: the bytes first, then tail.
IpCopy ==
  /\ Go("ip", "copy", "advance")
  /\ buf' = [i \in 0..Size |->
               LET k == (i - tail + Slots) % Slots
               IN IF k < pending[1] THEN Written + k + 1 ELSE buf[i]]
  /\ UNCHANGED <<head, tail, windowVars, waitVars, readerVars, ipVars>>

IpAdvance ==
  /\ Go("ip", "advance", "load") /\ tail' = (tail + pending[1]) % Slots
  /\ UNCHANGED <<head, buf, windowVars, waitVars, readerVars, ipVars>>

\* Slip: a signed rcv_wnd.
IpStoreWndSigned ==
  /\ Go("ip", "store", IF Len(pending) = 1 THEN "check" ELSE "test")
  /\ rcv_wnd' = tmp["ip"] - pending[1]
  /\ pending' = Tail(pending) /\ tmp' = [tmp EXCEPT !["ip"] = 0]
  /\ UNCHANGED <<ringVars, waitVars, readerVars, arrived, wait_read>>

\* The payload is done; so is the walk of rcv_ofo_buf after the last one.
IpStoreWnd ==
  /\ Go("ip", "store", IF Len(pending) = 1 THEN "check" ELSE "test")
  /\ rcv_wnd' = (tmp["ip"] - pending[1] + WndMod) % WndMod
  /\ pending' = Tail(pending) /\ tmp' = [tmp EXCEPT !["ip"] = 0]
  /\ UNCHANGED <<ringVars, waitVars, readerVars, arrived, wait_read>>

\* if (tsk->wait_recv->sleep), read without wait_recv's lock.
IpCheck ==
  /\ place["ip"] = "check"
  /\ place' = [place EXCEPT !["ip"] = IF wait_recv.sleep THEN "wake" ELSE "idle"]
  /\ UNCHANGED <<ringVars, windowVars, waitVars, readerVars, ipVars>>

IpWake ==
  /\ Go("ip", "wake", "idle") /\ WakeUp
  /\ UNCHANGED <<ringVars, windowVars, readerVars, ipVars>>

Ip ==
  \/ IpPacket \/ IpTest \/ IpCopy \/ IpAdvance \/ LoadWnd("ip") \/ IpStoreWnd
  \/ IpCheck \/ IpWake \/ SleepOn("ip") \/ Woken("ip")
-----------------------------------------------------------------------------
Next == Reader \/ Ip

Spec == Init /\ [][Next]_vars

\* Both threads are scheduled.
Fairness == WF_vars(Reader) /\ WF_vars(Ip)

FairSpec == Spec /\ Fairness
-----------------------------------------------------------------------------
(* Properties.                                                              *)

Places == {"idle", "test", "sleep", "wait", "measure", "remeasure", "copy", "advance",
           "load", "store", "spin", "check", "wake"}

\* Every variable has its type.
TypeOK ==
  /\ place \in [Threads -> Places]
  /\ head \in 0..Size /\ tail \in 0..Size /\ buf \in [0..Size -> Nat]
  /\ rcv_wnd \in 0..Size /\ tmp \in [Threads -> 0..Size]
  /\ wait_recv \in [notified : BOOLEAN, sleep : BOOLEAN] /\ signalled \subseteq Threads
  /\ wait_read \in BOOLEAN
  /\ rlen \in 0..Size /\ out \in Seq(Nat)
  /\ arrived \in 0..Len(Packets) /\ pending \in Seq(1..Size)

\* The assertion in write_ring_buffer (ring_buffer.h:82): room found before it
\* is still there, whatever the reader did in between.
WriteFits == place["ip"] \in {"copy", "advance"} => pending[1] <= Free

\* The unread bytes between head and tail are not touched by a write, so the
\* application reads the stream in order, each byte once.
ReadsInOrder == \A i \in 1..Len(out) : out[i] = i

\* The ring buffer and its two unsynchronised indices implement a queue.
Queue == INSTANCE BoundedQueue WITH
  Capacity <- Size,
  contents <- Bytes(head, Used),
  taken    <- IF place["reader"] = "advance" THEN SubSeq(out, 1, Len(out) - rlen) ELSE out
ImplementsQueue == Queue!Spec
-----------------------------------------------------------------------------
(* What comments and reports say and the code does not keep.                *)

\* tcp_sock_read hands over at most the len bytes asked for.
ReadWithinLen == rlen <= ReadLen

\* rcv_wnd is "the size of receiving window" (tcp_sock.h:131): the free room,
\* whenever neither thread is between moving an index and storing rcv_wnd.
Accounted ==
  /\ place["reader"] \notin {"load", "store"}
  /\ place["ip"] \notin {"load", "store"}
WindowIsFree == Accounted => rcv_wnd = Free

\* After the write, the thread that sleeps because the buffer was empty is
\* woken (Lab12 report, line 40).
EmptyWakes == (place["reader"] = "wait" /\ Used > 0) ~> place["reader"] # "wait"

\* After a read, the thread that waits because the buffer was full is woken
\* (Lab12 report, line 81).
FullWakes == (place["ip"] = "wait" /\ Used < Size) ~> place["ip"] # "wait"
=============================================================================
