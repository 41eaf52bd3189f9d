-------------------------- MODULE TcpReceiveProofs --------------------------
(***************************************************************************)
(* Proofs about TcpReceive, for every size of the buffer, every length of   *)
(* the reads and every stream of packets: the reader and the IP thread,     *)
(* which share no lock, use the ring as a bounded queue.                    *)
(***************************************************************************)
EXTENDS TcpReceive, SequenceTheorems, TLAPS

\* The bytes the application has had when head says so.
Base == IF place["reader"] = "advance" THEN Len(out) - rlen ELSE Len(out)

ReaderPlaces == {"test", "sleep", "wait", "measure", "remeasure", "copy", "advance",
                 "load", "store", "spin", "wake"}
IpPlaces == {"idle", "test", "sleep", "wait", "copy", "advance", "load", "store", "check", "wake"}

\* Where the threads stand: a length or a payload at hand is known to fit.
PlaceInv ==
  /\ place["reader"] \in ReaderPlaces /\ place["ip"] \in IpPlaces
  /\ \A t \in signalled : place[t] = "wait"
  /\ place["ip"] \notin {"idle", "check", "wake"} => pending # <<>>
  /\ place["reader"] \notin {"copy", "advance", "load", "store"} => rlen = 0
  /\ place["reader"] \in {"copy", "advance"} => rlen <= Used
  /\ WriteFits

\* What the slots hold.
DataInv ==
  /\ ReadsInOrder
  /\ place["reader"] = "advance" => rlen <= Len(out)
  /\ \A i \in 1..Used : buf[(head + i - 1) % Slots] = Base + i
  /\ place["ip"] = "advance" =>
       \A i \in 1..pending[1] : buf[(tail + i - 1) % Slots] = Base + Used + i

IInv == TypeOK /\ PlaceInv /\ DataInv

-----------------------------------------------------------------------------
\* The payload at hand and the ones after it.
LEMMA FirstOf ==
  ASSUME NEW S, NEW s \in Seq(S), s # <<>>
  PROVE  s[1] \in S /\ Tail(s) \in Seq(S) /\ (Len(s) # 1 => Tail(s) # <<>>)
<1>1. Len(s) \in Nat \ {0}
  BY EmptySeq
<1>2. s[1] \in S
  BY <1>1, ElementOfSeq
<1>3. Tail(s) \in Seq(S) /\ Len(Tail(s)) = Len(s) - 1
  BY HeadTailProperties
<1>4. ASSUME Len(s) # 1
      PROVE  Tail(s) # <<>>
  <2>1. Len(Tail(s)) # 0
    BY <1>1, <1>3, <1>4
  <2>2. Len(<<>>) = 0
    OBVIOUS
  <2>3. QED
    BY <2>1, <2>2, Zenon
<1>5. QED
  BY <1>2, <1>3, <1>4

\* One turn around the ring.
LEMMA Wrap ==
  ASSUME NEW x \in Int, 0 <= x, x < 2 * Slots
  PROVE  x % Slots = IF x < Slots THEN x ELSE x - Slots
<1>1. Slots \in Nat /\ Slots > 0
  BY SizesOK DEF Slots
<1> HIDE DEF Slots
<1>2. CASE x < Slots
  BY <1>1, <1>2
<1>3. CASE x >= Slots
  BY <1>1, <1>3
<1>4. QED
  BY <1>1, <1>2, <1>3

LEMMA Distance ==
  ASSUME NEW h \in 0..Size, NEW t \in 0..Size
  PROVE  (t - h + Slots) % Slots = IF h <= t THEN t - h ELSE t - h + Slots
<1>1. Size \in Nat /\ Slots = Size + 1
  BY SizesOK DEF Slots
<1> DEFINE x == t - h + Slots
<1>2. x \in Int /\ 0 <= x /\ x < 2 * Slots
  BY <1>1
<1>3. x % Slots = IF x < Slots THEN x ELSE x - Slots
  <2> HIDE DEF x
  <2> QED
    BY <1>2, Wrap
<1>4. QED
  BY <1>1, <1>3

LEMMA UsedIs ==
  ASSUME TypeOK
  PROVE  /\ Used = IF head <= tail THEN tail - head ELSE tail - head + Slots
         /\ Used \in 0..Size /\ Free = Size - Used /\ Free \in 0..Size
<1>1. Size \in Nat /\ Slots = Size + 1 /\ head \in 0..Size /\ tail \in 0..Size
  BY SizesOK DEF TypeOK, Slots
<1>2. Used = IF head <= tail THEN tail - head ELSE tail - head + Slots
  BY <1>1, Distance DEF Used
<1>3. QED
  BY <1>1, <1>2 DEF Free

\* The slot that lies n behind slot h.
LEMMA SlotIs ==
  ASSUME NEW h \in 0..Size, NEW n \in 0..Size
  PROVE  /\ (h + n) % Slots = IF h + n <= Size THEN h + n ELSE h + n - Slots
         /\ (h + n) % Slots \in 0..Size
<1>1. Size \in Nat /\ Slots = Size + 1
  BY SizesOK DEF Slots
<1> DEFINE x == h + n
<1>2. x \in Int /\ 0 <= x /\ x < 2 * Slots
  BY <1>1
<1>3. x % Slots = IF x < Slots THEN x ELSE x - Slots
  <2> HIDE DEF x
  <2> QED
    BY <1>2, Wrap
<1>4. QED
  BY <1>1, <1>3

-----------------------------------------------------------------------------
LEMMA InitInv == Init => IInv
<1> SUFFICES ASSUME Init PROVE IInv
  OBVIOUS
<1>1. TypeOK
  <2>1. Size \in Nat /\ Len(Packets) \in Nat
    BY SizesOK
  <2>2. /\ place \in [Threads -> Places] /\ tmp \in [Threads -> 0..Size]
        /\ buf \in [0..Size -> Nat]
    BY <2>1 DEF Init, Threads, Places
  <2>3. out \in Seq(Nat) /\ pending \in Seq(1..Size)
    BY DEF Init
  <2>4. /\ head \in 0..Size /\ tail \in 0..Size /\ rcv_wnd \in 0..Size /\ rlen \in 0..Size
        /\ arrived \in 0..Len(Packets)
    BY <2>1 DEF Init
  <2>5. wait_recv \in [notified : BOOLEAN, sleep : BOOLEAN] /\ signalled \subseteq Threads
        /\ wait_read \in BOOLEAN
    BY DEF Init
  <2>6. QED
    BY <2>2, <2>3, <2>4, <2>5 DEF TypeOK
<1>2. Used = 0
  BY <1>1, UsedIs DEF Init
<1>3. PlaceInv
  BY DEF Init, PlaceInv, ReaderPlaces, IpPlaces, WriteFits
<1>4. DataInv
  BY <1>2 DEF Init, DataInv, ReadsInOrder
<1>5. QED
  BY <1>1, <1>3, <1>4 DEF IInv

-----------------------------------------------------------------------------
\* The steps of the reader.
LEMMA SleepType ==
  ASSUME TypeOK, NEW t \in Threads, SleepOn(t) \/ Woken(t)
  PROVE  TypeOK'
<1>1. CASE SleepOn(t)
  <2>1. place' \in [Threads -> Places]
    BY <1>1 DEF SleepOn, TypeOK, Threads, Places
  <2>2. wait_recv' \in [notified : BOOLEAN, sleep : BOOLEAN]
    <3>1. wait_recv' = Clear \/ wait_recv' = [wait_recv EXCEPT !.sleep = TRUE]
      BY <1>1 DEF SleepOn
    <3>2. Clear \in [notified : BOOLEAN, sleep : BOOLEAN]
      BY DEF Clear
    <3>3. [wait_recv EXCEPT !.sleep = TRUE] \in [notified : BOOLEAN, sleep : BOOLEAN]
      BY DEF TypeOK
    <3>4. QED
      BY <3>1, <3>2, <3>3
  <2>3. QED
    BY <1>1, <2>1, <2>2 DEF SleepOn, TypeOK, ringVars, windowVars, readerVars, ipVars
<1>2. CASE Woken(t)
  <2>1. place' \in [Threads -> Places]
    BY <1>2 DEF Woken, Go, TypeOK, Threads, Places
  <2>2. wait_recv' \in [notified : BOOLEAN, sleep : BOOLEAN] /\ signalled' \subseteq Threads
    BY <1>2 DEF Woken, Clear, TypeOK
  <2>3. QED
    BY <1>2, <2>1, <2>2 DEF Woken, TypeOK, ringVars, windowVars, readerVars, ipVars
<1>3. QED
  BY <1>1, <1>2

LEMMA BytesType ==
  ASSUME TypeOK, NEW n \in 0..Size
  PROVE  Bytes(head, n) \in Seq(Nat) /\ Len(Bytes(head, n)) = n
<1>1. Size \in Nat /\ head \in 0..Size /\ buf \in [0..Size -> Nat]
  BY SizesOK DEF TypeOK
<1>2. ASSUME NEW i \in 1..n
      PROVE  buf[(head + i - 1) % Slots] \in Nat
  <2>1. i - 1 \in 0..Size /\ head + i - 1 = head + (i - 1)
    BY <1>1
  <2>2. (head + (i - 1)) % Slots \in 0..Size
    BY <1>1, <2>1, SlotIs
  <2>3. QED
    BY <1>1, <2>1, <2>2
<1>3. QED
  BY <1>1, <1>2 DEF Bytes

LEMMA ReaderType ==
  ASSUME IInv, Reader
  PROVE  TypeOK'
<1>1. TypeOK /\ Size \in Nat /\ ReadLen \in Nat /\ Used \in 0..Size
  BY SizesOK, UsedIs DEF IInv
<1>2. CASE RTest
  BY <1>1, <1>2 DEF RTest, TypeOK, Threads, Places, ringVars, windowVars, waitVars, readerVars, ipVars
<1>3. CASE RMeasure \/ RRemeasure
  <2>1. rlen' \in 0..Size
    BY <1>1, <1>3 DEF RMeasure, RRemeasure, TypeOK
  <2>2. place' \in [Threads -> Places]
    BY <1>1, <1>3 DEF RMeasure, RRemeasure, TypeOK, Go, Threads, Places
  <2>3. UNCHANGED <<ringVars, windowVars, waitVars, out, ipVars>>
    BY <1>3 DEF RMeasure, RRemeasure
  <2>4. QED
    BY <1>1, <2>1, <2>2, <2>3 DEF TypeOK, ringVars, windowVars, waitVars, ipVars
<1>4. CASE RCopy
  <2>1. out' \in Seq(Nat)
    <3>1. rlen \in 0..Size /\ out \in Seq(Nat) /\ out' = out \o Bytes(head, rlen)
      BY <1>1, <1>4 DEF TypeOK, RCopy
    <3>2. Bytes(head, rlen) \in Seq(Nat)
      BY <1>1, <3>1, BytesType
    <3>3. QED
      BY <3>1, <3>2
  <2>2. QED
    BY <1>1, <1>4, <2>1 DEF RCopy, TypeOK, Threads, Places, Go, ringVars, windowVars, waitVars, ipVars
<1>5. CASE RAdvance
  BY <1>1, <1>5, SlotIs DEF RAdvance, TypeOK, Threads, Places, Go, readerVars, windowVars, waitVars, ipVars
<1>6. CASE LoadWnd("reader")
  BY <1>1, <1>6 DEF LoadWnd, TypeOK, Threads, Places, Go, readerVars, ringVars, waitVars, ipVars
<1>7. CASE RStoreWnd
  <2>1. rcv_wnd' \in 0..Size
    <3>1. tmp["reader"] + rlen \in Nat
      BY <1>1 DEF TypeOK, Threads
    <3>2. QED
      BY <1>1, <1>7, <3>1 DEF RStoreWnd, WndMod
  <2>2. rlen' \in 0..Size /\ tmp' \in [Threads -> 0..Size]
    BY <1>1, <1>7 DEF RStoreWnd, TypeOK, Threads
  <2>3. place' \in [Threads -> Places]
    BY <1>1, <1>7 DEF RStoreWnd, TypeOK, Go, Threads, Places
  <2>4. UNCHANGED <<ringVars, waitVars, out, ipVars>>
    BY <1>7 DEF RStoreWnd
  <2>5. QED
    BY <1>1, <2>1, <2>2, <2>3, <2>4 DEF TypeOK, ringVars, waitVars, ipVars
<1>8. CASE RSpin \/ RWake
  BY <1>1, <1>8 DEF RSpin, RWake, WakeUp, Waiting, TypeOK, Threads, Places, Go, readerVars, ringVars, windowVars, waitVars, ipVars
<1>9. CASE SleepOn("reader") \/ Woken("reader")
  BY <1>1, <1>9, SleepType DEF Threads
<1>10. QED
  BY <1>2, <1>3, <1>4, <1>5, <1>6, <1>7, <1>8, <1>9 DEF Reader

\* The steps of the IP thread.
LEMMA IpType ==
  ASSUME IInv, Ip
  PROVE  TypeOK'
<1>1. TypeOK /\ PlaceInv /\ Size \in Nat /\ Used \in 0..Size
  BY SizesOK, UsedIs DEF IInv
<1>2. place["ip"] \notin {"idle", "check", "wake"} =>
        pending \in Seq(1..Size) /\ pending # <<>> /\ pending[1] \in 1..Size
        /\ Tail(pending) \in Seq(1..Size)
  BY <1>1 DEF PlaceInv, TypeOK
<1>3. CASE IpPacket
  <2>1. /\ pending' \in Seq(1..Size) /\ arrived' \in 0..Len(Packets)
    <3>1. arrived + 1 \in 1..Len(Packets) /\ Packets \in Seq(Seq(1..Size))
      BY <1>1, <1>3, SizesOK DEF IpPacket, TypeOK
    <3>2. Packets[arrived + 1] \in Seq(1..Size) /\ Len(Packets) \in Nat
      BY <3>1
    <3>3. QED
      BY <1>3, <3>1, <3>2 DEF IpPacket
  <2>2. place' \in [Threads -> Places]
    BY <1>1, <1>3 DEF IpPacket, TypeOK, Threads, Places, Go
  <2>3. QED
    BY <1>1, <1>3, <2>1, <2>2 DEF IpPacket, TypeOK, ringVars, windowVars, waitVars, readerVars
<1>4. CASE IpTest \/ IpCheck
  <2>1. place' \in [Threads -> Places]
    BY <1>1, <1>4 DEF IpTest, IpCheck, TypeOK, Threads, Places
  <2>2. wait_read' \in BOOLEAN /\ UNCHANGED <<ringVars, windowVars, waitVars, readerVars, arrived, pending>>
    BY <1>1, <1>4 DEF IpTest, IpCheck, TypeOK, ipVars
  <2>3. QED
    BY <1>1, <2>1, <2>2 DEF TypeOK, ringVars, windowVars, waitVars, readerVars
<1>5. CASE IpCopy
  <2>1. Written \in Nat
    <3>1. Len(out) \in Nat /\ rlen \in 0..Size /\ (place["reader"] = "advance" => rlen \in 0..Used)
      BY <1>1 DEF TypeOK, PlaceInv
    <3>2. QED
      BY <1>1, <3>1 DEF Written
  <2>2. buf' \in [0..Size -> Nat]
    <3> DEFINE slot(i) == (i - tail + Slots) % Slots
               val(i)  == IF slot(i) < pending[1] THEN Written + slot(i) + 1 ELSE buf[i]
    <3>1. buf' = [i \in 0..Size |-> val(i)]
      BY <1>5 DEF IpCopy
    <3>2. ASSUME NEW i \in 0..Size
          PROVE  val(i) \in Nat
      <4>1. slot(i) \in Nat
        <5> DEFINE x == i - tail + Slots
        <5>1. x \in Int /\ Slots \in Nat /\ Slots > 0
          BY <1>1 DEF TypeOK, Slots
        <5> HIDE DEF x
        <5>2. x % Slots \in Nat
          BY <5>1
        <5>3. QED
          BY <5>2 DEF x
      <4>2. buf[i] \in Nat
        BY <1>1 DEF TypeOK
      <4> HIDE DEF slot
      <4>3. Written + slot(i) + 1 \in Nat
        BY <2>1, <4>1
      <4>4. QED
        BY <4>2, <4>3
    <3> HIDE DEF val
    <3>3. QED
      BY <3>1, <3>2
  <2>3. QED
    BY <1>1, <1>5, <2>2 DEF IpCopy, TypeOK, Threads, Places, Go, readerVars, windowVars, waitVars, ipVars
<1>6. CASE IpAdvance
  <2>1. tail' \in 0..Size
    <3>1. tail \in 0..Size /\ pending[1] \in 0..Size
      BY <1>1, <1>2, <1>6 DEF IpAdvance, TypeOK, Go
    <3>2. QED
      BY <1>6, <3>1, SlotIs DEF IpAdvance
  <2>2. QED
    BY <1>1, <1>6, <2>1 DEF IpAdvance, TypeOK, Threads, Places, Go, readerVars, windowVars, waitVars, ipVars
<1>7. CASE LoadWnd("ip")
  BY <1>1, <1>7 DEF LoadWnd, TypeOK, Threads, Places, Go, readerVars, ringVars, waitVars, ipVars
<1>8. CASE IpStoreWnd
  <2>1. place["ip"] = "store" /\ pending[1] \in 1..Size /\ Tail(pending) \in Seq(1..Size)
    BY <1>2, <1>8 DEF IpStoreWnd, Go
  <2>2. rcv_wnd' \in 0..Size
    <3> DEFINE x == tmp["ip"] - pending[1] + WndMod
    <3>0. tmp["ip"] \in 0..Size
      BY <1>1 DEF TypeOK, Threads
    <3>1. x \in Nat
      BY <1>1, <2>1, <3>0 DEF WndMod
    <3>2. rcv_wnd' = x % WndMod
      BY <1>8 DEF IpStoreWnd
    <3> HIDE DEF x
    <3>3. QED
      BY <1>1, <3>1, <3>2 DEF WndMod
  <2>3. tmp' \in [Threads -> 0..Size] /\ place' \in [Threads -> Places]
    BY <1>1, <1>8 DEF IpStoreWnd, TypeOK, Go, Threads, Places
  <2>4. pending' \in Seq(1..Size)
    BY <1>8, <2>1 DEF IpStoreWnd
  <2>5. QED
    BY <1>1, <1>8, <2>2, <2>3, <2>4 DEF IpStoreWnd, TypeOK, ringVars, waitVars, readerVars
<1>9. CASE IpWake
  BY <1>1, <1>9 DEF IpWake, WakeUp, Waiting, TypeOK, Threads, Places, Go, readerVars, ringVars, windowVars, waitVars, ipVars
<1>10. CASE SleepOn("ip") \/ Woken("ip")
  BY <1>1, <1>10, SleepType DEF Threads
<1>11. QED
  BY <1>3, <1>4, <1>5, <1>6, <1>7, <1>8, <1>9, <1>10 DEF Ip

-----------------------------------------------------------------------------
\* What a step does to the room.
LEMMA SameRoom ==
  ASSUME head' = head, tail' = tail
  PROVE  Used' = Used /\ Free' = Free
BY DEF Used, Free

LEMMA TakeRoom ==
  ASSUME IInv, RAdvance
  PROVE  rlen \in 0..Used /\ Used' = Used - rlen /\ Free' = Free + rlen
<1>1. /\ Size \in Nat /\ Slots = Size + 1
      /\ head \in 0..Size /\ tail \in 0..Size /\ rlen \in 0..Size
      /\ Used = (IF head <= tail THEN tail - head ELSE tail - head + Slots)
      /\ Free = Size - Used
      /\ rlen <= Used
  BY SizesOK, UsedIs DEF IInv, TypeOK, PlaceInv, RAdvance, Go, Slots
<1>2. /\ head' = (IF head + rlen <= Size THEN head + rlen ELSE head + rlen - Slots)
      /\ head' \in 0..Size /\ tail' = tail
  BY <1>1, SlotIs DEF RAdvance
<1>3. Used' = IF head' <= tail THEN tail - head' ELSE tail - head' + Slots
  BY <1>1, <1>2, Distance DEF Used
<1>4. QED
  BY <1>1, <1>2, <1>3 DEF Free

LEMMA PutRoom ==
  ASSUME IInv, IpAdvance
  PROVE  /\ pending[1] \in 1..Size /\ pending[1] <= Free
         /\ Used' = Used + pending[1] /\ Free' = Free - pending[1]
<1>1. pending \in Seq(1..Size) /\ pending # <<>>
  BY DEF IInv, TypeOK, PlaceInv, IpAdvance, Go
<1>2. /\ Size \in Nat /\ Slots = Size + 1
      /\ head \in 0..Size /\ tail \in 0..Size /\ pending[1] \in 1..Size
      /\ Used = (IF head <= tail THEN tail - head ELSE tail - head + Slots)
      /\ Free = Size - Used
      /\ pending[1] <= Free
  <2>1. TypeOK /\ pending[1] <= Free
    BY DEF IInv, PlaceInv, WriteFits, IpAdvance, Go
  <2>2. pending[1] \in 1..Size
    BY <1>1, FirstOf
  <2>3. QED
    BY <2>1, <2>2, SizesOK, UsedIs DEF TypeOK, Slots
<1>3. /\ tail' = (IF tail + pending[1] <= Size THEN tail + pending[1] ELSE tail + pending[1] - Slots)
      /\ tail' \in 0..Size /\ head' = head
  <2>1. pending[1] \in 0..Size /\ tail' = (tail + pending[1]) % Slots /\ head' = head
    BY <1>2 DEF IpAdvance
  <2>2. QED
    BY <1>2, <2>1, SlotIs
<1>4. Used' = IF head <= tail' THEN tail' - head ELSE tail' - head + Slots
  BY <1>2, <1>3, Distance DEF Used
<1>5. QED
  BY <1>2, <1>3, <1>4 DEF Free

-----------------------------------------------------------------------------
\* A thread that goes to sleep or is woken holds no length and no payload.
LEMMA SleepPlace ==
  ASSUME IInv, NEW t \in Threads, SleepOn(t) \/ Woken(t)
  PROVE  PlaceInv'
<1>1. Used' = Used /\ Free' = Free
  BY SameRoom DEF SleepOn, Woken, ringVars
<1>2. /\ place \in [Threads -> Places] /\ signalled \subseteq Threads
      /\ PlaceInv
  BY DEF IInv, TypeOK
<1>3. UNCHANGED <<rlen, pending>>
  BY DEF SleepOn, Woken, readerVars, ipVars
<1>4. CASE SleepOn(t)
  BY <1>1, <1>2, <1>3, <1>4 DEF SleepOn, PlaceInv, WriteFits, Threads, ReaderPlaces, IpPlaces
<1>5. CASE Woken(t)
  BY <1>1, <1>2, <1>3, <1>5 DEF Woken, Go, PlaceInv, WriteFits, Threads, ReaderPlaces, IpPlaces
<1>6. QED
  BY <1>4, <1>5

\* A wake-up chooses a thread that waits.
LEMMA WakePlace ==
  ASSUME TypeOK, PlaceInv, WakeUp
  PROVE  \A t \in signalled' : place[t] = "wait"
BY DEF WakeUp, Waiting, PlaceInv, TypeOK, Threads, waitVars

LEMMA ReaderPlace ==
  ASSUME IInv, Reader
  PROVE  PlaceInv'
<1>1. /\ place \in [Threads -> Places] /\ signalled \subseteq Threads /\ rlen \in 0..Size
      /\ Size \in Nat /\ ReadLen \in Nat /\ Used \in 0..Size /\ Free = Size - Used
      /\ PlaceInv /\ TypeOK
  BY SizesOK, UsedIs DEF IInv, TypeOK
<1>2. CASE RTest \/ RSpin
  <2>1. /\ Used' = Used /\ Free' = Free
        /\ UNCHANGED <<rlen, pending, signalled>>
    BY <1>2, SameRoom DEF RTest, RSpin, ringVars, readerVars, ipVars, waitVars
  <2>2. QED
    BY <1>1, <1>2, <2>1 DEF RTest, RSpin, Go, PlaceInv, WriteFits, Threads, ReaderPlaces, IpPlaces
<1>3. CASE RMeasure \/ RRemeasure
  <2>1. /\ Used' = Used /\ Free' = Free
        /\ UNCHANGED <<pending, signalled>>
    BY <1>3, SameRoom DEF RMeasure, RRemeasure, ringVars, ipVars, waitVars
  <2>2. QED
    BY <1>1, <1>3, <2>1 DEF RMeasure, RRemeasure, Go, PlaceInv, WriteFits, Threads, ReaderPlaces, IpPlaces
<1>4. CASE RCopy \/ LoadWnd("reader") \/ RStoreWnd
  <2>1. /\ Used' = Used /\ Free' = Free
        /\ UNCHANGED <<pending, signalled>>
    BY <1>4, SameRoom DEF RCopy, LoadWnd, RStoreWnd, ringVars, ipVars, waitVars
  <2>2. QED
    BY <1>1, <1>4, <2>1 DEF RCopy, LoadWnd, RStoreWnd, readerVars, Go, PlaceInv, WriteFits, Threads, ReaderPlaces, IpPlaces
<1>5. CASE RAdvance
  <2>1. /\ Free' = Free + rlen /\ rlen \in 0..Used
        /\ UNCHANGED <<rlen, pending, signalled>>
    BY <1>5, TakeRoom DEF RAdvance, readerVars, ipVars, waitVars
  <2>2. place["ip"] \in {"copy", "advance"} => pending[1] \in Nat
    BY <1>1 DEF PlaceInv, TypeOK
  <2>3. QED
    BY <1>1, <1>5, <2>1, <2>2 DEF RAdvance, Go, PlaceInv, WriteFits, Threads, ReaderPlaces, IpPlaces
<1>6. CASE RWake
  <2>1. /\ Used' = Used /\ Free' = Free
        /\ UNCHANGED <<rlen, pending>>
    BY <1>6, SameRoom DEF RWake, ringVars, ipVars, readerVars
  <2>2. \A t \in signalled' : place[t] = "wait"
    BY <1>1, <1>6, WakePlace DEF RWake
  <2>3. signalled' \subseteq Threads
    BY <1>1, <1>6 DEF RWake, WakeUp, Waiting, waitVars
  <2>4. QED
    BY <1>1, <1>6, <2>1, <2>2, <2>3 DEF RWake, Go, PlaceInv, WriteFits, Threads, ReaderPlaces, IpPlaces
<1>7. CASE SleepOn("reader") \/ Woken("reader")
  BY <1>7, SleepPlace DEF Threads
<1>8. QED
  BY <1>2, <1>3, <1>4, <1>5, <1>6, <1>7 DEF Reader

LEMMA IpPlace ==
  ASSUME IInv, Ip
  PROVE  PlaceInv'
<1>1. /\ place \in [Threads -> Places] /\ signalled \subseteq Threads /\ rlen \in 0..Size
      /\ Size \in Nat /\ Used \in 0..Size /\ Free = Size - Used
      /\ PlaceInv /\ TypeOK /\ pending \in Seq(1..Size)
  BY SizesOK, UsedIs DEF IInv, TypeOK
<1>2. CASE IpPacket
  <2>1. /\ Used' = Used /\ Free' = Free /\ pending' # <<>>
        /\ UNCHANGED <<rlen, signalled>>
    BY <1>2, SameRoom DEF IpPacket, ringVars, readerVars, waitVars
  <2>2. QED
    BY <1>1, <1>2, <2>1 DEF IpPacket, Go, PlaceInv, WriteFits, Threads, ReaderPlaces, IpPlaces
<1>3. CASE IpTest \/ IpCheck
  <2>1. /\ Used' = Used /\ Free' = Free
        /\ UNCHANGED <<rlen, signalled, pending>>
    BY <1>3, SameRoom DEF IpTest, IpCheck, ringVars, readerVars, waitVars, ipVars
  <2>2. QED
    BY <1>1, <1>3, <2>1 DEF IpTest, IpCheck, Go, PlaceInv, WriteFits, Threads, ReaderPlaces, IpPlaces
<1>4. CASE IpCopy \/ LoadWnd("ip")
  <2>1. /\ Used' = Used /\ Free' = Free
        /\ UNCHANGED <<rlen, signalled, pending>>
    BY <1>4, SameRoom DEF IpCopy, LoadWnd, ringVars, readerVars, waitVars, ipVars
  <2>2. QED
    BY <1>1, <1>4, <2>1 DEF IpCopy, LoadWnd, Go, PlaceInv, WriteFits, Threads, ReaderPlaces, IpPlaces
<1>5. CASE IpAdvance
  <2>1. /\ Used' = Used + pending[1] /\ pending[1] \in 1..Size
        /\ UNCHANGED <<rlen, pending, signalled>>
    BY <1>5, PutRoom DEF IpAdvance, readerVars, ipVars, waitVars
  <2>2. QED
    BY <1>1, <1>5, <2>1 DEF IpAdvance, Go, PlaceInv, WriteFits, Threads, ReaderPlaces, IpPlaces
<1>6. CASE IpStoreWnd
  <2>1. /\ Used' = Used /\ Free' = Free /\ pending' = Tail(pending)
        /\ UNCHANGED <<rlen, signalled>>
    BY <1>6, SameRoom DEF IpStoreWnd, ringVars, readerVars, waitVars
  <2>2. pending # <<>> /\ (Len(pending) # 1 => pending' # <<>>)
    <3>1. pending # <<>>
      BY <1>1, <1>6 DEF IpStoreWnd, Go, PlaceInv
    <3>2. QED
      BY <1>1, <2>1, <3>1, FirstOf
  <2>3. QED
    BY <1>1, <1>6, <2>1, <2>2 DEF IpStoreWnd, Go, PlaceInv, WriteFits, Threads, ReaderPlaces, IpPlaces
<1>7. CASE IpWake
  <2>1. /\ Used' = Used /\ Free' = Free
        /\ UNCHANGED <<rlen, pending>>
    BY <1>7, SameRoom DEF IpWake, ringVars, ipVars, readerVars
  <2>2. \A t \in signalled' : place[t] = "wait"
    BY <1>1, <1>7, WakePlace DEF IpWake
  <2>3. signalled' \subseteq Threads
    BY <1>1, <1>7 DEF IpWake, WakeUp, Waiting, waitVars
  <2>4. QED
    BY <1>1, <1>7, <2>1, <2>2, <2>3 DEF IpWake, Go, PlaceInv, WriteFits, Threads, ReaderPlaces, IpPlaces
<1>8. CASE SleepOn("ip") \/ Woken("ip")
  BY <1>8, SleepPlace DEF Threads
<1>9. QED
  BY <1>2, <1>3, <1>4, <1>5, <1>6, <1>7, <1>8 DEF Ip

-----------------------------------------------------------------------------
\* The bytes in the ring and those taken, as the numbers they are.
LEMMA OutIs ==
  ASSUME IInv
  PROVE  /\ Len(out) \in Nat /\ Base \in Nat /\ Base <= Len(out)
         /\ \A i \in 1..Len(out) : out[i] = i
         /\ Written = Base + Used
<1>1. Len(out) \in Nat /\ rlen \in 0..Size /\ Used \in 0..Size /\ Size \in Nat
  BY SizesOK, UsedIs DEF IInv, TypeOK
<1>2. place["reader"] = "advance" => rlen <= Len(out)
  BY DEF IInv, DataInv
<1>3. QED
  BY <1>1, <1>2 DEF Base, Written, IInv, DataInv, ReadsInOrder

\* Steps that touch neither the slots, nor the bytes handed over, nor the indices.
LEMMA QuietData ==
  ASSUME IInv, UNCHANGED <<ringVars, out>>, Base' = Base,
         place'["reader"] = "advance" => rlen' <= Len(out),
         place'["ip"] = "advance" => place["ip"] = "advance" /\ pending' = pending
  PROVE  DataInv'
<1>1. Used' = Used
  BY SameRoom DEF ringVars
<1>2. QED
  BY <1>1 DEF IInv, DataInv, ReadsInOrder, ringVars

LEMMA SleepData ==
  ASSUME IInv, NEW t \in Threads, SleepOn(t) \/ Woken(t)
  PROVE  DataInv'
<1>1. /\ UNCHANGED <<ringVars, out, rlen, pending>>
      /\ place[t] # "advance" /\ place'[t] # "advance"
      /\ \A u \in Threads \ {t} : place'[u] = place[u]
  BY DEF SleepOn, Woken, Go, readerVars, ipVars, IInv, TypeOK
<1>2. Base' = Base
  BY <1>1 DEF Base, Threads
<1>3. place'["reader"] = "advance" => rlen' <= Len(out)
  BY <1>1 DEF Threads, IInv, DataInv
<1>4. QED
  BY <1>1, <1>2, <1>3, QuietData DEF Threads

\* Bytes leave at head: their numbers are the next ones of the stream.
LEMMA RCopyData ==
  ASSUME IInv, RCopy
  PROVE  DataInv'
<1> DEFINE bytes == Bytes(head, rlen)
<1>1. /\ Len(out) \in Nat /\ rlen \in 0..Used /\ Used \in 0..Size /\ Size \in Nat
      /\ \A i \in 1..Len(out) : out[i] = i
      /\ Base = Len(out)
      /\ TypeOK /\ place \in [Threads -> Places] /\ out \in Seq(Nat)
  <2>1. place["reader"] = "copy"
    BY DEF RCopy, Go
  <2>2. rlen \in 0..Size /\ rlen <= Used
    BY <2>1 DEF IInv, TypeOK, PlaceInv
  <2>3. Used \in 0..Size /\ Size \in Nat
    BY SizesOK, UsedIs DEF IInv
  <2>4. QED
    BY <2>1, <2>2, <2>3, OutIs DEF Base, IInv, TypeOK
<1>2. out' = out \o bytes /\ place' = [place EXCEPT !["reader"] = "advance"]
      /\ UNCHANGED <<ringVars, rlen, pending>>
  BY DEF RCopy, Go, ipVars
<1>3. \A i \in 1..rlen : bytes[i] = Len(out) + i
  BY <1>1 DEF Bytes, IInv, DataInv
<1>4. bytes \in Seq(Nat) /\ Len(bytes) = rlen
  BY <1>1, BytesType
<1> HIDE DEF bytes
<1>5. Len(out') = Len(out) + rlen
  <2>1. Len(out \o bytes) = Len(out) + Len(bytes)
    BY <1>1, <1>4, ConcatProperties
  <2>2. QED
    BY <1>2, <1>4, <2>1
<1>6. ASSUME NEW i \in 1..Len(out')
      PROVE  out'[i] = i
  <2>1. CASE i <= Len(out)
    BY <1>1, <1>2, <1>4, <2>1
  <2>2. CASE i > Len(out)
    <3>1. i - Len(out) \in 1..rlen /\ out'[i] = bytes[i - Len(out)]
      BY <1>1, <1>2, <1>4, <1>5, <2>2
    <3>2. QED
      BY <1>1, <1>3, <3>1
  <2>3. QED
    BY <1>1, <2>1, <2>2
<1>7. Used' = Used /\ Base' = Base
  <2>1. place'["reader"] = "advance"
    BY <1>1, <1>2 DEF Threads
  <2>2. QED
    BY <1>1, <1>2, <1>5, <2>1, SameRoom DEF Base, ringVars
<1>8. place'["ip"] = place["ip"] /\ rlen' <= Len(out')
  BY <1>1, <1>2, <1>5 DEF Threads
<1>9. QED
  BY <1>2, <1>6, <1>7, <1>8 DEF IInv, DataInv, ReadsInOrder, ringVars

\* head moves over the bytes handed over: the rest keeps its place in the stream.
LEMMA RAdvanceData ==
  ASSUME IInv, RAdvance
  PROVE  DataInv'
<1>1. /\ Size \in Nat /\ Slots = Size + 1 /\ head \in 0..Size
      /\ rlen \in 0..Used /\ Used \in 0..Size /\ Used' = Used - rlen
      /\ place \in [Threads -> Places] /\ Len(out) \in Nat
  BY SizesOK, UsedIs, TakeRoom, OutIs DEF IInv, TypeOK, Slots
<1>2. /\ Base = Len(out) - rlen /\ Base' = Len(out)
      /\ place'["reader"] = "load" /\ place'["ip"] = place["ip"]
      /\ head' = (head + rlen) % Slots
      /\ UNCHANGED <<tail, buf, out, pending>>
  BY <1>1 DEF RAdvance, Go, Base, readerVars, ipVars, Threads
<1>3. ASSUME NEW i \in 1..Used'
      PROVE  buf[(head' + i - 1) % Slots] = Base' + i
  <2>1. i + rlen \in 1..Used
    BY <1>1
  <2>2. buf[(head + (i + rlen) - 1) % Slots] = Base + (i + rlen)
    BY <2>1 DEF IInv, DataInv
  <2>3. (head' + i - 1) % Slots = (head + (i + rlen) - 1) % Slots
    <3>1. head' = IF head + rlen <= Size THEN head + rlen ELSE head + rlen - Slots
      BY <1>1, <1>2, SlotIs
    <3>2. /\ head' \in 0..Size /\ i - 1 \in 0..Size /\ i + rlen - 1 \in 0..Size
          /\ head' + i - 1 = head' + (i - 1)
          /\ head + (i + rlen) - 1 = head + (i + rlen - 1)
      BY <1>1, <2>1, <3>1
    <3>3. (head' + (i - 1)) % Slots =
            IF head' + (i - 1) <= Size THEN head' + (i - 1) ELSE head' + (i - 1) - Slots
      BY <3>2, SlotIs
    <3>4. (head + (i + rlen - 1)) % Slots =
            IF head + (i + rlen - 1) <= Size THEN head + (i + rlen - 1)
            ELSE head + (i + rlen - 1) - Slots
      BY <1>1, <3>2, SlotIs
    <3>5. (head' + (i - 1)) % Slots = (head + (i + rlen - 1)) % Slots
      BY <1>1, <2>1, <3>1, <3>3, <3>4
    <3>6. QED
      BY <3>2, <3>5
  <2>4. QED
    BY <1>1, <1>2, <2>2, <2>3
<1>4. place["ip"] = "advance" =>
        \A i \in 1..pending[1] : buf[(tail + i - 1) % Slots] = Base' + Used' + i
  <2>1. Base' + Used' = Base + Used
    BY <1>1, <1>2
  <2>2. QED
    BY <2>1 DEF IInv, DataInv
<1>5. QED
  BY <1>2, <1>3, <1>4 DEF IInv, DataInv, ReadsInOrder

\* The payload goes to free slots; the unread bytes stay.
LEMMA IpCopyData ==
  ASSUME IInv, IpCopy
  PROVE  DataInv'
<1> DEFINE n == pending[1]
<1>1. /\ Size \in Nat /\ Slots = Size + 1 /\ head \in 0..Size /\ tail \in 0..Size
      /\ Used = (IF head <= tail THEN tail - head ELSE tail - head + Slots)
      /\ Used \in 0..Size /\ Free = Size - Used
      /\ place \in [Threads -> Places]
      /\ Written = Base + Used /\ Base \in Nat
  BY SizesOK, UsedIs, OutIs DEF IInv, TypeOK, Slots
<1>2. n \in 1..Size /\ n <= Free
  <2>1. pending \in Seq(1..Size) /\ pending # <<>>
    BY DEF IInv, TypeOK, PlaceInv, IpCopy, Go
  <2>2. QED
    BY <2>1, FirstOf DEF IInv, PlaceInv, WriteFits, IpCopy, Go
<1>3. /\ UNCHANGED <<head, tail, out, rlen, pending>>
      /\ place'["ip"] = "advance" /\ place'["reader"] = place["reader"]
      /\ Base' = Base /\ Used' = Used
  BY <1>1, SameRoom DEF IpCopy, Go, readerVars, ipVars, Threads, Base
<1> DEFINE off(j) == (j - tail + Slots) % Slots
<1>4. \A j \in 0..Size : buf'[j] = IF off(j) < n THEN Written + off(j) + 1 ELSE buf[j]
  BY DEF IpCopy
<1>5. ASSUME NEW j \in 0..Size
      PROVE  off(j) = IF tail <= j THEN j - tail ELSE j - tail + Slots
  BY <1>1, Distance
<1> HIDE DEF off, n
<1>6. ASSUME NEW i \in 1..Used
      PROVE  buf'[(head + i - 1) % Slots] = Base + i
  <2> DEFINE j == (head + (i - 1)) % Slots
  <2>1. /\ i - 1 \in 0..Size /\ head + i - 1 = head + (i - 1)
        /\ j = IF head + (i - 1) <= Size THEN head + (i - 1) ELSE head + (i - 1) - Slots
        /\ j \in 0..Size
    <3>1. i - 1 \in 0..Size /\ head + i - 1 = head + (i - 1)
      BY <1>1
    <3>2. QED
      BY <1>1, <3>1, SlotIs
  <2> HIDE DEF j
  <2>2. ~(off(j) < n)
    BY <1>1, <1>2, <1>5, <2>1
  <2>3. buf[j] = Base + i
    BY <2>1 DEF IInv, DataInv, j
  <2>4. buf'[j] = Base + i
    BY <1>4, <2>1, <2>2, <2>3
  <2>5. QED
    BY <2>1, <2>4 DEF j
<1>7. ASSUME NEW i \in 1..n
      PROVE  buf'[(tail + i - 1) % Slots] = Base + Used + i
  <2> DEFINE j == (tail + (i - 1)) % Slots
  <2>1. /\ i - 1 \in 0..Size /\ tail + i - 1 = tail + (i - 1)
        /\ j = IF tail + (i - 1) <= Size THEN tail + (i - 1) ELSE tail + (i - 1) - Slots
        /\ j \in 0..Size
    <3>1. i - 1 \in 0..Size /\ tail + i - 1 = tail + (i - 1)
      BY <1>1, <1>2
    <3>2. QED
      BY <1>1, <3>1, SlotIs
  <2> HIDE DEF j
  <2>2. off(j) = i - 1 /\ off(j) < n
    BY <1>1, <1>2, <1>5, <2>1
  <2>3. buf'[j] = Written + (i - 1) + 1
    BY <1>4, <2>1, <2>2
  <2>4. QED
    BY <1>1, <2>1, <2>3 DEF j
<1>8. QED
  BY <1>3, <1>6, <1>7 DEF IInv, DataInv, ReadsInOrder, n

\* tail moves over the payload, which thereby becomes readable.
LEMMA IpAdvanceData ==
  ASSUME IInv, IpAdvance
  PROVE  DataInv'
<1> DEFINE n == pending[1]
<1>1. /\ Size \in Nat /\ Slots = Size + 1 /\ head \in 0..Size /\ tail \in 0..Size
      /\ Used = (IF head <= tail THEN tail - head ELSE tail - head + Slots)
      /\ Used \in 0..Size /\ n \in 1..Size /\ n <= Size - Used
      /\ Used' = Used + n /\ place \in [Threads -> Places] /\ Base \in Nat
  BY SizesOK, UsedIs, PutRoom, OutIs DEF IInv, TypeOK, Slots
<1>2. /\ UNCHANGED <<head, buf, out, rlen>>
      /\ place["ip"] = "advance" /\ place'["ip"] = "load" /\ place'["reader"] = place["reader"]
      /\ Base' = Base
  BY <1>1 DEF IpAdvance, Go, readerVars, Threads, Base
<1> HIDE DEF n
<1>3. ASSUME NEW i \in 1..Used'
      PROVE  buf[(head + i - 1) % Slots] = Base + i
  <2>1. CASE i <= Used
    <3>1. i \in 1..Used
      BY <1>1, <2>1
    <3>2. QED
      BY <3>1 DEF IInv, DataInv
  <2>2. CASE i > Used
    <3>1. /\ i - Used \in 1..n /\ i - 1 \in 0..Size /\ i - Used - 1 \in 0..Size
          /\ head + i - 1 = head + (i - 1)
          /\ tail + (i - Used) - 1 = tail + (i - Used - 1)
      BY <1>1, <2>2
    <3>2. buf[(tail + (i - Used) - 1) % Slots] = Base + Used + (i - Used)
      BY <1>2, <3>1 DEF IInv, DataInv, n
    <3>3. (head + (i - 1)) % Slots =
            IF head + (i - 1) <= Size THEN head + (i - 1) ELSE head + (i - 1) - Slots
      BY <1>1, <3>1, SlotIs
    <3>4. (tail + (i - Used - 1)) % Slots =
            IF tail + (i - Used - 1) <= Size THEN tail + (i - Used - 1)
            ELSE tail + (i - Used - 1) - Slots
      BY <1>1, <3>1, SlotIs
    <3>5. (tail + (i - Used - 1)) % Slots = (head + (i - 1)) % Slots
      BY <1>1, <2>2, <3>1, <3>3, <3>4
    <3>6. QED
      BY <1>1, <3>1, <3>2, <3>5
  <2>3. QED
    BY <1>1, <2>1, <2>2
<1>4. QED
  BY <1>2, <1>3 DEF IInv, DataInv, ReadsInOrder

-----------------------------------------------------------------------------
\* Every other step leaves the data alone.
LEMMA ReaderData ==
  ASSUME IInv, Reader
  PROVE  DataInv'
<1>1. place \in [Threads -> Places] /\ "reader" \in Threads /\ "ip" \in Threads /\ "reader" # "ip"
  BY DEF IInv, TypeOK, Threads
<1>2. CASE RTest \/ RMeasure \/ RRemeasure \/ LoadWnd("reader") \/ RStoreWnd \/ RSpin \/ RWake
  <2>1. /\ UNCHANGED <<ringVars, out, pending>> /\ place'["reader"] # "advance"
        /\ place["reader"] # "advance" /\ place'["ip"] = place["ip"]
    BY <1>1, <1>2 DEF RTest, RMeasure, RRemeasure, LoadWnd, RStoreWnd, RSpin, RWake, Go, readerVars, ipVars
  <2>2. Base' = Base
    BY <2>1 DEF Base
  <2>3. QED
    BY <2>1, <2>2, QuietData
<1>3. CASE SleepOn("reader") \/ Woken("reader")
  BY <1>1, <1>3, SleepData
<1>4. QED
  BY <1>2, <1>3, RCopyData, RAdvanceData DEF Reader

LEMMA IpData ==
  ASSUME IInv, Ip
  PROVE  DataInv'
<1>1. place \in [Threads -> Places] /\ "reader" \in Threads /\ "ip" \in Threads /\ "reader" # "ip"
  BY DEF IInv, TypeOK, Threads
<1>2. CASE IpPacket \/ IpTest \/ LoadWnd("ip") \/ IpStoreWnd \/ IpCheck \/ IpWake
  <2>1. /\ UNCHANGED <<ringVars, out, rlen>> /\ place'["ip"] # "advance"
        /\ place'["reader"] = place["reader"]
    BY <1>1, <1>2 DEF IpPacket, IpTest, LoadWnd, IpStoreWnd, IpCheck, IpWake, Go, readerVars
  <2>2. Base' = Base /\ (place'["reader"] = "advance" => rlen' <= Len(out))
    BY <2>1 DEF Base, IInv, DataInv
  <2>3. QED
    BY <2>1, <2>2, QuietData
<1>3. CASE SleepOn("ip") \/ Woken("ip")
  BY <1>1, <1>3, SleepData
<1>4. QED
  BY <1>2, <1>3, IpCopyData, IpAdvanceData DEF Ip

-----------------------------------------------------------------------------
LEMMA Step == IInv /\ [Next]_vars => IInv'
<1> SUFFICES ASSUME IInv, [Next]_vars PROVE IInv'
  OBVIOUS
<1>1. CASE Reader
  BY <1>1, ReaderType, ReaderPlace, ReaderData DEF IInv
<1>2. CASE Ip
  BY <1>2, IpType, IpPlace, IpData DEF IInv
<1>3. CASE UNCHANGED vars
  <2>1. UNCHANGED <<place, ringVars, windowVars, waitVars, readerVars, ipVars>>
    BY <1>3 DEF vars
  <2>2. Used' = Used /\ Free' = Free /\ Base' = Base
    BY <2>1, SameRoom DEF Base, ringVars, readerVars
  <2>3. QED
    BY <2>1, <2>2 DEF IInv, TypeOK, PlaceInv, DataInv, WriteFits, ReadsInOrder, ringVars, windowVars,
                      waitVars, readerVars, ipVars
<1>4. QED
  BY <1>1, <1>2, <1>3 DEF Next

\* IInv holds in every reachable state.
THEOREM Inductive == Spec => []IInv
BY InitInv, Step, PTL DEF Spec

\* Every variable keeps its type: in particular no index leaves the ring and rcv_wnd
\* stays a 16-bit window whatever the two unprotected updates lose.
THEOREM TypeCorrect == Spec => []TypeOK
<1>1. IInv => TypeOK
  BY DEF IInv
<1>2. QED
  BY <1>1, Inductive, PTL

\* A payload for which tcp_process found room still has it when write_ring_buffer
\* copies it, whatever the reader did in between: the assertion never fails.
THEOREM RoomStays == Spec => []WriteFits
<1>1. IInv => WriteFits
  BY DEF IInv, PlaceInv
<1>2. QED
  BY <1>1, Inductive, PTL

\* The application reads the stream in order, no byte lost and none twice.
THEOREM StreamInOrder == Spec => []ReadsInOrder
<1>1. IInv => ReadsInOrder
  BY DEF IInv, DataInv
<1>2. QED
  BY <1>1, Inductive, PTL

-----------------------------------------------------------------------------
\* n numbers that follow a.
Run(a, n) == [i \in 1..n |-> a + i]

LEMMA RunType ==
  ASSUME NEW a \in Nat, NEW n \in Nat
  PROVE  Run(a, n) \in Seq(Nat) /\ Len(Run(a, n)) = n /\ \A i \in 1..n : Run(a, n)[i] = a + i
BY DEF Run

LEMMA RunConcat ==
  ASSUME NEW a \in Nat, NEW n \in Nat, NEW m \in Nat
  PROVE  Run(a, n) \o Run(a + n, m) = Run(a, n + m)
<1> DEFINE s == Run(a, n)
           t == Run(a + n, m)
           r == Run(a, n + m)
<1>1. /\ s \in Seq(Nat) /\ Len(s) = n /\ \A i \in 1..n : s[i] = a + i
      /\ t \in Seq(Nat) /\ Len(t) = m /\ \A i \in 1..m : t[i] = a + n + i
      /\ r \in Seq(Nat) /\ Len(r) = n + m /\ \A i \in 1..(n + m) : r[i] = a + i
  <2>1. s \in Seq(Nat) /\ Len(s) = n /\ \A i \in 1..n : s[i] = a + i
    BY RunType
  <2>2. t \in Seq(Nat) /\ Len(t) = m /\ \A i \in 1..m : t[i] = a + n + i
    <3>1. a + n \in Nat
      OBVIOUS
    <3>2. QED
      BY <3>1, RunType
  <2>3. r \in Seq(Nat) /\ Len(r) = n + m /\ \A i \in 1..(n + m) : r[i] = a + i
    <3>1. n + m \in Nat
      OBVIOUS
    <3>2. QED
      BY <3>1, RunType
  <2>4. QED
    BY <2>1, <2>2, <2>3
<1> HIDE DEF s, t, r
<1>2. /\ s \o t \in Seq(Nat) /\ Len(s \o t) = n + m
      /\ \A i \in 1..(n + m) : (s \o t)[i] = IF i <= n THEN s[i] ELSE t[i - n]
  BY <1>1, ConcatProperties
<1>3. ASSUME NEW i \in 1..(n + m)
      PROVE  (s \o t)[i] = r[i]
  <2>1. CASE i <= n
    BY <1>1, <1>2, <2>1
  <2>2. CASE i > n
    <3>1. i - n \in 1..m
      BY <2>2
    <3>2. QED
      BY <1>1, <1>2, <2>2, <3>1
  <2>3. i <= n \/ i > n
    OBVIOUS
  <2>4. QED
    BY <2>1, <2>2, <2>3, Zenon
<1>4. s \o t = r
  BY <1>1, <1>2, <1>3, SeqEqual
<1>5. QED
  BY <1>4 DEF s, t, r

LEMMA RunSub ==
  ASSUME NEW a \in Nat, NEW n \in Nat, NEW i \in 1..(n + 1), NEW j \in 0..n, i <= j + 1
  PROVE  SubSeq(Run(a, n), i, j) = Run(a + (i - 1), j - (i - 1))
<1> DEFINE s == Run(a, n)
           r == Run(a + (i - 1), j - (i - 1))
<1>1. /\ s \in Seq(Nat) /\ Len(s) = n /\ \A k \in 1..n : s[k] = a + k
      /\ r \in Seq(Nat) /\ Len(r) = j - i + 1
      /\ \A k \in 1..(j - i + 1) : r[k] = a + i - 1 + k
  <2>1. s \in Seq(Nat) /\ Len(s) = n /\ \A k \in 1..n : s[k] = a + k
    BY RunType
  <2> DEFINE b == a + (i - 1)
             m == j - (i - 1)
  <2>2. b \in Nat /\ m \in Nat
    OBVIOUS
  <2> HIDE DEF b, m
  <2>3. Run(b, m) \in Seq(Nat) /\ Len(Run(b, m)) = m /\ \A k \in 1..m : Run(b, m)[k] = b + k
    BY <2>2, RunType
  <2>4. r = Run(b, m)
    BY DEF b, m
  <2>5. m = j - i + 1 /\ \A k \in 1..m : b + k = a + i - 1 + k
    BY DEF b, m
  <2> HIDE DEF r
  <2>6. QED
    BY <2>1, <2>3, <2>4, <2>5
<1> HIDE DEF s, r
<1>2. /\ SubSeq(s, i, j) \in Seq(Nat) /\ Len(SubSeq(s, i, j)) = j - i + 1
      /\ \A k \in 1..(j - i + 1) : SubSeq(s, i, j)[k] = s[i + k - 1]
  <2>1. \A k \in i..j : s[k] \in Nat
    BY <1>1
  <2>2. Len(SubSeq(s, i, j)) = IF i <= j THEN j - i + 1 ELSE 0
    BY <2>1, SubSeqProperties
  <2>3. QED
    BY <2>1, <2>2, SubSeqProperties
<1>3. \A k \in 1..(j - i + 1) : SubSeq(s, i, j)[k] = r[k]
  BY <1>1, <1>2
<1>4. SubSeq(s, i, j) = r
  BY <1>1, <1>2, <1>3, SeqEqual
<1>5. QED
  BY <1>4 DEF s, r

-----------------------------------------------------------------------------
\* The queue that the ring stands for.
Contents == Bytes(head, Used)
Gone     == IF place["reader"] = "advance" THEN SubSeq(out, 1, Len(out) - rlen) ELSE out

Abstract ==
  /\ Used \in Nat /\ Base \in Nat
  /\ Contents = Run(Base, Used) /\ Gone = Run(0, Base)

LEMMA Mapped == IInv => Abstract
<1> SUFFICES ASSUME IInv PROVE Abstract
  OBVIOUS
<1>1. Used \in Nat /\ Base \in Nat /\ Base <= Len(out) /\ Len(out) \in Nat
  BY SizesOK, UsedIs, OutIs DEF IInv
<1>2. Contents = Run(Base, Used)
  <2>1. \A i \in 1..Used : buf[(head + i - 1) % Slots] = Base + i
    BY DEF IInv, DataInv
  <2>2. QED
    BY <2>1 DEF Contents, Bytes, Run
<1>3. out = Run(0, Len(out))
  <2>1. out \in Seq(Nat) /\ \A i \in 1..Len(out) : out[i] = i
    BY OutIs DEF IInv, TypeOK
  <2>2. /\ Run(0, Len(out)) \in Seq(Nat) /\ Len(Run(0, Len(out))) = Len(out)
        /\ \A i \in 1..Len(out) : Run(0, Len(out))[i] = i
    <3>1. /\ Run(0, Len(out)) \in Seq(Nat) /\ Len(Run(0, Len(out))) = Len(out)
          /\ \A i \in 1..Len(out) : Run(0, Len(out))[i] = 0 + i
      BY <1>1, RunType
    <3>2. QED
      BY <3>1
  <2>3. QED
    BY <2>1, <2>2, SeqEqual
<1>4. Gone = Run(0, Base)
  <2>1. CASE place["reader"] = "advance"
    <3>1. Gone = SubSeq(Run(0, Len(out)), 1, Base) /\ Base \in 0..Len(out)
      BY <1>1, <1>3, <2>1 DEF Gone, Base
    <3>2. SubSeq(Run(0, Len(out)), 1, Base) = Run(0 + (1 - 1), Base - (1 - 1))
      <4>1. 0 \in Nat /\ 1 \in 1..(Len(out) + 1) /\ Base \in 0..Len(out) /\ 1 <= Base + 1
        BY <1>1, <3>1
      <4>2. QED
        BY <1>1, <4>1, RunSub
    <3>3. QED
      BY <1>1, <3>1, <3>2
  <2>2. CASE place["reader"] # "advance"
    BY <1>3, <2>2 DEF Gone, Base
  <2>3. QED
    BY <2>1, <2>2
<1>5. QED
  BY <1>1, <1>2, <1>4 DEF Abstract

LEMMA MappedNext == IInv' => Abstract'
BY Mapped, PTL

-----------------------------------------------------------------------------
LEMMA AbstractIs ==
  ASSUME Abstract
  PROVE  /\ Len(Contents) = Used /\ Len(Gone) = Base
         /\ Contents \in Seq(Nat) /\ Gone \in Seq(Nat)
BY RunType DEF Abstract

\* A read takes the oldest bytes off the queue, when its length is not 0.
LEMMA TakeStep ==
  ASSUME Abstract, Abstract', NEW k \in 1..Used, Used' = Used - k, Base' = Base + k
  PROVE  /\ Gone' = Gone \o SubSeq(Contents, 1, k)
         /\ Contents' = SubSeq(Contents, k + 1, Len(Contents))
<1>1. Used \in Nat /\ Base \in Nat /\ Contents = Run(Base, Used) /\ Gone = Run(0, Base)
      /\ Contents' = Run(Base + k, Used - k) /\ Gone' = Run(0, Base + k)
  BY DEF Abstract, Run
<1>2. SubSeq(Contents, 1, k) = Run(Base, k)
  <2>1. /\ 1 \in 1..(Used + 1) /\ k \in 0..Used /\ 1 <= k + 1
        /\ Base + (1 - 1) = Base /\ k - (1 - 1) = k
    BY <1>1
  <2>2. SubSeq(Run(Base, Used), 1, k) = Run(Base + (1 - 1), k - (1 - 1))
    BY <1>1, <2>1, RunSub
  <2>3. QED
    BY <1>1, <2>1, <2>2
<1>3. SubSeq(Contents, k + 1, Used) = Run(Base + k, Used - k)
  <2> DEFINE i == k + 1
  <2>1. /\ i \in 1..(Used + 1) /\ Used \in 0..Used /\ i <= Used + 1
        /\ Base + (i - 1) = Base + k /\ Used - (i - 1) = Used - k
    BY <1>1
  <2> HIDE DEF i
  <2>2. SubSeq(Run(Base, Used), i, Used) = Run(Base + (i - 1), Used - (i - 1))
    BY <1>1, <2>1, RunSub
  <2>3. QED
    BY <1>1, <2>1, <2>2 DEF i
<1>4. Run(0, Base) \o Run(0 + Base, k) = Run(0, Base + k)
  <2>1. 0 \in Nat /\ Base \in Nat /\ k \in Nat
    BY <1>1
  <2>2. QED
    BY <2>1, RunConcat
<1>5. 0 + Base = Base /\ Len(Contents) = Used
  BY <1>1, AbstractIs
<1>6. QED
  BY <1>1, <1>2, <1>3, <1>4, <1>5

\* A write puts the next bytes of the stream at its end.
LEMMA PutStep ==
  ASSUME Abstract, Abstract', NEW k \in Nat, Used' = Used + k, Base' = Base
  PROVE  /\ Contents' = Contents \o [i \in 1..k |-> Len(Gone) + Len(Contents) + i]
         /\ Gone' = Gone
<1>1. Used \in Nat /\ Base \in Nat /\ Contents = Run(Base, Used) /\ Gone = Run(0, Base)
      /\ Contents' = Run(Base, Used + k) /\ Gone' = Run(0, Base)
  BY DEF Abstract, Run
<1>2. Run(Base, Used) \o Run(Base + Used, k) = Run(Base, Used + k)
  BY <1>1, RunConcat
<1>3. Len(Gone) = Base /\ Len(Contents) = Used
  BY AbstractIs
<1>4. [i \in 1..k |-> Len(Gone) + Len(Contents) + i] = Run(Base + Used, k)
  BY <1>3 DEF Run
<1>5. QED
  BY <1>1, <1>2, <1>4

\* A step that moves neither end is none of the queue's.
LEMMA StutterStep ==
  ASSUME Abstract, Abstract', Used' = Used, Base' = Base
  PROVE  Contents' = Contents /\ Gone' = Gone
BY DEF Abstract, Run

LEMMA EndsMove ==
  ASSUME IInv, Abstract, [Next]_vars
  PROVE  \/ Used' = Used /\ Base' = Base
         \/ \E k \in 1..Used : Used' = Used - k /\ Base' = Base + k
         \/ \E k \in 1..(Size - Used) : Used' = Used + k /\ Base' = Base
<1>1. /\ place \in [Threads -> Places] /\ "reader" \in Threads /\ "ip" \in Threads /\ "reader" # "ip"
      /\ Used \in Nat /\ Base \in Nat /\ Len(out) \in Nat
  BY OutIs DEF IInv, TypeOK, Threads, Abstract
<1>2. CASE RAdvance
  <2>1. rlen \in 0..Used /\ Used' = Used - rlen
    BY <1>2, TakeRoom
  <2>2. Base = Len(out) - rlen /\ Base' = Len(out)
    BY <1>1, <1>2 DEF RAdvance, Go, Base, readerVars
  <2>3. Base' = Base + rlen
    BY <1>1, <2>1, <2>2
  <2>4. CASE rlen = 0
    BY <1>1, <2>1, <2>3, <2>4
  <2>5. CASE rlen \in 1..Used
    BY <2>1, <2>3, <2>5
  <2>6. QED
    BY <1>1, <2>1, <2>4, <2>5
<1>3. CASE IpAdvance
  <2>1. pending[1] \in 1..(Size - Used) /\ Used' = Used + pending[1]
    BY <1>1, <1>3, PutRoom, SizesOK, UsedIs DEF IInv
  <2>2. Base' = Base
    BY <1>1, <1>3 DEF IpAdvance, Go, Base, readerVars
  <2>3. QED
    BY <2>1, <2>2
<1>4. CASE RCopy
  <2>1. Used' = Used
    BY <1>4, SameRoom DEF RCopy, ringVars
  <2>2. DataInv'
    BY <1>4, RCopyData
  <2>3. rlen' = rlen /\ out' = out \o Bytes(head, rlen) /\ place["reader"] = "copy" /\ place'["reader"] = "advance"
    BY <1>1, <1>4 DEF RCopy, Go
  <2>4. Len(out') = Len(out) + rlen /\ rlen \in Nat
    <3>1. rlen \in 0..Size /\ out \in Seq(Nat) /\ TypeOK /\ Size \in Nat
      BY SizesOK DEF IInv, TypeOK
    <3>2. Bytes(head, rlen) \in Seq(Nat) /\ Len(Bytes(head, rlen)) = rlen
      BY <3>1, BytesType
    <3>3. Len(out \o Bytes(head, rlen)) = Len(out) + Len(Bytes(head, rlen))
      BY <3>1, <3>2, ConcatProperties
    <3>4. QED
      BY <2>3, <3>1, <3>2, <3>3
  <2>5. Base' = Base
    BY <1>1, <2>3, <2>4 DEF Base
  <2>6. QED
    BY <2>1, <2>5
<1>5. CASE \/ RTest \/ RMeasure \/ RRemeasure \/ LoadWnd("reader") \/ RStoreWnd \/ RSpin \/ RWake
           \/ SleepOn("reader") \/ Woken("reader")
  <2>1. UNCHANGED <<ringVars, out>> /\ place["reader"] # "advance" /\ place'["reader"] # "advance"
    BY <1>1, <1>5 DEF RTest, RMeasure, RRemeasure, LoadWnd, RStoreWnd, RSpin, RWake, SleepOn, Woken, Go, readerVars
  <2>2. QED
    BY <2>1, SameRoom DEF Base, ringVars
<1>6. CASE \/ IpPacket \/ IpTest \/ IpCopy \/ LoadWnd("ip") \/ IpStoreWnd \/ IpCheck \/ IpWake
           \/ SleepOn("ip") \/ Woken("ip") \/ UNCHANGED vars
  <2>1. UNCHANGED <<head, tail, out, rlen>> /\ place'["reader"] = place["reader"]
    BY <1>1, <1>6 DEF IpPacket, IpTest, IpCopy, LoadWnd, IpStoreWnd, IpCheck, IpWake, SleepOn, Woken, Go,
                      readerVars, ringVars, vars
  <2>2. QED
    BY <2>1, SameRoom DEF Base
<1>7. QED
  BY <1>2, <1>3, <1>4, <1>5, <1>6 DEF Next, Reader, Ip

LEMMA QueueInit == Init => Queue!Init
<1> SUFFICES ASSUME Init PROVE Queue!Init
  OBVIOUS
<1>1. Abstract
  BY InitInv, Mapped
<1>2. Used = 0 /\ Base = 0
  BY InitInv, UsedIs DEF Init, Base, IInv
<1>3. Contents = <<>> /\ Gone = <<>>
  BY <1>1, <1>2 DEF Abstract, Run
<1>4. QED
  BY <1>3 DEF Queue!Init, Contents, Gone

LEMMA QueueStep == IInv /\ IInv' /\ [Next]_vars => [Queue!Next]_(Queue!vars)
<1> SUFFICES ASSUME IInv, IInv', [Next]_vars PROVE [Queue!Next]_(Queue!vars)
  OBVIOUS
<1>1. Abstract /\ Abstract'
  BY Mapped, MappedNext
<1>2. Len(Contents) = Used
  BY <1>1, AbstractIs
<1>3. CASE Used' = Used /\ Base' = Base
  BY <1>1, <1>3, StutterStep DEF Queue!vars, Contents, Gone
<1>4. CASE \E k \in 1..Used : Used' = Used - k /\ Base' = Base + k
  <2>1. PICK k \in 1..Used : Used' = Used - k /\ Base' = Base + k
    BY <1>4
  <2>2. /\ Gone' = Gone \o SubSeq(Contents, 1, k)
        /\ Contents' = SubSeq(Contents, k + 1, Len(Contents))
    BY <1>1, <2>1, TakeStep
  <2>3. Queue!Take
    BY <1>2, <2>2 DEF Queue!Take, Contents, Gone
  <2>4. QED
    BY <2>3 DEF Queue!Next
<1>5. CASE \E k \in 1..(Size - Used) : Used' = Used + k /\ Base' = Base
  <2>1. PICK k \in 1..(Size - Used) : Used' = Used + k /\ Base' = Base
    BY <1>5
  <2>2. /\ Contents' = Contents \o [i \in 1..k |-> Len(Gone) + Len(Contents) + i]
        /\ Gone' = Gone
    <3>1. k \in Nat
      OBVIOUS
    <3>2. QED
      BY <1>1, <2>1, <3>1, PutStep
  <2>3. Queue!Put
    BY <1>2, <2>2 DEF Queue!Put, Contents, Gone
  <2>4. QED
    BY <2>3 DEF Queue!Next
<1>6. QED
  BY <1>1, <1>3, <1>4, <1>5, EndsMove

\* The ring and its two indices, moved by two threads without a common lock, are a
\* first-in first-out queue of at most Size bytes.
THEOREM RingIsQueue == Spec => ImplementsQueue
<1>1. Init => Queue!Init
  BY QueueInit
<1>2. IInv /\ IInv' /\ [Next]_vars => [Queue!Next]_(Queue!vars)
  BY QueueStep
<1>3. QED
  BY <1>1, <1>2, Inductive, PTL DEF Spec, ImplementsQueue, Queue!Spec
=============================================================================
