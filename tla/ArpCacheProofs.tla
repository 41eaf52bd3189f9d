--------------------------- MODULE ArpCacheProofs ---------------------------
(***************************************************************************)
(* The table of ArpCache, for every number of slots and neighbours and      *)
(* every order in which answers, lookups and sweeps come.                   *)
(***************************************************************************)
EXTENDS ArpCache, TLAPS, FiniteSetTheorems

\* What arpcache_insert does: nothing, or an address that is new in a slot.
LEMMA StoreOneEntry ==
  ASSUME OneEntry, NEW ip \in Ips, Store(ip)
  PROVE  OneEntry'
<1>1. CASE UNCHANGED entries
  BY <1>1 DEF OneEntry
<1>2. CASE ~Cached(ip) /\ \E k \in Slots : entries' = [entries EXCEPT ![k] = ip]
  <2>1. PICK k \in Slots : entries' = [entries EXCEPT ![k] = ip]
    BY <1>2
  <2>2. entries' \in [Slots -> Ips \cup {NoIp}]
    BY <2>1 DEF OneEntry
  <2>3. entries'[k] = ip /\ \A j \in Slots \ {k} : entries'[j] = entries[j] /\ entries[j] # ip
    BY <1>2, <2>1 DEF OneEntry, Cached
  <2> QED
    BY <2>2, <2>3 DEF OneEntry
<1> QED
  BY <1>1, <1>2 DEF Store

\* What the sweep does: entries go.
LEMMA AgedOneEntry ==
  ASSUME OneEntry, NEW aged,
         entries' = [k \in Slots |-> IF k \in aged THEN NoIp ELSE entries[k]]
  PROVE  OneEntry'
BY DEF OneEntry

LEMMA NextOneEntry == OneEntry /\ [Next]_vars => OneEntry'
<1> SUFFICES ASSUME OneEntry, [Next]_vars PROVE OneEntry'
  OBVIOUS
<1>1. ASSUME UNCHANGED entries PROVE OneEntry'
  BY <1>1 DEF OneEntry
<1>2. ASSUME NEW t \in Threads, SendByArp(t) PROVE OneEntry'
  BY <1>1, <1>2 DEF SendByArp, SendFound, SendMissed, AppendFound, AppendNew, AppendRequest
<1>3. ASSUME SweepPass PROVE OneEntry'
  <2>1. PICK aged \in SUBSET {k \in Slots : entries[k] # NoIp} :
          entries' = [k \in Slots |-> IF k \in aged THEN NoIp ELSE entries[k]]
    BY <1>3 DEF SweepPass
  <2> QED
    BY <2>1, AgedOneEntry
<1>4. ASSUME NEW ip \in Ips, HandleArp(ip) PROVE OneEntry'
  BY <1>4, StoreOneEntry DEF HandleArp
<1>5. ASSUME NEW ip \in Ips, Answer(ip) \/ Ask(ip) PROVE OneEntry'
  BY <1>1, <1>5 DEF Answer, Ask
<1>6. ASSUME NEW m \in wire, Lose(m) PROVE OneEntry'
  BY <1>1, <1>6 DEF Lose
<1>7. ASSUME UNCHANGED vars PROVE OneEntry'
  BY <1>1, <1>7 DEF vars
<1> QED
  BY <1>2, <1>3, <1>4, <1>5, <1>6, <1>7 DEF Next

\* An address has at most one valid entry, although the slot is chosen at random, a
\* free one is overlooked and entries age between any two insertions
\* (arpcache.c:75-126, 159-207).
THEOREM EntriesAreUnique == Spec => []OneEntry
<1>1. Init => OneEntry
  BY DEF Init, OneEntry
<1>2. OneEntry /\ [Next]_vars => OneEntry'
  BY NextOneEntry
<1> QED
  BY <1>1, <1>2, PTL DEF Spec

----------------------------------------------------------------------------
Item == Packets \cup {Unreachable}

TypeInv ==
  /\ req_list \in [All -> [sent : BOOLEAN, young : BOOLEAN, retries : 0..Retries, cached : Seq(Item)]]
  /\ queue \in [Threads -> Seq(Item)]
  /\ pc \in [Threads -> {"lookup", "append", "request"}]
  /\ sent \in [Packets -> Nat]

\* A request that is not pending has no packets; a thread past its lookup has one.
ListInv ==
  /\ \A ip \in All : ~req_list[ip].sent => req_list[ip].cached = <<>>
  /\ \A t \in Threads : pc[t] # "lookup" => queue[t] # <<>>

\* The spots one by one.
WaitsAt(p, ip, k) ==
  ip \in All /\ k \in 1..Len(req_list[ip].cached) /\ req_list[ip].cached[k] = p

QueuedAt(p, t, k) ==
  /\ t \in Threads /\ k \in 1..Len(queue[t]) /\ queue[t][k] = p
  /\ ~(k = 1 /\ pc[t] = "request")

\* p is in one place: every two places exclude each other, and it is in one of them.
OneSpot(p) ==
  /\ \A t, k : QueuedAt(p, t, k) =>
       /\ sent[p] = 0 /\ p \notin refused /\ \A ip, j : ~WaitsAt(p, ip, j)
       /\ \A u, j : QueuedAt(p, u, j) => u = t /\ j = k
  /\ \A ip, k : WaitsAt(p, ip, k) =>
       /\ sent[p] = 0 /\ p \notin refused
       /\ \A a, j : WaitsAt(p, a, j) => a = ip /\ j = k
  /\ sent[p] \in {0, 1} /\ (sent[p] = 1 => p \notin refused)
  /\ \/ sent[p] = 1 \/ p \in refused
     \/ \E t, k : QueuedAt(p, t, k)
     \/ \E ip, k : WaitsAt(p, ip, k)

IInv == TypeInv /\ ListInv /\ \A p \in Packets : OneSpot(p)

LEMMA SpotKinds ==
  ASSUME NEW p \in Packets, NEW y
  PROVE  y \in Spots(p) <=>
           \/ \E ip \in All, k \in Nat : WaitsAt(p, ip, k) /\ y = <<"waits", <<ip, k>>>>
           \/ \E t \in Threads, k \in Nat : QueuedAt(p, t, k) /\ y = <<"queued", <<t, k>>>>
           \/ \E n \in 1..sent[p] : y = <<"sent", n>>
           \/ p \in refused /\ y = <<"refused", p>>
<1>1. ASSUME NEW z
      PROVE  (z \in Waiting(All) /\ WaitingAt(z) = p) <=> \E ip \in All, k \in Nat : WaitsAt(p, ip, k) /\ z = <<ip, k>>
  BY DEF Waiting, WaitingAt, WaitsAt
<1>2. ASSUME NEW z
      PROVE  (z \in Queued /\ queue[z[1]][z[2]] = p /\ ~(z[2] = 1 /\ pc[z[1]] = "request")) <=>
             \E t \in Threads, k \in Nat : QueuedAt(p, t, k) /\ z = <<t, k>>
  BY DEF Queued, QueuedAt
<1> QED
  BY <1>1, <1>2 DEF Spots

LEMMA Places ==
  ASSUME TypeInv
  PROVE  /\ \A t \in Threads : queue[t] \in Seq(Item) /\ pc[t] \in {"lookup", "append", "request"}
         /\ \A ip \in All : /\ req_list[ip].cached \in Seq(Item)
                            /\ req_list[ip].sent \in BOOLEAN /\ req_list[ip].young \in BOOLEAN
                            /\ req_list[ip].retries \in 0..Retries
         /\ \A p \in Packets : sent[p] \in Nat
BY DEF TypeInv

LEMMA Items ==
  /\ \A p \in Item : p.to \in All
  /\ Unreachable \notin Packets
<1>1. \A p \in Packets : p \in Packet
  BY ArpConstants DEF Packets, Range
<1>2. \A p \in Packets : p.no # 0 /\ p.to \in Ips
  BY <1>1 DEF Packet
<1> QED
  BY <1>2 DEF Item, Unreachable, All

\* A thread is done with the packet at the head of its queue.
LEMMA Popped ==
  ASSUME TypeInv, NEW t \in Threads, queue[t] # <<>>,
         queue' = [queue EXCEPT ![t] = Tail(@)],
         pc' = [pc EXCEPT ![t] = "lookup"]
  PROVE  /\ queue' \in [Threads -> Seq(Item)]
         /\ pc' \in [Threads -> {"lookup", "append", "request"}]
         /\ \A p, u, k : k \in Nat =>
              (QueuedAt(p, u, k)' <=> IF u = t THEN k >= 1 /\ QueuedAt(p, t, k + 1) ELSE QueuedAt(p, u, k))
<1>1. /\ queue[t] \in Seq(Item) /\ Tail(queue[t]) \in Seq(Item)
      /\ Len(Tail(queue[t])) = Len(queue[t]) - 1
      /\ \A k \in 1..Len(Tail(queue[t])) : Tail(queue[t])[k] = queue[t][k + 1]
  BY DEF TypeInv
<1>2. queue' \in [Threads -> Seq(Item)] /\ pc' \in [Threads -> {"lookup", "append", "request"}]
  BY <1>1 DEF TypeInv
<1>3. queue'[t] = Tail(queue[t]) /\ pc'[t] = "lookup"
  BY DEF TypeInv
<1>4. \A u \in Threads \ {t} : queue'[u] = queue[u] /\ pc'[u] = pc[u]
  BY DEF TypeInv
<1>5. ASSUME NEW p, NEW k \in Nat
      PROVE QueuedAt(p, t, k)' <=> k >= 1 /\ QueuedAt(p, t, k + 1)
  <2>1. Len(queue[t]) \in Nat
    BY <1>1
  <2>2. k \in 1..Len(Tail(queue[t])) <=> (k >= 1 /\ k + 1 \in 1..Len(queue[t]))
    BY <1>1, <2>1
  <2>3. QueuedAt(p, t, k)' <=> (k \in 1..Len(Tail(queue[t])) /\ Tail(queue[t])[k] = p)
    BY <1>3 DEF QueuedAt
  <2>4. k >= 1 => (QueuedAt(p, t, k + 1) <=> (k + 1 \in 1..Len(queue[t]) /\ queue[t][k + 1] = p))
    BY DEF QueuedAt
  <2> QED
    BY <1>1, <2>2, <2>3, <2>4
<1>6. ASSUME NEW p, NEW k \in Nat, NEW u, u # t
      PROVE QueuedAt(p, u, k)' <=> QueuedAt(p, u, k)
  BY <1>4, <1>6 DEF QueuedAt
<1> QED
  BY <1>2, <1>5, <1>6

LEMMA OneSpotAlone ==
  ASSUME NEW p \in Packets, OneSpot(p)
  PROVE  \E x \in Spots(p) : \A y \in Spots(p) : y = x
<1> DEFINE W(y) == \E ip \in All, k \in Nat : WaitsAt(p, ip, k) /\ y = <<"waits", <<ip, k>>>>
           Q(y) == \E t \in Threads, k \in Nat : QueuedAt(p, t, k) /\ y = <<"queued", <<t, k>>>>
           S(y) == \E n \in 1..sent[p] : y = <<"sent", n>>
           R(y) == p \in refused /\ y = <<"refused", p>>
<1>1. \A y : y \in Spots(p) <=> (W(y) \/ Q(y) \/ S(y) \/ R(y))
  BY SpotKinds
<1>2. \A y : S(y) => sent[p] = 1 /\ y = <<"sent", 1>>
  BY DEF OneSpot
<1>3. sent[p] = 1 => S(<<"sent", 1>>)
  OBVIOUS
<1>4. CASE sent[p] = 1
  <2>1. \A y : W(y) \/ Q(y) \/ R(y) => FALSE
    BY <1>4 DEF OneSpot
  <2>2. \A y \in Spots(p) : y = <<"sent", 1>>
    BY <1>1, <1>2, <2>1
  <2> QED
    BY <1>1, <1>3, <1>4, <2>2
<1>5. CASE p \in refused
  <2>1. \A y : W(y) \/ Q(y) \/ S(y) => FALSE
    BY <1>2, <1>5 DEF OneSpot
  <2>2. <<"refused", p>> \in Spots(p)
    BY <1>1, <1>5
  <2>3. \A y \in Spots(p) : y = <<"refused", p>>
    BY <1>1, <2>1
  <2> QED
    BY <2>2, <2>3, Zenon
<1>6. ASSUME NEW t \in Threads, NEW k \in Nat, QueuedAt(p, t, k)
      PROVE  \E x \in Spots(p) : \A y \in Spots(p) : y = x
  <2>1. \A y : W(y) \/ R(y) \/ S(y) => FALSE
    BY <1>2, <1>6 DEF OneSpot
  <2>2. Q(<<"queued", <<t, k>>>>) /\ \A y : Q(y) => y = <<"queued", <<t, k>>>>
    BY <1>6 DEF OneSpot
  <2> HIDE DEF W, Q, S, R
  <2>3. <<"queued", <<t, k>>>> \in Spots(p)
    BY <1>1, <2>2
  <2>4. \A y \in Spots(p) : y = <<"queued", <<t, k>>>>
    BY <1>1, <2>1, <2>2
  <2> QED
    BY <2>3, <2>4, Zenon
<1>7. ASSUME NEW ip \in All, NEW k \in Nat, WaitsAt(p, ip, k)
      PROVE  \E x \in Spots(p) : \A y \in Spots(p) : y = x
  <2>1. \A y : Q(y) \/ R(y) \/ S(y) => FALSE
    BY <1>2, <1>7 DEF OneSpot
  <2>2. W(<<"waits", <<ip, k>>>>) /\ \A y : W(y) => y = <<"waits", <<ip, k>>>>
    BY <1>7 DEF OneSpot
  <2> HIDE DEF W, Q, S, R
  <2>3. <<"waits", <<ip, k>>>> \in Spots(p)
    BY <1>1, <2>2
  <2>4. \A y \in Spots(p) : y = <<"waits", <<ip, k>>>>
    BY <1>1, <2>1, <2>2
  <2> QED
    BY <2>3, <2>4, Zenon
<1>8. \A t, k : QueuedAt(p, t, k) => t \in Threads /\ k \in Nat
  BY DEF QueuedAt
<1>9. \A ip, k : WaitsAt(p, ip, k) => ip \in All /\ k \in Nat
  BY DEF WaitsAt
<1> HIDE DEF W, Q, S, R
<1> QED
  BY <1>4, <1>5, <1>6, <1>7, <1>8, <1>9 DEF OneSpot

----------------------------------------------------------------------------
\* A step that leaves the lists alone.
LEMMA KeptIInv ==
  ASSUME IInv, UNCHANGED <<req_list, queue, pc, sent, refused>> PROVE IInv'
<1>1. TypeInv' /\ ListInv'
  BY DEF IInv, TypeInv, ListInv
<1>2. ASSUME NEW p \in Packets PROVE OneSpot(p)'
  BY DEF IInv, OneSpot, WaitsAt, QueuedAt
<1> QED
  BY <1>1, <1>2 DEF IInv

LEMMA InitIInv == Init => IInv
<1> SUFFICES ASSUME Init PROVE IInv
  OBVIOUS
<1>1. Work \in [Senders -> Seq(Packet)] /\ Retries \in Nat
  BY ArpConstants
<1>2. \A t \in Threads : queue[t] = IF t \in Senders THEN Work[t] ELSE <<>>
  BY DEF Init
<1>3. \A t \in Senders : Work[t] \in Seq(Item)
  <2> SUFFICES ASSUME NEW t \in Senders PROVE Work[t] \in Seq(Item)
    OBVIOUS
  <2>1. \A k \in 1..Len(Work[t]) : Work[t][k] \in Item
    BY <1>1 DEF Packets, Range, Item
  <2>2. Work[t] \in Seq(Packet)
    BY <1>1
  <2> QED
    BY <2>1, <2>2
<1>4. TypeInv
  <2>1. NoRequest \in [sent : BOOLEAN, young : BOOLEAN, retries : 0..Retries, cached : Seq(Item)]
    BY <1>1 DEF NoRequest
  <2>2. \A t \in Threads : (IF t \in Senders THEN Work[t] ELSE <<>>) \in Seq(Item)
    BY <1>3
  <2> QED
    BY <2>1, <2>2 DEF TypeInv, Init
<1>5. ListInv
  BY DEF ListInv, Init, NoRequest
<1>6. ASSUME NEW p \in Packets PROVE OneSpot(p)
  <2>1. PICK s \in Senders, i \in Nat : i \in 1..Len(Work[s]) /\ Work[s][i] = p
    BY <1>1 DEF Packets, Range
  <2>2. Len(Work[s]) \in Nat /\ i \in Nat
    BY <1>1
  <2>3. p # Unreachable
    BY <1>6, Items
  <2>4. \A t, k : QueuedAt(p, t, k) <=> t \in Senders /\ k \in 1..Len(Work[t]) /\ Work[t][k] = p
    <3>1. \A t \in Threads : pc[t] = "lookup"
      BY DEF Init
    <3>2. Senders \subseteq Threads
      BY DEF Threads
    <3> QED
      BY <1>2, <3>1, <3>2 DEF QueuedAt
  <2>5. \A t, k : QueuedAt(p, t, k) => t = s /\ k = i
    BY <2>1, <2>4, ArpConstants
  <2>6. QueuedAt(p, s, i) /\ s \in Threads
    BY <2>1, <2>4 DEF Threads
  <2>7. \A ip, k : ~WaitsAt(p, ip, k)
    BY DEF WaitsAt, Init, NoRequest
  <2>8. sent[p] = 0 /\ p \notin refused
    BY <1>6 DEF Init
  <2> QED
    BY <2>2, <2>5, <2>6, <2>7, <2>8 DEF OneSpot
<1> QED
  BY <1>4, <1>5, <1>6 DEF IInv

\* A packet that is not what t has just dealt with stays where it is, or moves up.
LEMMA PoppedOther ==
  ASSUME TypeInv, NEW t \in Threads, queue[t] # <<>>,
         queue' = [queue EXCEPT ![t] = Tail(@)],
         pc' = [pc EXCEPT ![t] = "lookup"],
         NEW p \in Packets, OneSpot(p), ~QueuedAt(p, t, 1),
         \A ip, k : WaitsAt(p, ip, k)' <=> WaitsAt(p, ip, k),
         sent'[p] = sent[p], p \in refused' <=> p \in refused
  PROVE  OneSpot(p)'
<1>1. \A u, k : k \in Nat =>
        (QueuedAt(p, u, k)' <=> IF u = t THEN k >= 1 /\ QueuedAt(p, t, k + 1) ELSE QueuedAt(p, u, k))
  BY Popped
<1>2. \A u, k : QueuedAt(p, u, k)' => k \in Nat
  BY DEF QueuedAt
<1>3. \A u, k : QueuedAt(p, u, k) => k \in Nat \ {0}
  BY DEF QueuedAt
<1>4. ASSUME NEW u, NEW k, QueuedAt(p, u, k)'
      PROVE  \E j \in Nat : QueuedAt(p, u, j) /\ j = IF u = t THEN k + 1 ELSE k
  BY <1>1, <1>2, <1>4
<1>5. ASSUME NEW u, NEW k, QueuedAt(p, u, k) PROVE \E j : QueuedAt(p, u, j)'
  <2>1. CASE u # t
    BY <1>1, <1>3, <1>5, <2>1
  <2>2. CASE u = t
    <3>1. k \in Nat /\ k >= 1 /\ k # 1
      BY <1>3, <1>5, <2>2
    <3>2. k - 1 \in Nat /\ k - 1 >= 1 /\ (k - 1) + 1 = k
      BY <3>1
    <3> QED
      BY <1>1, <1>5, <2>2, <3>2
  <2> QED
    BY <2>1, <2>2
<1>6. ASSUME NEW u, NEW k, QueuedAt(p, u, k)', NEW v, NEW j, QueuedAt(p, v, j)'
      PROVE  v = u /\ j = k
  <2>1. PICK k1 \in Nat : QueuedAt(p, u, k1) /\ k1 = IF u = t THEN k + 1 ELSE k
    BY <1>4, <1>6
  <2>2. PICK j1 \in Nat : QueuedAt(p, v, j1) /\ j1 = IF v = t THEN j + 1 ELSE j
    BY <1>4, <1>6
  <2>3. v = u /\ j1 = k1
    BY <2>1, <2>2 DEF OneSpot
  <2> QED
    BY <1>2, <1>6, <2>1, <2>2, <2>3
<1>7. \A u, k : QueuedAt(p, u, k)' => sent[p] = 0 /\ p \notin refused /\ \A ip, j : ~WaitsAt(p, ip, j)
  BY <1>4 DEF OneSpot
<1> QED
  BY <1>5, <1>6, <1>7 DEF OneSpot

\* What t has just dealt with is in no queue any more.
LEMMA PoppedHead ==
  ASSUME TypeInv, NEW t \in Threads, queue[t] # <<>>,
         queue' = [queue EXCEPT ![t] = Tail(@)],
         pc' = [pc EXCEPT ![t] = "lookup"],
         NEW p \in Packets, OneSpot(p), QueuedAt(p, t, 1)
  PROVE  /\ \A u, k : ~QueuedAt(p, u, k)'
         /\ sent[p] = 0 /\ p \notin refused /\ \A ip, j : ~WaitsAt(p, ip, j)
<1>1. \A u, k : k \in Nat =>
        (QueuedAt(p, u, k)' <=> IF u = t THEN k >= 1 /\ QueuedAt(p, t, k + 1) ELSE QueuedAt(p, u, k))
  BY Popped
<1>2. \A u, k : QueuedAt(p, u, k)' => k \in Nat
  BY DEF QueuedAt
<1>3. \A u, k : QueuedAt(p, u, k) => u = t /\ k = 1
  BY DEF OneSpot
<1>4. ASSUME NEW u, NEW k, QueuedAt(p, u, k)' PROVE FALSE
  BY <1>1, <1>2, <1>3, <1>4
<1> QED
  BY <1>4 DEF OneSpot

LEMMA HeadOf ==
  ASSUME TypeInv, NEW t \in Threads, queue[t] # <<>>
  PROVE  /\ Head(queue[t]) \in Item /\ queue[t] \in Seq(Item)
         /\ \A p : QueuedAt(p, t, 1) <=> p = Head(queue[t]) /\ pc[t] # "request"
<1>1. queue[t] \in Seq(Item) /\ 1 \in 1..Len(queue[t]) /\ Head(queue[t]) = queue[t][1]
  BY DEF TypeInv
<1> QED
  BY <1>1 DEF QueuedAt

LEMMA SendFoundIInv == ASSUME IInv, NEW t \in Threads, SendFound(t) PROVE IInv'
<1> DEFINE h == Head(queue[t])
<1>1. TypeInv /\ ListInv /\ pc[t] = "lookup" /\ queue[t] # <<>>
  BY DEF IInv, SendFound
<1>2. \A p : QueuedAt(p, t, 1) <=> p = h
  BY <1>1, HeadOf
<1>3. /\ queue' = [queue EXCEPT ![t] = Tail(@)] /\ pc' = [pc EXCEPT ![t] = "lookup"]
      /\ UNCHANGED <<req_list, refused>> /\ sent' = [sent EXCEPT ![h] = @ + 1]
  <2>1. pc = [pc EXCEPT ![t] = "lookup"]
    BY <1>1 DEF TypeInv
  <2> QED
    BY <2>1 DEF SendFound, Emit
<1> HIDE DEF h
<1>4. \A p \in Packets : sent'[p] = IF p = h THEN sent[p] + 1 ELSE sent[p]
  BY <1>1, <1>3 DEF TypeInv
<1>5. TypeInv'
  <2>1. sent' \in [Packets -> Nat]
    <3>1. sent \in [Packets -> Nat]
      BY <1>1 DEF TypeInv
    <3>2. sent' = [p \in Packets |-> sent'[p]]
      BY <1>3, <3>1
    <3>3. \A p \in Packets : sent'[p] \in Nat
      BY <1>4, <3>1
    <3> QED
      BY <3>2, <3>3
  <2> QED
    BY <1>1, <1>3, <2>1, Popped DEF TypeInv
<1>6. ListInv'
  BY <1>1, <1>3 DEF ListInv, TypeInv
<1>7. ASSUME NEW p \in Packets PROVE OneSpot(p)'
  <2>1. OneSpot(p) /\ \A ip, k : WaitsAt(p, ip, k)' <=> WaitsAt(p, ip, k)
    BY <1>3 DEF IInv, WaitsAt
  <2>2. CASE p = h
    <3>1. /\ \A u, k : ~QueuedAt(p, u, k)'
          /\ sent[p] = 0 /\ p \notin refused /\ \A ip, j : ~WaitsAt(p, ip, j)
      BY <1>1, <1>2, <1>3, <2>1, <2>2, PoppedHead
    <3> QED
      BY <1>3, <1>4, <2>1, <2>2, <3>1 DEF OneSpot
  <2>3. CASE p # h
    BY <1>1, <1>2, <1>3, <1>4, <2>1, <2>3, PoppedOther
  <2> QED
    BY <2>2, <2>3
<1> QED
  BY <1>5, <1>6, <1>7 DEF IInv

LEMMA SendMissedIInv == ASSUME IInv, NEW t \in Threads, SendMissed(t) PROVE IInv'
<1>1. TypeInv /\ ListInv /\ pc[t] = "lookup" /\ queue[t] # <<>>
  BY DEF IInv, SendMissed
<1>2. pc' = [pc EXCEPT ![t] = "append"] /\ UNCHANGED <<req_list, queue, sent, refused>>
  BY DEF SendMissed
<1>3. TypeInv' /\ ListInv'
  BY <1>1, <1>2 DEF TypeInv, ListInv
<1>4. ASSUME NEW p \in Packets PROVE OneSpot(p)'
  <2>1. \A u, k : QueuedAt(p, u, k)' <=> QueuedAt(p, u, k)
    BY <1>1, <1>2 DEF QueuedAt, TypeInv
  <2>2. \A ip, k : WaitsAt(p, ip, k)' <=> WaitsAt(p, ip, k)
    BY <1>2 DEF WaitsAt
  <2> QED
    BY <1>2, <2>1, <2>2 DEF IInv, OneSpot
<1> QED
  BY <1>3, <1>4 DEF IInv

LEMMA AppendFoundIInv == ASSUME IInv, NEW t \in Threads, AppendFound(t) PROVE IInv'
<1> DEFINE h == Head(queue[t])
<1>1. TypeInv /\ ListInv /\ pc[t] = "append" /\ queue[t] # <<>>
  BY DEF IInv, AppendFound, ListInv
<1>2. /\ \A p : QueuedAt(p, t, 1) <=> p = h
      /\ h \in Item
  BY <1>1, HeadOf
<1>3. h.to \in All
  BY <1>2, Items
<1>4. /\ queue' = [queue EXCEPT ![t] = Tail(@)] /\ pc' = [pc EXCEPT ![t] = "lookup"]
      /\ UNCHANGED <<sent, refused>> /\ req_list[h.to].sent
      /\ req_list' = [req_list EXCEPT ![h.to].cached = Append(@, h)]
  BY DEF AppendFound
<1> HIDE DEF h
<1> DEFINE c == req_list[h.to].cached
<1>5. /\ c \in Seq(Item) /\ Append(c, h) \in Seq(Item) /\ Len(c) \in Nat
      /\ Len(Append(c, h)) = Len(c) + 1 /\ Append(c, h)[Len(c) + 1] = h
      /\ \A k \in 1..Len(c) : Append(c, h)[k] = c[k]
  BY <1>1, <1>2, <1>3, Places
<1>6. /\ \A ip \in All : ip # h.to => req_list'[ip] = req_list[ip]
      /\ req_list'[h.to].cached = Append(c, h) /\ req_list'[h.to].sent
      /\ req_list' \in [All -> [sent : BOOLEAN, young : BOOLEAN, retries : 0..Retries, cached : Seq(Item)]]
  BY <1>1, <1>3, <1>4, <1>5 DEF TypeInv
<1> HIDE DEF c
<1>7. TypeInv'
  BY <1>1, <1>4, <1>6, Popped DEF TypeInv
<1>8. ListInv'
  BY <1>1, <1>4, <1>6 DEF ListInv, TypeInv
<1>9. ASSUME NEW p, NEW ip, NEW k
      PROVE  WaitsAt(p, ip, k)' <=> WaitsAt(p, ip, k) \/ (p = h /\ ip = h.to /\ k = Len(c) + 1)
  <2>1. CASE ip # h.to
    BY <1>6, <2>1 DEF WaitsAt
  <2>2. CASE ip = h.to
    <3>1. WaitsAt(p, ip, k) <=> k \in 1..Len(c) /\ c[k] = p
      BY <1>3, <2>2 DEF WaitsAt, c
    <3>2. WaitsAt(p, ip, k)' <=> k \in 1..Len(Append(c, h)) /\ Append(c, h)[k] = p
      BY <1>3, <1>6, <2>2 DEF WaitsAt
    <3>3. k \in 1..(Len(c) + 1) <=> k \in 1..Len(c) \/ k = Len(c) + 1
      BY <1>5
    <3> QED
      BY <1>5, <2>2, <3>1, <3>2, <3>3
  <2> QED
    BY <2>1, <2>2
<1>10. ASSUME NEW p \in Packets PROVE OneSpot(p)'
  <2>1. OneSpot(p)
    BY DEF IInv
  <2>2. CASE p = h
    <3>1. /\ \A u, k : ~QueuedAt(p, u, k)'
          /\ sent[p] = 0 /\ p \notin refused /\ \A ip, j : ~WaitsAt(p, ip, j)
      BY <1>1, <1>2, <1>4, <2>1, <2>2, PoppedHead
    <3>2. \A ip, k : WaitsAt(p, ip, k)' <=> (ip = h.to /\ k = Len(c) + 1)
      BY <1>9, <2>2, <3>1
    <3> QED
      BY <1>4, <3>1, <3>2 DEF OneSpot
  <2>3. CASE p # h
    <3>1. \A ip, k : WaitsAt(p, ip, k)' <=> WaitsAt(p, ip, k)
      BY <1>9, <2>3
    <3> QED
      BY <1>1, <1>2, <1>4, <2>1, <2>3, <3>1, PoppedOther
  <2> QED
    BY <2>2, <2>3
<1> QED
  BY <1>7, <1>8, <1>10 DEF IInv

LEMMA AppendNewIInv == ASSUME IInv, NEW t \in Threads, AppendNew(t) PROVE IInv'
<1> DEFINE h == Head(queue[t])
           r == [sent |-> TRUE, young |-> TRUE, retries |-> 1, cached |-> <<h>>]
<1>1. TypeInv /\ ListInv /\ pc[t] = "append" /\ queue[t] # <<>>
  BY DEF IInv, AppendNew, ListInv
<1>2. /\ \A p : QueuedAt(p, t, 1) <=> p = h
      /\ h \in Item
  BY <1>1, HeadOf
<1>3. h.to \in All
  BY <1>2, Items
<1>4. /\ pc' = [pc EXCEPT ![t] = "request"] /\ UNCHANGED <<queue, sent, refused>>
      /\ ~req_list[h.to].sent /\ req_list' = [req_list EXCEPT ![h.to] = r]
  BY DEF AppendNew
<1> HIDE DEF h
<1>5. /\ \A ip \in All : ip # h.to => req_list'[ip] = req_list[ip]
      /\ req_list'[h.to] = r
  BY <1>1, <1>3, <1>4 DEF TypeInv
<1>6. r \in [sent : BOOLEAN, young : BOOLEAN, retries : 0..Retries, cached : Seq(Item)]
  <2>1. 1 \in 0..Retries /\ <<h>> \in Seq(Item)
    BY <1>2, ArpConstants
  <2> QED
    BY <2>1
<1>7. TypeInv'
  <2>1. req_list' \in [All -> [sent : BOOLEAN, young : BOOLEAN, retries : 0..Retries, cached : Seq(Item)]]
    <3> HIDE DEF r
    <3> QED
      BY <1>1, <1>3, <1>4, <1>6 DEF TypeInv
  <2>2. pc' \in [Threads -> {"lookup", "append", "request"}]
    BY <1>1, <1>4 DEF TypeInv
  <2> QED
    BY <1>1, <1>4, <2>1, <2>2 DEF TypeInv
<1>8. ListInv'
  <2>1. \A ip \in All : ~req_list'[ip].sent => req_list'[ip].cached = <<>>
    BY <1>1, <1>5 DEF ListInv
  <2>2. \A u \in Threads : pc'[u] # "lookup" => queue'[u] # <<>>
    BY <1>1, <1>4 DEF ListInv, TypeInv
  <2> QED
    BY <2>1, <2>2 DEF ListInv
<1>9. ASSUME NEW p, NEW ip, NEW k
      PROVE  WaitsAt(p, ip, k)' <=> WaitsAt(p, ip, k) \/ (p = h /\ ip = h.to /\ k = 1)
  <2>1. CASE ip # h.to
    BY <1>5, <2>1 DEF WaitsAt
  <2>2. CASE ip = h.to
    <3>1. req_list[h.to].cached = <<>>
      BY <1>1, <1>3, <1>4 DEF ListInv
    <3>2. ~WaitsAt(p, ip, k)
      BY <2>2, <3>1 DEF WaitsAt
    <3>3. req_list'[h.to].cached = <<h>>
      BY <1>5
    <3>4. WaitsAt(p, ip, k)' <=> k \in 1..Len(<<h>>) /\ <<h>>[k] = p
      BY <1>3, <2>2, <3>3 DEF WaitsAt
    <3> QED
      BY <2>2, <3>2, <3>4
  <2> QED
    BY <2>1, <2>2
<1>10. \A p, u, k : QueuedAt(p, u, k)' <=> QueuedAt(p, u, k) /\ ~(u = t /\ k = 1)
  BY <1>1, <1>4 DEF QueuedAt, TypeInv
<1>11. ASSUME NEW p \in Packets PROVE OneSpot(p)'
  <2>1. OneSpot(p)
    BY DEF IInv
  <2>2. CASE p = h
    <3>1. QueuedAt(p, t, 1)
      BY <1>2, <2>2
    <3>2. \A u, k : ~QueuedAt(p, u, k)'
      BY <1>10, <2>1, <3>1 DEF OneSpot
    <3>3. \A ip, k : WaitsAt(p, ip, k)' <=> (ip = h.to /\ k = 1)
      BY <1>9, <2>1, <2>2, <3>1 DEF OneSpot
    <3> QED
      BY <1>4, <2>1, <3>1, <3>2, <3>3 DEF OneSpot
  <2>3. CASE p # h
    <3>1. \A ip, k : WaitsAt(p, ip, k)' <=> WaitsAt(p, ip, k)
      BY <1>9, <2>3
    <3>2. \A u, k : QueuedAt(p, u, k)' <=> QueuedAt(p, u, k)
      BY <1>2, <1>10, <2>3
    <3> QED
      BY <1>4, <2>1, <3>1, <3>2 DEF OneSpot
  <2> QED
    BY <2>2, <2>3
<1> QED
  BY <1>7, <1>8, <1>11 DEF IInv

LEMMA AppendRequestIInv == ASSUME IInv, NEW t \in Threads, AppendRequest(t) PROVE IInv'
<1>1. TypeInv /\ ListInv /\ pc[t] = "request" /\ queue[t] # <<>>
  BY DEF IInv, AppendRequest, ListInv
<1>2. \A p : ~QueuedAt(p, t, 1)
  BY <1>1, HeadOf
<1>3. /\ queue' = [queue EXCEPT ![t] = Tail(@)] /\ pc' = [pc EXCEPT ![t] = "lookup"]
      /\ UNCHANGED <<req_list, sent, refused>>
  BY DEF AppendRequest
<1>4. TypeInv'
  BY <1>1, <1>3, Popped DEF TypeInv
<1>5. ListInv'
  BY <1>1, <1>3 DEF ListInv, TypeInv
<1>6. ASSUME NEW p \in Packets PROVE OneSpot(p)'
  <2>1. \A ip, k : WaitsAt(p, ip, k)' <=> WaitsAt(p, ip, k)
    BY <1>3 DEF WaitsAt
  <2> QED
    BY <1>1, <1>2, <1>3, <2>1, PoppedOther DEF IInv
<1> QED
  BY <1>4, <1>5, <1>6 DEF IInv

LEMMA HandleArpIInv == ASSUME IInv, NEW ip \in Ips, HandleArp(ip) PROVE IInv'
<1>1. TypeInv /\ ListInv /\ ip \in All
  BY DEF IInv, All
<1>2. /\ req_list' = [req_list EXCEPT ![ip] = NoRequest] /\ UNCHANGED <<queue, pc, refused>>
      /\ sent' = [p \in Packets |-> sent[p] + (IF \E k \in 1..Len(req_list[ip].cached) :
                                             req_list[ip].cached[k] = p THEN 1 ELSE 0)]
  BY DEF HandleArp, Flush
<1>3. \A p \in Packets : sent'[p] = IF \E k : WaitsAt(p, ip, k) THEN sent[p] + 1 ELSE sent[p]
  <2> SUFFICES ASSUME NEW p \in Packets
               PROVE sent'[p] = IF \E k : WaitsAt(p, ip, k) THEN sent[p] + 1 ELSE sent[p]
    OBVIOUS
  <2>1. (\E k : WaitsAt(p, ip, k)) <=> \E k \in 1..Len(req_list[ip].cached) : req_list[ip].cached[k] = p
    BY <1>1 DEF WaitsAt
  <2>2. sent[p] \in Nat
    BY <1>1, Places
  <2> QED
    BY <1>2, <2>1, <2>2
<1>4. TypeInv'
  <2>1. NoRequest \in [sent : BOOLEAN, young : BOOLEAN, retries : 0..Retries, cached : Seq(Item)]
    BY ArpConstants DEF NoRequest
  <2>2. sent' \in [Packets -> Nat]
    <3>1. \A p \in Packets : sent'[p] \in Nat
      BY <1>1, <1>3, Places
    <3> QED
      BY <1>2, <3>1
  <2> QED
    BY <1>1, <1>2, <2>1, <2>2 DEF TypeInv
<1>5. ListInv'
  BY <1>1, <1>2 DEF ListInv, TypeInv, NoRequest
<1>6. \A p, a, k : WaitsAt(p, a, k)' <=> WaitsAt(p, a, k) /\ a # ip
  BY <1>1, <1>2 DEF WaitsAt, TypeInv, NoRequest
<1>7. \A p, u, k : QueuedAt(p, u, k)' <=> QueuedAt(p, u, k)
  BY <1>2 DEF QueuedAt
<1>8. ASSUME NEW p \in Packets PROVE OneSpot(p)'
  <2>1. OneSpot(p)
    BY DEF IInv
  <2>2. CASE \E k : WaitsAt(p, ip, k)
    <3>1. /\ sent[p] = 0 /\ p \notin refused /\ \A u, k : ~QueuedAt(p, u, k)
          /\ \A a, k : ~WaitsAt(p, a, k)'
      BY <1>6, <2>1, <2>2 DEF OneSpot
    <3> QED
      BY <1>2, <1>3, <1>7, <2>2, <3>1 DEF OneSpot
  <2>3. CASE ~\E k : WaitsAt(p, ip, k)
    BY <1>2, <1>3, <1>6, <1>7, <2>1, <2>3 DEF OneSpot
  <2> QED
    BY <2>2, <2>3
<1> QED
  BY <1>4, <1>5, <1>8 DEF IInv

LEMMA FiniteWaiting ==
  ASSUME TypeInv, NEW ips \in SUBSET All
  PROVE  Cardinality(Waiting(ips)) \in Nat
<1> DEFINE c == [ip \in ips |-> {ip} \X (1..Len(req_list[ip].cached))]
           T == {{ip} \X (1..Len(req_list[ip].cached)) : ip \in ips}
<1>1. IsFiniteSet(ips)
  <2>1. IsFiniteSet(Ips \cup {Own})
    BY ArpConstants, FS_AddElement
  <2> QED
    BY <2>1, FS_Subset DEF All
<1>2. c \in Surjection(ips, T)
  BY DEF Surjection
<1>3. IsFiniteSet(T)
  <2> HIDE DEF c, T
  <2> QED
    BY <1>1, <1>2, FS_Surjection
<1>4. ASSUME NEW ip \in ips PROVE IsFiniteSet({ip} \X (1..Len(req_list[ip].cached)))
  <2>1. Len(req_list[ip].cached) \in Nat
    BY Places
  <2>2. IsFiniteSet(1..Len(req_list[ip].cached))
    BY <2>1, FS_Interval
  <2>3. IsFiniteSet({ip})
    BY FS_Singleton
  <2> QED
    BY <2>2, <2>3, FS_Product
<1>5. IsFiniteSet(UNION T)
  <2>1. \A U \in T : IsFiniteSet(U)
    BY <1>4
  <2> HIDE DEF T
  <2> QED
    BY <1>3, <2>1, FS_UNION
<1> QED
  BY <1>5, FS_CardinalityType DEF Waiting

LEMMA SweepPassIInv == ASSUME IInv, SweepPass PROVE IInv'
<1>1. TypeInv /\ ListInv /\ SweepThread \in Threads /\ queue[SweepThread] = <<>>
  BY DEF IInv, SweepPass, Threads
<1>2. PICK rest \in SUBSET MayRest :
        LET over == {ip \in Due(rest) : Exhausted(ip)}
        IN  /\ req_list' = [ip \in All |->
                 IF ip \in over THEN NoRequest
                 ELSE IF ip \in Due(rest)
                      THEN Repeated(ip)
                 ELSE [req_list[ip] EXCEPT !.young = FALSE]]
            /\ queue' = [queue EXCEPT ![SweepThread] =
                 [k \in 1..Cardinality(Waiting(over)) |-> Unreachable]]
            /\ refused' = refused \cup ({WaitingAt(x) : x \in Waiting(over)} \ {Unreachable})
  BY DEF SweepPass
<1> DEFINE over == {ip \in Due(rest) : Exhausted(ip)}
           N == Cardinality(Waiting(over))
           errors == [k \in 1..N |-> Unreachable]
<1>3. over \in SUBSET All /\ over \subseteq Due(rest)
  BY DEF Due
<1>4. N \in Nat
  BY <1>1, <1>3, FiniteWaiting
<1>5. \A ip \in All :
        /\ ip \in over => req_list'[ip] = NoRequest
        /\ ip \notin over => /\ req_list'[ip].cached = req_list[ip].cached
                             /\ req_list'[ip].sent = req_list[ip].sent
  BY <1>1, <1>2, Places DEF TypeInv, Repeated
<1>6. UNCHANGED <<pc, sent>>
  BY DEF SweepPass
<1>7. queue' = [queue EXCEPT ![SweepThread] = errors]
  BY <1>2
<1>8. refused' = refused \cup ({WaitingAt(x) : x \in Waiting(over)} \ {Unreachable})
  BY <1>2
<1>9. req_list' \in [All -> [sent : BOOLEAN, young : BOOLEAN, retries : 0..Retries, cached : Seq(Item)]]
  <2> DEFINE R == [sent : BOOLEAN, young : BOOLEAN, retries : 0..Retries, cached : Seq(Item)]
  <2>1. NoRequest \in R
    BY ArpConstants DEF NoRequest
  <2>2. ASSUME NEW ip \in All PROVE [req_list[ip] EXCEPT !.young = FALSE] \in R
    BY <1>1 DEF TypeInv
  <2>3. ASSUME NEW ip \in All, ~Exhausted(ip) PROVE Repeated(ip) \in R
    <3>1. req_list[ip] \in R
      BY <1>1 DEF TypeInv
    <3>2. req_list[ip].retries + 1 \in 0..Retries
      BY <2>3, <3>1, ArpConstants DEF Exhausted
    <3> QED
      BY <3>1, <3>2 DEF Repeated
  <2>4. ASSUME NEW ip \in All PROVE req_list'[ip] \in R
    <3>1. CASE ip \in over
      BY <1>2, <2>1, <3>1
    <3>2. CASE ip \notin over /\ ip \in Due(rest)
      BY <1>2, <2>3, <3>2
    <3>3. CASE ip \notin Due(rest)
      BY <1>2, <2>2, <3>3
    <3> QED
      BY <3>1, <3>2, <3>3
  <2>5. req_list' = [ip \in All |-> req_list'[ip]]
    BY <1>2
  <2> QED
    BY <2>4, <2>5
<1>10. TypeInv'
  <2>1. errors \in Seq(Item)
    BY <1>4 DEF Item
  <2> HIDE DEF errors
  <2>2. queue' \in [Threads -> Seq(Item)]
    BY <1>1, <1>7, <2>1 DEF TypeInv
  <2> QED
    BY <1>1, <1>6, <1>9, <2>2 DEF TypeInv
<1>11. ListInv'
  <2>1. \A ip \in All : ~req_list'[ip].sent => req_list'[ip].cached = <<>>
    BY <1>1, <1>5 DEF ListInv, NoRequest
  <2>2. \A t \in Threads : pc[t] # "lookup" => t # SweepThread /\ queue'[t] = queue[t]
    BY <1>1, <1>7 DEF ListInv, TypeInv
  <2> QED
    BY <1>1, <1>6, <2>1, <2>2 DEF ListInv
<1>12. \A p, a, k : WaitsAt(p, a, k)' <=> WaitsAt(p, a, k) /\ a \notin over
  BY <1>5 DEF WaitsAt, NoRequest
<1>13. ASSUME NEW p \in Packets, NEW u, NEW k
       PROVE  QueuedAt(p, u, k)' <=> QueuedAt(p, u, k)
  <2>1. CASE u = SweepThread
    <3>1. ~QueuedAt(p, u, k)
      BY <1>1, <2>1 DEF QueuedAt
    <3>2. queue'[u] = errors /\ Len(errors) = N
      BY <1>1, <1>4, <1>7, <2>1 DEF TypeInv
    <3>3. \A j \in 1..N : errors[j] # p
      BY <1>13, Items
    <3> HIDE DEF errors, N
    <3> QED
      BY <3>1, <3>2, <3>3 DEF QueuedAt
  <2>2. CASE u # SweepThread
    BY <1>6, <1>7, <2>2 DEF QueuedAt
  <2> QED
    BY <2>1, <2>2
<1>14. ASSUME NEW p \in Packets
       PROVE  p \in refused' <=> p \in refused \/ \E a \in over : \E k : WaitsAt(p, a, k)
  <2>1. p # Unreachable
    BY <1>14, Items
  <2>2. (\E x \in Waiting(over) : WaitingAt(x) = p) <=> \E a \in over : \E k : WaitsAt(p, a, k)
    <3> HIDE DEF over
    <3>1. \A x : x \in Waiting(over) <=> \E a \in over, k \in Nat : k \in 1..Len(req_list[a].cached) /\ x = <<a, k>>
      BY <1>1, <1>3, Places DEF Waiting
    <3>2. \A a \in over : \A k : WaitsAt(p, a, k) <=> k \in 1..Len(req_list[a].cached) /\ WaitingAt(<<a, k>>) = p
      BY <1>3 DEF WaitingAt, WaitsAt
    <3>3. \A a \in over : \A k : k \in 1..Len(req_list[a].cached) => k \in Nat
      OBVIOUS
    <3> QED
      BY <3>1, <3>2, <3>3
  <2> QED
    BY <1>8, <2>1, <2>2
<1>15. ASSUME NEW p \in Packets PROVE OneSpot(p)'
  <2> HIDE DEF over
  <2>1. OneSpot(p)
    BY DEF IInv
  <2>2. CASE \E a \in over : \E k : WaitsAt(p, a, k)
    <3>1. PICK a, j : a \in over /\ WaitsAt(p, a, j)
      BY <2>2
    <3>2. sent[p] = 0 /\ \A u, k : ~QueuedAt(p, u, k)
      BY <2>1, <3>1 DEF OneSpot
    <3>3. \A b, k : ~WaitsAt(p, b, k)'
      BY <1>12, <2>1, <3>1 DEF OneSpot
    <3>4. p \in refused'
      BY <1>14, <3>1
    <3> QED
      BY <1>6, <1>13, <3>2, <3>3, <3>4 DEF OneSpot
  <2>3. CASE ~\E a \in over : \E k : WaitsAt(p, a, k)
    <3>1. \A a, k : WaitsAt(p, a, k)' <=> WaitsAt(p, a, k)
      BY <1>12, <2>3
    <3>2. p \in refused' <=> p \in refused
      BY <1>14, <2>3
    <3> QED
      BY <1>6, <1>13, <2>1, <3>1, <3>2 DEF OneSpot
  <2> QED
    BY <2>2, <2>3
<1> QED
  BY <1>10, <1>11, <1>15 DEF IInv

LEMMA NextIInv == IInv /\ [Next]_vars => IInv'
<1> SUFFICES ASSUME IInv, [Next]_vars PROVE IInv'
  OBVIOUS
<1>1. ASSUME NEW t \in Threads, SendByArp(t) PROVE IInv'
  BY <1>1, SendFoundIInv, SendMissedIInv, AppendFoundIInv, AppendNewIInv, AppendRequestIInv
     DEF SendByArp
<1>2. ASSUME NEW ip \in Ips, Answer(ip) \/ Ask(ip) PROVE IInv'
  BY <1>2, KeptIInv DEF Answer, Ask
<1>3. ASSUME NEW m \in wire, Lose(m) PROVE IInv'
  BY <1>3, KeptIInv DEF Lose
<1>4. ASSUME UNCHANGED vars PROVE IInv'
  BY <1>4, KeptIInv DEF vars
<1> QED
  BY <1>1, <1>2, <1>3, <1>4, HandleArpIInv, SweepPassIInv DEF Next

LEMMA IInvInOnePlace == IInv => InOnePlace
<1> SUFFICES ASSUME IInv PROVE InOnePlace
  OBVIOUS
<1>1. TypeOK
  BY Places DEF IInv, TypeOK, Item
<1>2. ASSUME NEW p \in Packets PROVE Cardinality(Spots(p)) = 1
  <2>1. PICK x : x \in Spots(p) /\ \A y \in Spots(p) : y = x
    BY OneSpotAlone DEF IInv
  <2>2. Spots(p) = {x}
    BY <2>1
  <2> QED
    BY <2>2, FS_Singleton
<1> QED
  BY <1>1, <1>2 DEF InOnePlace

\* Every packet waits, is on its way with one thread, is sent or is refused, and never
\* two of these: the append that comes after a lookup without the lock
\* (arpcache.c:35-72), the reply that flushes the list (75-126) and the sweep that
\* gives it up (159-207) neither lose a packet nor send it twice.
THEOREM PacketsStayInOnePlace == Spec => []InOnePlace
<1>1. Init => IInv
  BY InitIInv
<1>2. IInv /\ [Next]_vars => IInv'
  BY NextIInv
<1>3. IInv => InOnePlace
  BY IInvInOnePlace
<1> QED
  BY <1>1, <1>2, <1>3, PTL DEF Spec
=============================================================================
