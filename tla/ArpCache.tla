------------------------------ MODULE ArpCache ------------------------------
(***************************************************************************)
(* The ARP cache of Lab10 to Lab15 (16-tcp_stack/arpcache.c, arp.c): the    *)
(* table of addresses, the packets that wait for one, and the threads that  *)
(* meet there.  Any thread of the stack sends (iface_send_packet_by_arp),   *)
(* the IP thread inserts what ARP packets say, the sweep thread ages        *)
(* entries, repeats requests and refuses packets, then sends the ICMP       *)
(* errors itself.  Every use of arpcache.lock is one step.                  *)
(*                                                                          *)
(* A host with one interface: req_list has at most one request for an       *)
(* address, and every packet comes from the interface's own address.        *)
(***************************************************************************)
EXTENDS Integers, Sequences, FiniteSets, SequencesExt

CONSTANTS
  Ips,           \* neighbours' addresses
  Own,           \* the interface's address, which no neighbour answers for
  Answering,     \* neighbours that are up
  Slots,         \* indexes of arpcache.entries: MAX_ARP_SIZE of them
  Retries,       \* ARP_REQUEST_MAX_RETRIES
  Senders,       \* threads that send packets
  Work,          \* the packets each of them sends, in order
  MaxOdd         \* bound: ARP packets lost, or sent by neighbours unasked

SweepThread == "arpcache_sweep"
Threads     == Senders \cup {SweepThread}

Packet == [no : Nat \ {0}, to : Ips]

\* icmp_send_packet(HOST_UNREACH) answers to the source of the packet, here the host
\* itself: it looks up its own address, for which nobody answers.
Unreachable == [no |-> 0, to |-> Own]

ASSUME ArpConstants ==
  /\ IsFiniteSet(Ips) /\ Own \notin Ips /\ Answering \subseteq Ips
  /\ Retries \in Nat \ {0} /\ MaxOdd \in Nat
  /\ SweepThread \notin Senders
  /\ Work \in [Senders -> Seq(Packet)]
  /\ \A s, u \in Senders : \A j \in 1..Len(Work[s]), k \in 1..Len(Work[u]) :
       Work[s][j] = Work[u][k] => s = u /\ j = k

VARIABLES
  entries,       \* the address of every slot, NoIp where valid is 0
  req_list,      \* the request pending for an address
  queue,         \* what each thread has still to send: pkt_list for the sweep
  pc,            \* where it is in iface_send_packet_by_arp
  wire,          \* ARP packets under way: <<"request", ip>>, <<"from", ip>>
  sent,          \* packets given to the link layer, with their number
  refused,       \* packets dropped by the sweep
  odd

vars == <<entries, req_list, queue, pc, wire, sent, refused, odd>>

NoIp      == "none"
NoRequest == [sent |-> FALSE, young |-> FALSE, retries |-> 0, cached |-> <<>>]
All       == Ips \cup {Own}

----------------------------------------------------------------------------
\* arpcache_lookup
Cached(ip) == \E k \in Slots : entries[k] = ip

\* arp_send_request
Request(ip) == <<"request", ip>>

Emit(p) == sent' = [sent EXCEPT ![p] = @ + 1]

Packets == UNION {Range(Work[s]) : s \in Senders}

Init ==
  /\ entries = [k \in Slots |-> NoIp]
  /\ req_list = [ip \in All |-> NoRequest]
  /\ queue = [t \in Threads |-> IF t \in Senders THEN Work[t] ELSE <<>>]
  /\ pc = [t \in Threads |-> "lookup"]
  /\ wire = {} /\ refused = {}
  /\ sent = [p \in Packets |-> 0]
  /\ odd = 0

\* iface_send_packet_by_arp: with the address known the packet leaves,
SendFound(t) ==
  /\ pc[t] = "lookup" /\ queue[t] # <<>>
  /\ Cached(Head(queue[t]).to)
  /\ Emit(Head(queue[t]))
  /\ queue' = [queue EXCEPT ![t] = Tail(@)]
  /\ UNCHANGED <<entries, req_list, pc, wire, refused, odd>>

\* without it the lock is given back before arpcache_append_packet takes it again.
SendMissed(t) ==
  /\ pc[t] = "lookup" /\ queue[t] # <<>>
  /\ ~Cached(Head(queue[t]).to)
  /\ pc' = [pc EXCEPT ![t] = "append"]
  /\ UNCHANGED <<entries, req_list, queue, wire, sent, refused, odd>>

\* arpcache_append_packet: behind those that wait for the address,
AppendFound(t) ==
  LET p == Head(queue[t])
  IN  /\ pc[t] = "append" /\ req_list[p.to].sent
      /\ req_list' = [req_list EXCEPT ![p.to].cached = Append(@, p)]
      /\ queue' = [queue EXCEPT ![t] = Tail(@)]
      /\ pc' = [pc EXCEPT ![t] = "lookup"]
      /\ UNCHANGED <<entries, wire, sent, refused, odd>>

\* or as the first of them; the request goes out after the unlock.
AppendNew(t) ==
  LET p == Head(queue[t])
  IN  /\ pc[t] = "append" /\ ~req_list[p.to].sent
      /\ req_list' = [req_list EXCEPT ![p.to] =
                        [sent |-> TRUE, young |-> TRUE, retries |-> 1, cached |-> <<p>>]]
      /\ pc' = [pc EXCEPT ![t] = "request"]
      /\ UNCHANGED <<entries, queue, wire, sent, refused, odd>>

AppendRequest(t) ==
  /\ pc[t] = "request"
  /\ wire' = wire \cup {Request(Head(queue[t]).to)}
  /\ queue' = [queue EXCEPT ![t] = Tail(@)]
  /\ pc' = [pc EXCEPT ![t] = "lookup"]
  /\ UNCHANGED <<entries, req_list, sent, refused, odd>>

SendByArp(t) ==
  SendFound(t) \/ SendMissed(t) \/ AppendFound(t) \/ AppendNew(t) \/ AppendRequest(t)

\* Slip: no look for an entry of the same address.
StoreAnyway(ip) ==
  \E k \in Slots : entries' = [entries EXCEPT ![k] = ip]

\* arpcache_insert, the table: an entry of that address is kept.  Otherwise a random
\* slot is taken if there is a free one anywhere; with none, pos is -1 and the entry
\* is written in front of the table, where no lookup finds it.
Store(ip) ==
  IF Cached(ip) \/ \A k \in Slots : entries[k] # NoIp
  THEN UNCHANGED entries
  ELSE \E k \in Slots : entries' = [entries EXCEPT ![k] = ip]

\* Slip: the request stays in the list.
FlushKeeps(ip) ==
  /\ sent' = [p \in Packets |-> sent[p] + (IF \E k \in 1..Len(req_list[ip].cached) :
                                             req_list[ip].cached[k] = p THEN 1 ELSE 0)]
  /\ UNCHANGED req_list

\* ... and its waiting packets: they leave in order and the request is freed.
Flush(ip) ==
  /\ sent' = [p \in Packets |-> sent[p] + (IF \E k \in 1..Len(req_list[ip].cached) :
                                             req_list[ip].cached[k] = p THEN 1 ELSE 0)]
  /\ req_list' = [req_list EXCEPT ![ip] = NoRequest]

\* handle_arp_packet: a reply or a request from a neighbour.
HandleArp(ip) ==
  /\ <<"from", ip>> \in wire
  /\ wire' = wire \ {<<"from", ip>>}
  /\ Store(ip) /\ Flush(ip)
  /\ UNCHANGED <<queue, pc, refused, odd>>

----------------------------------------------------------------------------
\* The requests the sweep passes over: now - sent < 1.
MayRest == {ip \in All : req_list[ip].sent /\ req_list[ip].young}

Due(rest) == {ip \in All : req_list[ip].sent /\ ip \notin rest}

\* Slip: the request is sent again and not counted.
RepeatedUncounted(ip) == [req_list[ip] EXCEPT !.young = FALSE]

Repeated(ip) == [req_list[ip] EXCEPT !.retries = @ + 1, !.young = FALSE]

Exhausted(ip) == req_list[ip].retries >= Retries

\* The packets that wait for one of ips: the address and the place in its list.
Waiting(ips) == UNION {{ip} \X (1..Len(req_list[ip].cached)) : ip \in ips}

WaitingAt(x) == req_list[x[1]].cached[x[2]]

\* arpcache_sweep under the lock: entries older than 15 s go (aged), a due request is
\* repeated, an exhausted one is freed and its packets moved to pkt_list.
SweepPass ==
  /\ queue[SweepThread] = <<>> /\ pc[SweepThread] = "lookup"
  /\ \E aged \in SUBSET {k \in Slots : entries[k] # NoIp}, rest \in SUBSET MayRest :
       LET over == {ip \in Due(rest) : Exhausted(ip)}
       IN  /\ entries' = [k \in Slots |-> IF k \in aged THEN NoIp ELSE entries[k]]
           /\ req_list' = [ip \in All |->
                IF ip \in over THEN NoRequest
                ELSE IF ip \in Due(rest)
                     THEN Repeated(ip)
                ELSE [req_list[ip] EXCEPT !.young = FALSE]]
           /\ wire' = wire \cup {Request(ip) : ip \in Due(rest) \ over}
           /\ queue' = [queue EXCEPT ![SweepThread] =
                [k \in 1..Cardinality(Waiting(over)) |-> Unreachable]]
           /\ refused' = refused \cup ({WaitingAt(x) : x \in Waiting(over)} \ {Unreachable})
  /\ UNCHANGED <<pc, sent, odd>>

\* The neighbours and the link.
Answer(ip) ==
  /\ ip \in Answering /\ Request(ip) \in wire
  /\ wire' = (wire \ {Request(ip)}) \cup {<<"from", ip>>}
  /\ UNCHANGED <<entries, req_list, queue, pc, sent, refused, odd>>

Ask(ip) ==
  /\ ip \in Answering /\ odd < MaxOdd
  /\ odd' = odd + 1
  /\ wire' = wire \cup {<<"from", ip>>}
  /\ UNCHANGED <<entries, req_list, queue, pc, sent, refused>>

Lose(m) ==
  /\ odd < MaxOdd
  /\ odd' = odd + 1
  /\ wire' = wire \ {m}
  /\ UNCHANGED <<entries, req_list, queue, pc, sent, refused>>

Next ==
  \/ \E t \in Threads : SendByArp(t)
  \/ SweepPass
  \/ \E ip \in Ips : HandleArp(ip) \/ Answer(ip) \/ Ask(ip)
  \/ \E m \in wire : Lose(m)

\* Every thread runs, the sweep once a second; a neighbour that is up answers.
Fairness ==
  /\ \A t \in Threads : WF_vars(SendByArp(t))
  /\ WF_vars(SweepPass)
  /\ \A ip \in Ips : WF_vars(HandleArp(ip)) /\ WF_vars(Answer(ip))

Spec == Init /\ [][Next]_vars /\ Fairness

----------------------------------------------------------------------------
TypeOK ==
  /\ \A ip \in All :
       /\ req_list[ip].cached \in Seq(Packets \cup {Unreachable})
       /\ req_list[ip].retries \in 0..Retries
  /\ \A t \in Threads :
       /\ queue[t] \in Seq(Packets \cup {Unreachable})
       /\ pc[t] \in {"lookup", "append", "request"}

\* An address has at most one valid entry, so that the first one a lookup finds is
\* also the one an insert refreshes and the sweep ages.
OneEntry ==
  /\ entries \in [Slots -> Ips \cup {NoIp}]
  /\ \A j, k \in Slots : entries[j] = entries[k] /\ entries[j] # NoIp => j = k

\* The spots where p is.  A thread about to request has left its packet in req_list.
Queued == UNION {{t} \X (1..Len(queue[t])) : t \in Threads}

Spots(p) ==
  {<<"waits", x>> : x \in {x \in Waiting(All) : WaitingAt(x) = p}}
  \cup {<<"queued", x>> : x \in {x \in Queued : /\ queue[x[1]][x[2]] = p
                                              /\ ~(x[2] = 1 /\ pc[x[1]] = "request")}}
  \cup {<<"sent", n>> : n \in 1..sent[p]}
  \cup {<<"refused", x>> : x \in {p} \cap refused}

\* Every packet is somewhere and in one place only: it waits, is sent or is refused,
\* and never two of these, wherever the sweep and the IP thread meet it.
InOnePlace == TypeOK /\ \A p \in Packets : Cardinality(Spots(p)) = 1

\* Every packet is sent or refused in the end: no race of a sender, an answer and the
\* sweep leaves one in a list that nobody looks at again.
AllSettled == \A p \in Packets : <>(sent[p] = 1 \/ p \in refused)
=============================================================================
