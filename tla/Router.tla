------------------------------- MODULE Router -------------------------------
(***************************************************************************)
(* The router of Lab7 (09-router/ip.c, ip_base.c, icmp.c, arp.c,            *)
(* arpcache.c): static routes, ICMP answers, and an ARP cache of its own,   *)
(* written before the one the later labs use.  Several routers stand        *)
(* between hosts that ping addresses and trace the way to them.             *)
(*                                                                          *)
(* An address is a pair of a node and a net.  In a router the IP thread     *)
(* forwards and answers, the sweep thread repeats requests and refuses      *)
(* packets; arpcache.lock is taken once for the lookup and once for the     *)
(* append.  Packets that wait together leave together, and the links keep   *)
(* no order, so that lists of packets are sets.                             *)
(***************************************************************************)
EXTENDS Integers, Sequences, FiniteSets

CONSTANTS
  Routers,
  Ifaces,        \* the addresses of the routers
  rtable,        \* of every router: entries [nets, len, gw, out]
  Hosts, HostAddr, Gateway,
  Gone,          \* hosts that answer no ARP request any more
  Journeys,      \* of every host: lists of probes [dst, ttl], one of which it sends
  DefaultTtl,    \* DEFAULT_TTL
  Slots,         \* indexes of arpcache.entries
  Retries,       \* ARP_REQUEST_MAX_RETRIES
  MaxLoss        \* bound: ARP packets the links lose

NoGw   == <<"none", "none">>
Known  == Ifaces \cup {HostAddr[h] : h \in Hosts}
Held   == Known \ {HostAddr[h] : h \in Gone}
Probes == UNION {UNION {{j[k] : k \in 1..Len(j)} : j \in Journeys[h]} : h \in Hosts}

VARIABLES
  entries,       \* arpcache.entries of every router: an address, NoGw if not valid
  req_list,      \* the pending requests of every router
  hand,          \* what a thread takes from its lookup to its append
  tmp_list,      \* packets the sweep has to answer for
  wire,          \* ARP and IP packets under way
  trip,          \* the probes of every host
  sent,          \* and how many of them it has sent
  got,           \* the answers that came back
  losses

vars == <<entries, req_list, hand, tmp_list, wire, trip, sent, got, losses>>

Targets   == {p.dst : p \in Probes} \cup Known
Threads   == Routers \X {"ip", "sweep"}
NoHand    == [via |-> NoGw]
NoRequest == [retries |-> 0, cached_packets |-> {}]

----------------------------------------------------------------------------
\* longest_prefix_match: the first entry with the longest mask, 0 if there is none.
\* A mask of no bits is never longer than max_mask.
Match(r, dst) ==
  LET hits == {k \in 1..Len(rtable[r]) : dst[2] \in rtable[r][k].nets /\ rtable[r][k].len > 0}
  IN  IF hits = {} THEN 0
      ELSE CHOOSE k \in hits : \A j \in hits :
             \/ rtable[r][j].len < rtable[r][k].len
             \/ rtable[r][j].len = rtable[r][k].len /\ k <= j

NextHop(r, dst) ==
  LET e == rtable[r][Match(r, dst)] IN IF e.gw = NoGw THEN dst ELSE e.gw

\* icmp_send_packet reads the interface of the route back without a test for NULL.
ASSUME RoutesBack == \A r \in Routers : \A a \in Known : Match(r, a) # 0

\* A route without a gateway is to the net of its interface; a gateway is on that net.
ASSUME RoutesLead ==
  \A r \in Routers :
    /\ Len(rtable[r]) \in Nat
    /\ \A k \in 1..Len(rtable[r]) :
         LET e == rtable[r][k]
         IN  /\ e.len \in 0..32 /\ <<r, e.out>> \in Ifaces
             /\ IF e.gw = NoGw THEN e.nets = {e.out}
                ELSE e.gw \in Ifaces /\ e.gw[1] # r /\ e.gw[2] = e.out

ASSUME RouterConstants ==
  /\ Retries \in Nat /\ MaxLoss \in Nat /\ DefaultTtl \in Nat \ {0} /\ Gone \subseteq Hosts
  /\ NoGw \notin Targets /\ \A a \in Targets : a = <<a[1], a[2]>>
  /\ \A a \in Ifaces : a[1] \in Routers
  /\ \A h \in Hosts : HostAddr[h][1] \notin Routers
  /\ \A g, h \in Hosts : HostAddr[g] = HostAddr[h] => g = h
  /\ \A h \in Hosts : Gateway[h] \in Ifaces /\ Gateway[h][2] = HostAddr[h][2]
  /\ \A p \in Probes : p.ttl \in 1..DefaultTtl
  /\ \A h \in Hosts : \A j \in Journeys[h] : Len(j) \in Nat

Routed(r, p) == [via |-> NextHop(r, p.dst), pkt |-> p]

\* icmp_send_packet: an answer of r to the sender of p, by the way back.
Icmp(r, p, kind) ==
  Routed(r, [no |-> p.no, kind |-> kind, ttl |-> DefaultTtl, dst |-> p.src,
             src |-> <<r, rtable[r][Match(r, p.src)].out>>])

\* Slip: the time is over when the packet comes with none left.
HandleIpLate(r, iface, p) ==
  IF p.kind = "echo" /\ p.dst = iface THEN Icmp(r, p, "reply")
  ELSE IF p.ttl <= 0 THEN Icmp(r, p, "time")
  ELSE IF Match(r, p.dst) = 0 THEN Icmp(r, p, "net")
  ELSE Routed(r, [p EXCEPT !.ttl = @ - 1])

\* handle_ip_packet: what becomes of packet p that came in by iface, and where it goes.
HandleIp(r, iface, p) ==
  IF p.kind = "echo" /\ p.dst = iface THEN Icmp(r, p, "reply")
  ELSE IF p.ttl - 1 <= 0 THEN Icmp(r, p, "time")
  ELSE IF Match(r, p.dst) = 0 THEN Icmp(r, p, "net")
  ELSE Routed(r, [p EXCEPT !.ttl = @ - 1])

----------------------------------------------------------------------------
Ip(to, p) == [type |-> "ip", to |-> to, pkt |-> p]
Arp(type, from, to, of) == [type |-> type, from |-> from, to |-> to, of |-> of]

\* arp_send_request: every router on the net hears it, and the host it is for.
Requests(from, of) ==
  {Arp("request", from, q, of) : q \in {q \in Held \ {from} :
     q[2] = from[2] /\ (q \in Ifaces \/ q = of)}}

Init ==
  /\ entries = [r \in Routers |-> [k \in Slots |-> NoGw]]
  /\ req_list = [r \in Routers |-> [a \in Targets |-> NoRequest]]
  /\ hand = [t \in Threads |-> NoHand]
  /\ tmp_list = [r \in Routers |-> {}]
  /\ wire = {} /\ got = {} /\ losses = 0
  /\ trip \in {t \in [Hosts -> UNION {Journeys[h] : h \in Hosts}] : \A h \in Hosts : t[h] \in Journeys[h]}
  /\ sent = [h \in Hosts |-> 0]

\* iface_send_packet_by_arp up to its lookup: out leaves, or waits for the append.
Lookup(t, out, others) ==
  IF \E k \in Slots : entries[t[1]][k] = out.via
  THEN wire' = others \cup {Ip(out.via, out.pkt)} /\ UNCHANGED hand
  ELSE wire' = others /\ hand' = [hand EXCEPT ![t] = out]

\* The IP thread takes an IP packet.
HandleIpPacket(r) ==
  \E m \in wire :
    /\ m.type = "ip" /\ m.to[1] = r /\ hand[<<r, "ip">>] = NoHand
    /\ Lookup(<<r, "ip">>, HandleIp(r, m.to, m.pkt), wire \ {m})
    /\ UNCHANGED <<entries, req_list, tmp_list, trip, sent, got, losses>>

Pending(r, a) == req_list[r][a].cached_packets # {}

\* arpcache_append_packet: the first packet makes the request, which is sent before
\* the lock is given back.
AppendPacket(t) ==
  LET r == t[1]
      a == hand[t].via
  IN  /\ hand[t] # NoHand
      /\ req_list' = [req_list EXCEPT ![r][a].cached_packets = @ \cup {hand[t].pkt}]
      /\ wire' = IF Pending(r, a) THEN wire ELSE wire \cup Requests(<<r, a[2]>>, a)
      /\ hand' = [hand EXCEPT ![t] = NoHand]
      /\ UNCHANGED <<entries, tmp_list, trip, sent, got, losses>>

\* arpcache_insert, the table: the first free slot, or any; an entry of the same
\* address is not looked for.
Store(r, a) ==
  LET free == {k \in Slots : entries[r][k] = NoGw}
  IN  \E k \in Slots :
        /\ free # {} => k \in free /\ \A j \in free : k <= j
        /\ entries' = [entries EXCEPT ![r][k] = a]

\* Slip: the request stays, with its packets.
FreedNot(r, a) == req_list

\* ... and the request for a, which is freed once its packets have left.
Freed(r, a) == [req_list EXCEPT ![r][a] = NoRequest]

\* handle_arp_packet: a request for this interface is answered; the sender of any
\* request and of a reply is inserted.
HandleArpPacket(r) ==
  \E m \in wire :
    /\ m.type # "ip" /\ m.to[1] = r /\ hand[<<r, "ip">>] = NoHand
    /\ Store(r, m.from)
    /\ wire' = (wire \ {m})
         \cup {Ip(m.from, p) : p \in req_list[r][m.from].cached_packets}
         \cup IF m.type = "request" /\ m.of = m.to
              THEN {Arp("reply", m.to, m.from, m.to)} ELSE {}
    /\ req_list' = Freed(r, m.from)
    /\ UNCHANGED <<hand, tmp_list, trip, sent, got, losses>>

Exhausted(r, a) == req_list[r][a].retries > Retries

\* Slip: a request that is sent again is not counted.
RepeatedUncounted(r, a) == req_list[r][a]

Repeated(r, a) == [req_list[r][a] EXCEPT !.retries = @ + 1]

\* arpcache_sweep under the lock: aged entries go, the requests of due, whose last
\* sending was more than a second ago, are sent again, and those that were often enough
\* are freed.  An ARP exchange takes less than a second.
Repeatable(r) == {a \in Targets : Pending(r, a) /\ ~Exhausted(r, a)}
GivenUp(r)    == {a \in Targets : Pending(r, a) /\ Exhausted(r, a)}

SweepPass(r, due, aged) ==
  /\ tmp_list[r] = {} /\ hand[<<r, "sweep">>] = NoHand
  /\ \A m \in wire : m.type # "ip" => r \notin {m.from[1], m.to[1]}
  /\ entries' = [entries EXCEPT ![r] = [k \in Slots |-> IF k \in aged THEN NoGw ELSE @[k]]]
  /\ req_list' = [req_list EXCEPT ![r] = [a \in Targets |->
       IF a \in GivenUp(r) THEN NoRequest ELSE IF a \in due THEN Repeated(r, a) ELSE @[a]]]
  /\ wire' = wire \cup UNION {Requests(<<r, a[2]>>, a) : a \in due}
  /\ tmp_list' = [tmp_list EXCEPT ![r] = UNION {req_list[r][a].cached_packets : a \in GivenUp(r)}]
  /\ UNCHANGED <<hand, trip, sent, got, losses>>

Sweep(r) ==
  \E due \in SUBSET Repeatable(r), aged \in SUBSET {k \in Slots : entries[r][k] # NoGw} :
    SweepPass(r, due, aged)

\* ... and after the unlock: an answer for every packet that was refused.
SweepRefuses(r) ==
  \E p \in tmp_list[r] :
    /\ hand[<<r, "sweep">>] = NoHand
    /\ tmp_list' = [tmp_list EXCEPT ![r] = @ \ {p}]
    /\ Lookup(<<r, "sweep">>, Icmp(r, p, "host"), wire)
    /\ UNCHANGED <<entries, req_list, trip, sent, got, losses>>

----------------------------------------------------------------------------
\* The hosts' own stacks.  A packet's number is the host and the place of its probe.
Sending(h, dst, ttl, kind, no) ==
  Ip(Gateway[h], [no |-> no, kind |-> kind, ttl |-> ttl, dst |-> dst, src |-> HostAddr[h]])

\* ping or traceroute; the kernel asks for the gateway first, if it has to.
HostSends(h) ==
  /\ sent[h] < Len(trip[h])
  /\ sent' = [sent EXCEPT ![h] = @ + 1]
  /\ LET p == trip[h][sent'[h]]
     IN  \E asks \in SUBSET {Arp("request", HostAddr[h], Gateway[h], Gateway[h])} :
           wire' = wire \cup asks
                     \cup {Sending(h, p.dst, p.ttl, "echo", [host |-> h, nth |-> sent'[h]])}
  /\ UNCHANGED <<entries, req_list, hand, tmp_list, trip, got, losses>>

HostTakes(h) ==
  \E m \in wire :
    /\ m.to = HostAddr[h]
    /\ \/ /\ m.type = "request"
          /\ wire' = (wire \ {m}) \cup {Arp("reply", m.to, m.from, m.to)}
          /\ UNCHANGED got
       \/ /\ m.type = "reply"
          /\ wire' = wire \ {m} /\ UNCHANGED got
       \/ /\ m.type = "ip" /\ m.pkt.kind = "echo"
          /\ wire' = (wire \ {m}) \cup {Sending(h, m.pkt.src, DefaultTtl, "reply", m.pkt.no)}
          /\ UNCHANGED got
       \/ /\ m.type = "ip" /\ m.pkt.kind # "echo"
          /\ wire' = wire \ {m}
          /\ got' = got \cup {[no |-> m.pkt.no, kind |-> m.pkt.kind, src |-> m.pkt.src]}
    /\ UNCHANGED <<entries, req_list, hand, tmp_list, trip, sent, losses>>

LoseArp ==
  \E m \in wire :
    /\ m.type # "ip" /\ losses < MaxLoss
    /\ losses' = losses + 1
    /\ wire' = wire \ {m}
    /\ UNCHANGED <<entries, req_list, hand, tmp_list, trip, sent, got>>

Next ==
  \/ \E r \in Routers : \/ HandleIpPacket(r) \/ HandleArpPacket(r) \/ SweepRefuses(r)
                        \/ Sweep(r)
  \/ \E t \in Threads : AppendPacket(t)
  \/ \E h \in Hosts : HostSends(h) \/ HostTakes(h)
  \/ LoseArp

\* Threads and hosts with work do it, some or other; while requests are pending one is
\* due, or over, within two seconds.
Working ==
  \/ \E t \in Threads : AppendPacket(t)
  \/ \E h \in Hosts : HostSends(h) \/ HostTakes(h)
  \/ \E r \in Routers : \/ HandleIpPacket(r) \/ HandleArpPacket(r) \/ SweepRefuses(r)
                        \/ (Repeatable(r) \cup GivenUp(r) # {}) /\ Sweep(r) /\ req_list' # req_list

Spec == Init /\ [][Next]_vars /\ WF_vars(Working)

----------------------------------------------------------------------------
Numbers == UNION {{[host |-> h, nth |-> i] : i \in 1..sent[h]} : h \in Hosts}

Packet ==
  [no : Numbers, kind : {"echo", "reply", "time", "net", "host"}, ttl : 1..DefaultTtl,
   src : Known, dst : Targets]

TypeOK ==
  /\ \A r \in Routers : \A k \in Slots : entries[r][k] \in Known \cup {NoGw}
  /\ \A r \in Routers : \A a \in Targets :
       /\ req_list[r][a].retries \in 0..(Retries + 1)
       /\ req_list[r][a].cached_packets \subseteq Packet
  /\ \A t \in Threads : hand[t] # NoHand => hand[t].pkt \in Packet /\ hand[t].via \in Targets
  /\ \A m \in wire : m.type = "ip" => m.pkt \in Packet

\* The spots where a packet about no is.
Waiting  == UNION {UNION {{<<r, a>>} \X req_list[r][a].cached_packets : a \in Targets} : r \in Routers}
Refusing == UNION {{r} \X tmp_list[r] : r \in Routers}

Spots(no) ==
  {<<"wire", m>> : m \in {m \in wire : m.type = "ip" /\ m.pkt.no = no}}
  \cup {<<"hand", t>> : t \in {t \in Threads : hand[t] # NoHand /\ hand[t].pkt.no = no}}
  \cup {<<"waits", x>> : x \in {x \in Waiting : x[2].no = no}}
  \cup {<<"refused", x>> : x \in {x \in Refusing : x[2].no = no}}
  \cup {<<"got", a>> : a \in {a \in got : a.no = no}}

\* A probe, or what has become of it, is in one place at a time: no router answers
\* twice, forwards and refuses, or drops without an answer, however its two threads
\* meet in the cache.
OnePlace == TypeOK /\ \A no \in Numbers : Cardinality(Spots(no)) = 1

Nodes == {a[1] : a \in Targets}

\* What becomes of probe p, by the routes: with ttl left it comes to address x[1] from
\* node x[2], and on to the next address with less, until it ends.
Walk(p) ==
  LET Heard(kind, node) == [kind |-> kind, node |-> node]
      walk[ttl \in 1..p.ttl] ==
        [x \in Targets \X Nodes |->
           IF x[1] = p.dst /\ x[1] \in Held /\ x[1][1] # x[2] THEN Heard("reply", x[1][1])
           ELSE IF x[1] = p.dst \/ x[1] \notin Held THEN Heard("host", x[2])
           ELSE IF ttl = 1 THEN Heard("time", x[1][1])
           ELSE IF Match(x[1][1], p.dst) = 0 THEN Heard("net", x[1][1])
           ELSE walk[ttl - 1][<<NextHop(x[1][1], p.dst), x[1][1]>>]]
  IN  walk

\* What host h is to hear of it, and from which node.
Fate(h, p) == Walk(p)[p.ttl][<<Gateway[h], HostAddr[h][1]>>]

\* What it takes: who is gone sends no probes, fewer ARP packets are lost than requests
\* are sent, and the way back to a host is shorter than the TTL of an answer.
OrderlyNetwork ==
  /\ \A h \in Gone : \A j \in Journeys[h] : Len(j) = 0
  /\ MaxLoss <= Retries + 1
  /\ \E d \in [Routers -> [Hosts -> 1..(DefaultTtl - 1)]] : \A r \in Routers : \A h \in Hosts :
       \/ NextHop(r, HostAddr[h]) = HostAddr[h]
       \/ d[NextHop(r, HostAddr[h])[1]][h] < d[r][h]

\* Ping and traceroute tell the truth: the answer a host gets is the one that the
\* routes, the addresses that are held and the probe's TTL call for, from the router
\* where the probe ended, whatever the caches knew and lost on the way.
TrueAnswers ==
  \A a \in got :
    Fate(a.no.host, trip[a.no.host][a.no.nth]) = [kind |-> a.kind, node |-> a.src[1]]

\* Every probe is answered: no race between the append and the reply, no lost ARP
\* packet and no dead neighbour leaves one waiting for good, nor its answer.
Answered ==
  <>(/\ \A h \in Hosts : sent[h] = Len(trip[h])
     /\ \A no \in Numbers : \E a \in got : a.no = no)

\* The network comes to rest.  (With a host in Gone it does not: the error about
\* an error goes to a router, which does not take what is for its own address but asks
\* for it, and refuses it in turn.)
PacketsEnd ==
  <>[](/\ \A t \in Threads : hand[t] = NoHand
       /\ \A r \in Routers : tmp_list[r] = {} /\ \A a \in Targets : ~Pending(r, a)
       /\ \A m \in wire : m.type # "ip")
=============================================================================
