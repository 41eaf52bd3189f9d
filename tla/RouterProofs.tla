---------------------------- MODULE RouterProofs ----------------------------
(***************************************************************************)
(* The routers, for every topology, every set of routes and probes, and     *)
(* every order in which threads, hosts and losses come: what is sent is in  *)
(* one place at a time, and what a host hears is true.                      *)
(***************************************************************************)
EXTENDS Router, WellFoundedInduction, FiniteSetTheorems, TLAPS

\* A set of naturals has a least element, by the well-foundedness of their order.
LEMMA LeastNat ==
  ASSUME NEW S \in SUBSET Nat, S # {}
  PROVE  \E m \in S : \A k \in S : m <= k
<1> DEFINE R == OpToRel(<, Nat)
<1>1. IsWellFoundedOn(R, Nat)
  BY NatLessThanWellFounded
<1> HIDE DEF R
<1>2. PICK m \in S : \A k \in S : ~ (<<k, m>> \in R)
  BY <1>1, WFMin
<1>3. m \in Nat /\ \A k \in S : k \in Nat /\ ~ (k < m)
  BY <1>2 DEF R, OpToRel
<1> QED
  BY <1>2, <1>3

----------------------------------------------------------------------------
(***************************************************************************)
(* Routes and the packets routers make.                                     *)
(***************************************************************************)
\* The longest match exists where anything matches.
LEMMA MatchIsEntry ==
  ASSUME NEW r \in Routers, NEW dst, Match(r, dst) # 0
  PROVE  /\ Match(r, dst) \in 1..Len(rtable[r])
         /\ dst[2] \in rtable[r][Match(r, dst)].nets
<1> DEFINE hits == {k \in 1..Len(rtable[r]) : dst[2] \in rtable[r][k].nets /\ rtable[r][k].len > 0}
           Best(k) == \A j \in hits :
             \/ rtable[r][j].len < rtable[r][k].len
             \/ (rtable[r][j].len = rtable[r][k].len /\ k <= j)
<1>1. hits # {} /\ Match(r, dst) = CHOOSE k \in hits : Best(k)
  BY DEF Match
<1>2. Len(rtable[r]) \in Nat /\ \A k \in hits : k \in Nat /\ rtable[r][k].len \in 0..32
  <2>1. Len(rtable[r]) \in Nat
    BY RoutesLead
  <2>2. \A k \in 1..Len(rtable[r]) : rtable[r][k].len \in 0..32
    BY RoutesLead
  <2> QED
    BY <2>1, <2>2
<1> HIDE DEF Best
<1> DEFINE len(k) == rtable[r][k].len
<1> HIDE DEF len
<1>20. \A k \in hits : len(k) \in 0..32 /\ 32 - len(k) \in Nat /\ k \in Nat
  <2> SUFFICES ASSUME NEW k \in hits PROVE len(k) \in 0..32 /\ 32 - len(k) \in Nat /\ k \in Nat
    OBVIOUS
  <2>1. len(k) \in 0..32 /\ k \in Nat
    BY <1>2 DEF len
  <2>2. 32 - len(k) \in Nat
    <3> HIDE DEF hits
    <3> QED
      BY <2>1
  <2> QED
    BY <2>1, <2>2
<1>3. \E k \in hits : Best(k)
  <2> HIDE DEF hits
  <2> DEFINE lacks == {n \in Nat : \E k \in hits : n = 32 - len(k)}
  <2>1. lacks # {} /\ lacks \in SUBSET Nat
    BY <1>1, <1>20
  <2>2. PICK n \in lacks : \A i \in lacks : n <= i
    BY <2>1, LeastNat
  <2> DEFINE longest == {k \in hits : n = 32 - len(k)}
  <2>3. longest # {} /\ longest \in SUBSET Nat
    BY <1>20, <2>2
  <2>4. PICK k \in longest : \A i \in longest : k <= i
    BY <2>3, LeastNat
  <2>5. ASSUME NEW j \in hits
        PROVE  len(j) < len(k) \/ (len(j) = len(k) /\ k <= j)
    <3>1. 32 - len(j) \in lacks
      BY <1>20
    <3>2. n <= 32 - len(j) /\ n = 32 - len(k)
      BY <2>2, <2>4, <3>1
    <3>3. len(j) <= len(k)
      BY <1>20, <2>4, <3>2
    <3>4. len(j) = len(k) => k <= j
      BY <2>4, <3>2
    <3> QED
      BY <1>20, <2>4, <3>3, <3>4
  <2> QED
    BY <2>4, <2>5 DEF Best, len
<1>4. Match(r, dst) \in hits
  BY <1>1, <1>3
<1> QED
  BY <1>4

\* The next hop is the packet's own address, or another router on a net of this one.
LEMMA Hop ==
  ASSUME NEW r \in Routers, NEW dst \in Targets, Match(r, dst) # 0
  PROVE  /\ NextHop(r, dst) \in Targets
         /\ <<r, NextHop(r, dst)[2]>> \in Ifaces
         /\ <<r, rtable[r][Match(r, dst)].out>> \in Ifaces
         /\ \/ NextHop(r, dst) = dst
            \/ NextHop(r, dst) \in Ifaces /\ NextHop(r, dst)[1] # r
<1> DEFINE e == rtable[r][Match(r, dst)]
<1>1. /\ <<r, e.out>> \in Ifaces /\ dst[2] \in e.nets
      /\ IF e.gw = NoGw THEN e.nets = {e.out}
         ELSE e.gw \in Ifaces /\ e.gw[1] # r /\ e.gw[2] = e.out
  BY MatchIsEntry, RoutesLead
<1>2. NextHop(r, dst) = IF e.gw = NoGw THEN dst ELSE e.gw
  BY DEF NextHop
<1>3. Ifaces \subseteq Targets
  BY DEF Targets, Known
<1> HIDE DEF e
<1>4. CASE e.gw = NoGw
  BY <1>1, <1>2, <1>4 DEF e
<1>5. CASE e.gw # NoGw
  BY <1>1, <1>2, <1>3, <1>5 DEF e
<1> QED
  BY <1>4, <1>5

No  == [host : Hosts, nth : Nat \ {0}]
Pkt == [no : No, kind : {"echo", "reply", "time", "net", "host"}, ttl : 1..DefaultTtl,
        src : Known, dst : Targets]
Out(r) == {out \in [via : Targets, pkt : Pkt] : <<r, out.via[2]>> \in Ifaces}

\* Where a packet goes from r.
LEMMA RoutedOut ==
  ASSUME NEW r \in Routers, NEW p \in Pkt, Match(r, p.dst) # 0
  PROVE  Routed(r, p) \in Out(r) /\ Routed(r, p).via = NextHop(r, p.dst) /\ Routed(r, p).pkt = p
BY Hop DEF Routed, Pkt, Out

LEMMA IcmpOut ==
  ASSUME NEW r \in Routers, NEW p \in Pkt, NEW kind \in {"reply", "time", "net", "host"}
  PROVE  /\ Icmp(r, p, kind) \in Out(r)
         /\ Icmp(r, p, kind).via = NextHop(r, p.src)
         /\ LET q == Icmp(r, p, kind).pkt
            IN  q.no = p.no /\ q.kind = kind /\ q.ttl = DefaultTtl /\ q.dst = p.src /\ q.src[1] = r
<1> DEFINE q == [no |-> p.no, kind |-> kind, ttl |-> DefaultTtl, dst |-> p.src,
                 src |-> <<r, rtable[r][Match(r, p.src)].out>>]
<1>1. p.src \in Known /\ p.src \in Targets /\ Match(r, p.src) # 0
  BY RoutesBack DEF Pkt, Targets
<1>2. q.src \in Known
  BY <1>1, Hop DEF Known
<1>3. q \in Pkt
  BY <1>1, <1>2, RouterConstants DEF Pkt
<1>4. Icmp(r, p, kind) = Routed(r, q)
  BY DEF Icmp
<1>5. q.dst = p.src /\ q.no = p.no /\ q.kind = kind /\ q.ttl = DefaultTtl /\ q.src[1] = r
  OBVIOUS
<1> HIDE DEF q
<1> QED
  BY <1>1, <1>3, <1>4, <1>5, RoutedOut

LEMMA HandleIpOut ==
  ASSUME NEW r \in Routers, NEW iface, NEW p \in Pkt
  PROVE  HandleIp(r, iface, p) \in Out(r) /\ HandleIp(r, iface, p).pkt.no = p.no
<1>1. ASSUME NEW kind \in {"reply", "time", "net", "host"}, HandleIp(r, iface, p) = Icmp(r, p, kind)
      PROVE  HandleIp(r, iface, p) \in Out(r) /\ HandleIp(r, iface, p).pkt.no = p.no
  BY <1>1, IcmpOut
<1>2. ASSUME p.ttl - 1 > 0, Match(r, p.dst) # 0, HandleIp(r, iface, p) = Routed(r, [p EXCEPT !.ttl = @ - 1])
      PROVE  HandleIp(r, iface, p) \in Out(r) /\ HandleIp(r, iface, p).pkt.no = p.no
  <2> DEFINE q == [p EXCEPT !.ttl = @ - 1]
  <2>1. q \in Pkt /\ q.dst = p.dst /\ q.no = p.no
    BY <1>2, RouterConstants DEF Pkt
  <2>2. HandleIp(r, iface, p) = Routed(r, q)
    BY <1>2
  <2> HIDE DEF q
  <2> QED
    BY <1>2, <2>1, <2>2, RoutedOut
<1>3. \/ \E kind \in {"reply", "time", "net", "host"} : HandleIp(r, iface, p) = Icmp(r, p, kind)
      \/ /\ ~(p.ttl - 1 <= 0) /\ Match(r, p.dst) # 0
         /\ HandleIp(r, iface, p) = Routed(r, [p EXCEPT !.ttl = @ - 1])
  BY DEF HandleIp
<1>4. ~(p.ttl - 1 <= 0) => p.ttl - 1 > 0
  BY RouterConstants DEF Pkt
<1> QED
  BY <1>1, <1>2, <1>3, <1>4

----------------------------------------------------------------------------
(***************************************************************************)
(* Types: what is where.                                                    *)
(***************************************************************************)
IpMsg   == [type : {"ip"}, to : Known, pkt : Pkt]
ArpMsg  == [type : {"request", "reply"}, from : Known, to : Known, of : Targets]
Req     == [retries : 0..(Retries + 1), cached_packets : SUBSET Pkt]
Answers == [no : No, kind : {"reply", "time", "net", "host"}, src : Known]

CacheType ==
  /\ entries \in [Routers -> [Slots -> Known \cup {NoGw}]]
  /\ req_list \in [Routers -> [Targets -> Req]]
  /\ \A r \in Routers : \A a \in Targets : Pending(r, a) => <<r, a[2]>> \in Ifaces
  /\ tmp_list \in [Routers -> SUBSET Pkt]

HandType == hand \in [Threads -> {NoHand} \cup UNION {Out(r) : r \in Routers}]
            /\ \A t \in Threads : hand[t] # NoHand => hand[t] \in Out(t[1])

WireType == wire \subseteq IpMsg \cup ArpMsg /\ losses \in 0..MaxLoss

HostType ==
  /\ \A h \in Hosts : trip[h] \in Journeys[h]
  /\ sent \in [Hosts -> Nat] /\ \A h \in Hosts : sent[h] <= Len(trip[h])
  /\ got \subseteq Answers

TypeInv == CacheType /\ HandType /\ WireType /\ HostType

LEMMA OutIs ==
  ASSUME NEW r \in Routers, NEW out \in Out(r)
  PROVE  /\ out.via \in Targets /\ out.pkt \in Pkt /\ <<r, out.via[2]>> \in Ifaces
         /\ out # NoHand
<1>1. out \in [via : Targets, pkt : Pkt] /\ <<r, out.via[2]>> \in Ifaces
  BY DEF Out
<1>2. NoGw \notin Targets
  BY RouterConstants
<1>3. NoHand.via = NoGw
  BY DEF NoHand
<1> QED
  BY <1>1, <1>2, <1>3

LEMMA ThreadIs == \A t \in Threads : t[1] \in Routers /\ t \in Routers \X {"ip", "sweep"}
BY DEF Threads

\* A message is for IP or for ARP.
LEMMA MsgIs ==
  ASSUME WireType, NEW m \in wire
  PROVE  /\ m.to \in Known /\ m.to \in Targets
         /\ m.type = "ip" => m \in IpMsg /\ m.pkt \in Pkt /\ m = Ip(m.to, m.pkt)
         /\ m.type # "ip" => /\ m \in ArpMsg /\ m.from \in Known /\ m.from \in Targets
                             /\ m.of \in Targets /\ m = Arp(m.type, m.from, m.to, m.of)
<1>1. m \in IpMsg \/ m \in ArpMsg
  BY DEF WireType
<1>2. ASSUME m \in IpMsg PROVE m.type = "ip" /\ m.to \in Known /\ m.pkt \in Pkt /\ m = Ip(m.to, m.pkt)
  BY <1>2 DEF IpMsg, Ip
<1>3. ASSUME m \in ArpMsg
      PROVE  /\ m.type # "ip" /\ m.to \in Known /\ m.from \in Known /\ m.of \in Targets
             /\ m = Arp(m.type, m.from, m.to, m.of)
  BY <1>3 DEF ArpMsg, Arp
<1>4. Known \subseteq Targets
  BY DEF Targets
<1> QED
  BY <1>1, <1>2, <1>3, <1>4

LEMMA IpIs ==
  ASSUME NEW to \in Known, NEW p \in Pkt
  PROVE  Ip(to, p) \in IpMsg /\ Ip(to, p).type = "ip" /\ Ip(to, p).to = to /\ Ip(to, p).pkt = p
BY DEF Ip, IpMsg

LEMMA RequestsAre ==
  ASSUME NEW r \in Routers, NEW a \in Targets, <<r, a[2]>> \in Ifaces
  PROVE  Requests(<<r, a[2]>>, a) \subseteq ArpMsg
BY DEF Requests, Arp, ArpMsg, Held, Known

LEMMA InitTypeInv == Init => TypeInv
<1> SUFFICES ASSUME Init PROVE TypeInv
  OBVIOUS
<1>1. CacheType
  <2>1. NoRequest \in Req
    BY RouterConstants DEF NoRequest, Req
  <2>2. \A r \in Routers : \A a \in Targets : ~Pending(r, a)
    BY DEF Pending, Init, NoRequest
  <2> QED
    BY <2>1, <2>2 DEF Init, CacheType
<1>2. HandType /\ WireType /\ HostType
  <2>1. \A h \in Hosts : Len(trip[h]) \in Nat
    BY RouterConstants DEF Init
  <2> QED
    BY <2>1, RouterConstants DEF Init, HandType, WireType, HostType
<1> QED
  BY <1>1, <1>2 DEF TypeInv

\* An address in a cache is one that somebody has.
LEMMA LookupType ==
  ASSUME CacheType, HandType, NEW t \in Threads, NEW out \in Out(t[1]),
         NEW others, others \subseteq IpMsg \cup ArpMsg, Lookup(t, out, others)
  PROVE  /\ HandType' /\ wire' \subseteq IpMsg \cup ArpMsg
         /\ \/ /\ out.via \in Known /\ \E k \in Slots : entries[t[1]][k] = out.via
               /\ wire' = others \cup {Ip(out.via, out.pkt)} /\ UNCHANGED hand
            \/ wire' = others /\ hand' = [hand EXCEPT ![t] = out]
<1>1. t[1] \in Routers
  BY ThreadIs
<1>2. out.via \in Targets /\ out.pkt \in Pkt /\ out # NoHand
  BY <1>1, OutIs
<1>3. CASE \E k \in Slots : entries[t[1]][k] = out.via
  <2>1. out.via \in Known
    BY <1>1, <1>2, <1>3, RouterConstants DEF CacheType
  <2>2. wire' = others \cup {Ip(out.via, out.pkt)} /\ UNCHANGED hand
    BY <1>3 DEF Lookup
  <2> QED
    BY <1>2, <1>3, <2>1, <2>2, IpIs DEF HandType
<1>4. CASE ~\E k \in Slots : entries[t[1]][k] = out.via
  <2>1. wire' = others /\ hand' = [hand EXCEPT ![t] = out]
    BY <1>4 DEF Lookup
  <2>2. HandType'
    BY <1>1, <2>1 DEF HandType
  <2> QED
    BY <2>1, <2>2
<1> QED
  BY <1>3, <1>4

----------------------------------------------------------------------------
(***************************************************************************)
(* Every action leaves the types as they are.                               *)
(***************************************************************************)
LEMMA KeptCacheType ==
  ASSUME CacheType, UNCHANGED <<entries, req_list, tmp_list>> PROVE CacheType'
BY DEF CacheType, Pending

LEMMA KeptHandType == ASSUME HandType, UNCHANGED hand PROVE HandType'
BY DEF HandType

LEMMA KeptHostType == ASSUME HostType, UNCHANGED <<trip, sent, got>> PROVE HostType'
BY DEF HostType

\* The IP thread and the packet it takes.
IpTaken(r, m) ==
  /\ m \in wire /\ m.type = "ip" /\ m.to[1] = r /\ hand[<<r, "ip">>] = NoHand
  /\ Lookup(<<r, "ip">>, HandleIp(r, m.to, m.pkt), wire \ {m})
  /\ UNCHANGED <<entries, req_list, tmp_list, trip, sent, got, losses>>

LEMMA IpTakenType ==
  ASSUME TypeInv, NEW r \in Routers, NEW m, IpTaken(r, m)
  PROVE  /\ TypeInv'
         /\ m.pkt \in Pkt /\ m = Ip(m.to, m.pkt) /\ m.to \in Known
         /\ HandleIp(r, m.to, m.pkt) \in Out(r) /\ HandleIp(r, m.to, m.pkt).pkt.no = m.pkt.no
         /\ LET t   == <<r, "ip">>
                out == HandleIp(r, m.to, m.pkt)
            IN  \/ /\ out.via \in Known /\ \E k \in Slots : entries[r][k] = out.via
                   /\ wire' = (wire \ {m}) \cup {Ip(out.via, out.pkt)} /\ UNCHANGED hand
                \/ wire' = wire \ {m} /\ hand' = [hand EXCEPT ![t] = out]
<1> DEFINE t   == <<r, "ip">>
           out == HandleIp(r, m.to, m.pkt)
           others == wire \ {m}
<1>1. m.pkt \in Pkt /\ m = Ip(m.to, m.pkt) /\ m.to \in Known
  BY MsgIs DEF TypeInv, IpTaken
<1>2. out \in Out(r) /\ out.pkt.no = m.pkt.no
  BY <1>1, HandleIpOut
<1>3. t \in Threads /\ t[1] = r
  BY DEF Threads
<1>4. CacheType /\ HandType /\ WireType /\ HostType /\ others \subseteq IpMsg \cup ArpMsg
  BY DEF TypeInv, WireType
<1>5. Lookup(t, out, others) /\ UNCHANGED <<entries, req_list, tmp_list, trip, sent, got, losses>>
  BY DEF IpTaken
<1> HIDE DEF out, t, others
<1>6. /\ HandType' /\ wire' \subseteq IpMsg \cup ArpMsg
      /\ \/ /\ out.via \in Known /\ \E k \in Slots : entries[t[1]][k] = out.via
            /\ wire' = others \cup {Ip(out.via, out.pkt)} /\ UNCHANGED hand
         \/ wire' = others /\ hand' = [hand EXCEPT ![t] = out]
  BY <1>2, <1>3, <1>4, <1>5, LookupType
<1>7. CacheType' /\ HostType' /\ WireType'
  BY <1>4, <1>5, <1>6, KeptCacheType, KeptHostType DEF WireType
<1> QED
  BY <1>1, <1>2, <1>3, <1>6, <1>7 DEF TypeInv, out, t, others

LEMMA AppendType ==
  ASSUME TypeInv, NEW t \in Threads, AppendPacket(t)
  PROVE  /\ TypeInv'
         /\ hand[t] \in Out(t[1]) /\ t[1] \in Routers
         /\ hand'[t] = NoHand /\ \A u \in Threads \ {t} : hand'[u] = hand[u]
         /\ \A r \in Routers : \A a \in Targets :
              /\ req_list'[r][a].retries = req_list[r][a].retries
              /\ req_list'[r][a].cached_packets =
                   IF r = t[1] /\ a = hand[t].via THEN req_list[r][a].cached_packets \cup {hand[t].pkt}
                   ELSE req_list[r][a].cached_packets
<1> DEFINE r == t[1]
           out == hand[t]
           a == out.via
           q == [req_list[r][a] EXCEPT !.cached_packets = @ \cup {out.pkt}]
<1>1. r \in Routers /\ out \in Out(r) /\ out # NoHand
  BY ThreadIs DEF TypeInv, HandType, AppendPacket
<1>2. a \in Targets /\ out.pkt \in Pkt /\ <<r, a[2]>> \in Ifaces
  BY <1>1, OutIs
<1>3. /\ req_list' = [req_list EXCEPT ![r][a].cached_packets = @ \cup {out.pkt}]
      /\ wire' = IF Pending(r, a) THEN wire ELSE wire \cup Requests(<<r, a[2]>>, a)
      /\ hand' = [hand EXCEPT ![t] = NoHand]
      /\ UNCHANGED <<entries, tmp_list, trip, sent, got, losses>>
  BY DEF AppendPacket
<1> HIDE DEF r, out, a
<1>4. /\ req_list \in [Routers -> [Targets -> Req]]
      /\ req_list' = [req_list EXCEPT ![r] = [req_list[r] EXCEPT ![a] = q]]
  BY <1>1, <1>2, <1>3 DEF TypeInv, CacheType
<1>5. q \in Req /\ q.retries = req_list[r][a].retries /\ q.cached_packets = req_list[r][a].cached_packets \cup {out.pkt}
  BY <1>1, <1>2, <1>4 DEF Req
<1> HIDE DEF q
<1>6. /\ req_list' \in [Routers -> [Targets -> Req]]
      /\ \A s \in Routers : \A b \in Targets :
           req_list'[s][b] = IF s = r /\ b = a THEN q ELSE req_list[s][b]
  BY <1>1, <1>2, <1>4, <1>5
<1>7. CacheType'
  <2>1. \A s \in Routers : \A b \in Targets : Pending(s, b)' => <<s, b[2]>> \in Ifaces
    BY <1>2, <1>6 DEF TypeInv, CacheType, Pending
  <2> QED
    BY <1>3, <1>6, <2>1 DEF TypeInv, CacheType
<1>8. HandType' /\ hand'[t] = NoHand /\ \A u \in Threads \ {t} : hand'[u] = hand[u]
  BY <1>3 DEF TypeInv, HandType
<1>9. WireType'
  BY <1>1, <1>2, <1>3, RequestsAre DEF TypeInv, WireType
<1>10. HostType'
  BY <1>3, KeptHostType DEF TypeInv
<1>11. \A s \in Routers : \A b \in Targets :
         /\ req_list'[s][b].retries = req_list[s][b].retries
         /\ req_list'[s][b].cached_packets =
              IF s = r /\ b = a THEN req_list[s][b].cached_packets \cup {out.pkt}
              ELSE req_list[s][b].cached_packets
  BY <1>5, <1>6
<1> QED
  BY <1>1, <1>7, <1>8, <1>9, <1>10, <1>11 DEF TypeInv, r, out, a

\* The IP thread and the ARP packet it takes.
ArpTaken(r, m) ==
  /\ m \in wire /\ m.type # "ip" /\ m.to[1] = r /\ hand[<<r, "ip">>] = NoHand
  /\ Store(r, m.from)
  /\ wire' = (wire \ {m})
       \cup {Ip(m.from, p) : p \in req_list[r][m.from].cached_packets}
       \cup (IF m.type = "request" /\ m.of = m.to
             THEN {Arp("reply", m.to, m.from, m.to)} ELSE {})
  /\ req_list' = Freed(r, m.from)
  /\ UNCHANGED <<hand, tmp_list, trip, sent, got, losses>>

LEMMA ArpTakenType ==
  ASSUME TypeInv, NEW r \in Routers, NEW m, ArpTaken(r, m)
  PROVE  /\ TypeInv'
         /\ m.from \in Known /\ m.from \in Targets
         /\ \A s \in Routers : \A a \in Targets :
              req_list'[s][a] = IF s = r /\ a = m.from THEN NoRequest ELSE req_list[s][a]
         /\ \A s \in Routers : \A k \in Slots :
              entries'[s][k] = entries[s][k] \/ (s = r /\ entries'[s][k] = m.from)
<1>1. m.from \in Known /\ m.from \in Targets /\ m.to \in Known /\ m \in ArpMsg
  BY MsgIs DEF TypeInv, ArpTaken
<1>2. req_list' = [req_list EXCEPT ![r][m.from] = NoRequest]
  BY DEF ArpTaken, Freed
<1>3. NoRequest \in Req /\ NoRequest.cached_packets = {}
  BY RouterConstants DEF NoRequest, Req
<1>4. /\ req_list' \in [Routers -> [Targets -> Req]]
      /\ \A s \in Routers : \A a \in Targets :
              req_list'[s][a] = IF s = r /\ a = m.from THEN NoRequest ELSE req_list[s][a]
  <2>1. req_list \in [Routers -> [Targets -> Req]]
    BY DEF TypeInv, CacheType
  <2> QED
    BY <1>1, <1>2, <1>3, <2>1
<1>5. PICK k \in Slots : entries' = [entries EXCEPT ![r][k] = m.from]
  BY DEF ArpTaken, Store
<1>6. /\ entries' \in [Routers -> [Slots -> Known \cup {NoGw}]]
      /\ \A s \in Routers : \A j \in Slots :
           entries'[s][j] = entries[s][j] \/ (s = r /\ entries'[s][j] = m.from)
  <2>1. entries \in [Routers -> [Slots -> Known \cup {NoGw}]]
    BY DEF TypeInv, CacheType
  <2> QED
    BY <1>1, <1>5, <2>1
<1>7. CacheType'
  <2>1. \A s \in Routers : \A b \in Targets : Pending(s, b)' => <<s, b[2]>> \in Ifaces
    BY <1>3, <1>4 DEF TypeInv, CacheType, Pending
  <2>2. UNCHANGED tmp_list
    BY DEF ArpTaken
  <2> QED
    BY <1>4, <1>6, <2>1, <2>2 DEF TypeInv, CacheType
<1>8. WireType'
  <2>1. \A p \in req_list[r][m.from].cached_packets : Ip(m.from, p) \in IpMsg
    BY <1>1, IpIs DEF TypeInv, CacheType, Req
  <2>2. Arp("reply", m.to, m.from, m.to) \in ArpMsg
    BY <1>1 DEF Arp, ArpMsg, Targets
  <2>3. UNCHANGED losses
    BY DEF ArpTaken
  <2> QED
    BY <2>1, <2>2, <2>3 DEF TypeInv, WireType, ArpTaken
<1>9. HandType' /\ HostType'
  BY KeptHandType, KeptHostType DEF TypeInv, ArpTaken
<1> QED
  BY <1>1, <1>4, <1>6, <1>7, <1>8, <1>9 DEF TypeInv

LEMMA SweepType ==
  ASSUME TypeInv, NEW r \in Routers, NEW due \in SUBSET Repeatable(r), NEW aged, SweepPass(r, due, aged)
  PROVE  /\ TypeInv'
         /\ due \subseteq Targets /\ due \cap GivenUp(r) = {} /\ GivenUp(r) \subseteq Targets
         /\ \A a \in due : Pending(r, a) /\ ~Exhausted(r, a) /\ <<r, a[2]>> \in Ifaces
         /\ \A s \in Routers : \A a \in Targets :
              /\ s = r /\ a \in GivenUp(r) => req_list'[s][a] = NoRequest
              /\ ~(s = r /\ a \in GivenUp(r)) => req_list'[s][a].cached_packets = req_list[s][a].cached_packets
              /\ s = r /\ a \in due => req_list'[s][a].retries = req_list[s][a].retries + 1
              /\ ~(s = r /\ a \in GivenUp(r) \cup due) => req_list'[s][a] = req_list[s][a]
         /\ \A s \in Routers : tmp_list'[s] = IF s = r THEN UNION {req_list[r][a].cached_packets : a \in GivenUp(r)}
                                             ELSE tmp_list[s]
         /\ \A s \in Routers : \A k \in Slots : entries'[s][k] = entries[s][k] \/ entries'[s][k] = NoGw
<1>1. /\ due \subseteq Targets /\ due \cap GivenUp(r) = {} /\ GivenUp(r) \subseteq Targets
      /\ \A a \in due : Pending(r, a) /\ ~Exhausted(r, a) /\ <<r, a[2]>> \in Ifaces
  BY DEF Repeatable, GivenUp, TypeInv, CacheType
<1> DEFINE E == [k \in Slots |-> IF k \in aged THEN NoGw ELSE entries[r][k]]
           Q == [a \in Targets |->
                   IF a \in GivenUp(r) THEN NoRequest ELSE IF a \in due THEN Repeated(r, a) ELSE req_list[r][a]]
           T == UNION {req_list[r][a].cached_packets : a \in GivenUp(r)}
<1>2. /\ entries' = [entries EXCEPT ![r] = E]
      /\ req_list' = [req_list EXCEPT ![r] = Q]
      /\ wire' = wire \cup UNION {Requests(<<r, a[2]>>, a) : a \in due}
      /\ tmp_list' = [tmp_list EXCEPT ![r] = T]
      /\ UNCHANGED <<hand, trip, sent, got, losses>>
  BY DEF SweepPass
<1>3. /\ entries \in [Routers -> [Slots -> Known \cup {NoGw}]]
      /\ req_list \in [Routers -> [Targets -> Req]]
      /\ tmp_list \in [Routers -> SUBSET Pkt]
  BY DEF TypeInv, CacheType
<1>4. NoRequest \in Req /\ NoRequest.cached_packets = {}
  BY RouterConstants DEF NoRequest, Req
<1>5. ASSUME NEW a \in due
      PROVE  /\ Repeated(r, a) \in Req
             /\ Repeated(r, a).cached_packets = req_list[r][a].cached_packets
             /\ Repeated(r, a).retries = req_list[r][a].retries + 1
  <2>1. req_list[r][a] \in Req /\ ~(req_list[r][a].retries > Retries)
    BY <1>1, <1>3 DEF Exhausted
  <2>2. req_list[r][a].retries + 1 \in 0..(Retries + 1)
    BY <2>1, RouterConstants DEF Req
  <2> QED
    BY <2>1, <2>2 DEF Repeated, Req
<1>6. /\ Q \in [Targets -> Req]
      /\ \A a \in Targets :
              /\ a \in GivenUp(r) => Q[a] = NoRequest
              /\ a \notin GivenUp(r) => Q[a].cached_packets = req_list[r][a].cached_packets
              /\ a \in due => Q[a].retries = req_list[r][a].retries + 1
              /\ a \notin GivenUp(r) \cup due => Q[a] = req_list[r][a]
  <2>1. ASSUME NEW a \in Targets PROVE req_list[r][a] \in Req
    BY <1>3
  <2>2. ASSUME NEW a \in Targets
        PROVE  /\ Q[a] \in Req
               /\ a \in GivenUp(r) => Q[a] = NoRequest
               /\ a \notin GivenUp(r) => Q[a].cached_packets = req_list[r][a].cached_packets
               /\ a \in due => Q[a].retries = req_list[r][a].retries + 1
               /\ a \notin GivenUp(r) \cup due => Q[a] = req_list[r][a]
    <3>1. CASE a \in GivenUp(r)
      BY <1>1, <1>4, <3>1
    <3>2. CASE a \in due
      BY <1>1, <1>5, <3>2
    <3>3. CASE a \notin GivenUp(r) \cup due
      BY <2>1, <3>3
    <3> QED
      BY <3>1, <3>2, <3>3
  <2>3. Q = [a \in Targets |-> Q[a]]
    OBVIOUS
  <2> HIDE DEF Q
  <2> QED
    BY <2>2, <2>3
<1>7. T \in SUBSET Pkt
  BY <1>1, <1>3 DEF Req
<1>8. E \in [Slots -> Known \cup {NoGw}] /\ \A k \in Slots : E[k] = entries[r][k] \/ E[k] = NoGw
  BY <1>3
<1> HIDE DEF E, Q
<1>9. /\ req_list' \in [Routers -> [Targets -> Req]]
      /\ \A s \in Routers : req_list'[s] = IF s = r THEN Q ELSE req_list[s]
  BY <1>2, <1>3, <1>6
<1>10. \A s \in Routers : tmp_list'[s] = IF s = r THEN T ELSE tmp_list[s]
  BY <1>2, <1>3
<1>11. /\ entries' \in [Routers -> [Slots -> Known \cup {NoGw}]]
       /\ \A s \in Routers : \A k \in Slots : entries'[s][k] = entries[s][k] \/ entries'[s][k] = NoGw
  BY <1>2, <1>3, <1>8
<1>12. \A s \in Routers : \A a \in Targets :
              /\ s = r /\ a \in GivenUp(r) => req_list'[s][a] = NoRequest
              /\ ~(s = r /\ a \in GivenUp(r)) => req_list'[s][a].cached_packets = req_list[s][a].cached_packets
              /\ s = r /\ a \in due => req_list'[s][a].retries = req_list[s][a].retries + 1
              /\ ~(s = r /\ a \in GivenUp(r) \cup due) => req_list'[s][a] = req_list[s][a]
  BY <1>6, <1>9
<1>13. CacheType'
  <2>1. \A s \in Routers : \A b \in Targets : Pending(s, b)' => <<s, b[2]>> \in Ifaces
    BY <1>4, <1>12 DEF TypeInv, CacheType, Pending
  <2>2. tmp_list' \in [Routers -> SUBSET Pkt]
    <3> HIDE DEF T
    <3> QED
      BY <1>2, <1>3, <1>7
  <2> QED
    BY <1>9, <1>11, <2>1, <2>2 DEF CacheType
<1>14. WireType'
  <2>1. \A a \in due : Requests(<<r, a[2]>>, a) \subseteq ArpMsg
    BY <1>1, RequestsAre
  <2> QED
    BY <1>2, <2>1 DEF TypeInv, WireType
<1>15. HandType' /\ HostType'
  BY <1>2, KeptHandType, KeptHostType DEF TypeInv
<1> QED
  BY <1>1, <1>10, <1>11, <1>12, <1>13, <1>14, <1>15 DEF TypeInv

\* A packet the sweep answers for.
RefusedOne(r, p) ==
  /\ p \in tmp_list[r] /\ hand[<<r, "sweep">>] = NoHand
  /\ tmp_list' = [tmp_list EXCEPT ![r] = @ \ {p}]
  /\ Lookup(<<r, "sweep">>, Icmp(r, p, "host"), wire)
  /\ UNCHANGED <<entries, req_list, trip, sent, got, losses>>

LEMMA RefusedOneType ==
  ASSUME TypeInv, NEW r \in Routers, NEW p, RefusedOne(r, p)
  PROVE  /\ TypeInv' /\ p \in Pkt
         /\ Icmp(r, p, "host") \in Out(r) /\ Icmp(r, p, "host").pkt.no = p.no
         /\ \A s \in Routers : tmp_list'[s] = IF s = r THEN tmp_list[s] \ {p} ELSE tmp_list[s]
         /\ LET t   == <<r, "sweep">>
                out == Icmp(r, p, "host")
            IN  \/ /\ out.via \in Known /\ \E k \in Slots : entries[r][k] = out.via
                   /\ wire' = wire \cup {Ip(out.via, out.pkt)} /\ UNCHANGED hand
                \/ wire' = wire /\ hand' = [hand EXCEPT ![t] = out]
<1> DEFINE t   == <<r, "sweep">>
           out == Icmp(r, p, "host")
<1>1. /\ p \in Pkt /\ tmp_list' \in [Routers -> SUBSET Pkt]
      /\ \A s \in Routers : tmp_list'[s] = IF s = r THEN tmp_list[s] \ {p} ELSE tmp_list[s]
  BY DEF TypeInv, CacheType, RefusedOne
<1>2. out \in Out(r) /\ out.pkt.no = p.no
  BY <1>1, IcmpOut
<1>3. t \in Threads /\ t[1] = r
  BY DEF Threads
<1>4. CacheType /\ HandType /\ WireType /\ HostType /\ wire \subseteq IpMsg \cup ArpMsg
  BY DEF TypeInv, WireType
<1>5. Lookup(t, out, wire) /\ UNCHANGED <<entries, req_list, trip, sent, got, losses>>
  BY DEF RefusedOne
<1> HIDE DEF out, t
<1>6. /\ HandType' /\ wire' \subseteq IpMsg \cup ArpMsg
      /\ \/ /\ out.via \in Known /\ \E k \in Slots : entries[t[1]][k] = out.via
            /\ wire' = wire \cup {Ip(out.via, out.pkt)} /\ UNCHANGED hand
         \/ wire' = wire /\ hand' = [hand EXCEPT ![t] = out]
  BY <1>2, <1>3, <1>4, <1>5, LookupType
<1>7. CacheType' /\ HostType' /\ WireType'
  BY <1>1, <1>4, <1>5, <1>6, KeptHostType DEF WireType, CacheType, Pending
<1> QED
  BY <1>1, <1>2, <1>3, <1>6, <1>7 DEF TypeInv, out, t

\* The probe a host sends.
LEMMA ProbeIs ==
  ASSUME HostType, NEW h \in Hosts, NEW i \in 1..Len(trip[h])
  PROVE  /\ trip[h][i] \in Probes /\ trip[h][i].ttl \in 1..DefaultTtl /\ trip[h][i].dst \in Targets
         /\ Len(trip[h]) \in Nat /\ [host |-> h, nth |-> i] \in No
         /\ HostAddr[h] \in Known /\ HostAddr[h] \in Targets /\ Gateway[h] \in Known
<1>1. trip[h] \in Journeys[h] /\ Len(trip[h]) \in Nat
  BY RouterConstants DEF HostType
<1>2. trip[h][i] \in Probes
  BY <1>1 DEF Probes
<1> QED
  BY <1>1, <1>2, RouterConstants DEF Targets, Known, No

LEMMA HostSendsType ==
  ASSUME TypeInv, NEW h \in Hosts, HostSends(h)
  PROVE  /\ TypeInv' /\ sent[h] + 1 \in 1..Len(trip[h]) /\ sent[h] \in Nat
         /\ sent' = [sent EXCEPT ![h] = @ + 1]
         /\ LET p == trip[h][sent[h] + 1]
                m == Sending(h, p.dst, p.ttl, "echo", [host |-> h, nth |-> sent[h] + 1])
            IN  /\ m = Ip(Gateway[h], m.pkt) /\ m.pkt \in Pkt
                /\ \E asks \in SUBSET {Arp("request", HostAddr[h], Gateway[h], Gateway[h])} :
                     wire' = wire \cup asks \cup {m}
<1> DEFINE i == sent[h] + 1
           p == trip[h][i]
           m == Sending(h, p.dst, p.ttl, "echo", [host |-> h, nth |-> i])
<1>1. sent[h] \in Nat /\ Len(trip[h]) \in Nat /\ i \in 1..Len(trip[h])
  BY RouterConstants DEF TypeInv, HostType, HostSends
<1>2. sent' = [sent EXCEPT ![h] = @ + 1] /\ sent'[h] = i
  BY DEF TypeInv, HostType, HostSends
<1>3. \E asks \in SUBSET {Arp("request", HostAddr[h], Gateway[h], Gateway[h])} :
        wire' = wire \cup asks \cup {m}
  BY <1>2 DEF HostSends
<1>4. /\ p.ttl \in 1..DefaultTtl /\ p.dst \in Targets /\ [host |-> h, nth |-> i] \in No
      /\ HostAddr[h] \in Known /\ Gateway[h] \in Known /\ Gateway[h] \in Targets
  BY <1>1, ProbeIs DEF TypeInv, Targets
<1> HIDE DEF p, i
<1>5. m \in IpMsg /\ m = Ip(Gateway[h], m.pkt) /\ m.pkt \in Pkt
  BY <1>4 DEF Sending, Ip, IpMsg, Pkt
<1>6. Arp("request", HostAddr[h], Gateway[h], Gateway[h]) \in ArpMsg
  BY <1>4 DEF Arp, ArpMsg
<1> HIDE DEF m
<1>7. WireType'
  BY <1>3, <1>5, <1>6 DEF TypeInv, WireType, HostSends
<1>8. HostType'
  <2>1. UNCHANGED <<trip, got>>
    BY DEF HostSends
  <2>2. i \in Nat /\ i <= Len(trip[h])
    BY <1>1
  <2>3. sent' = [sent EXCEPT ![h] = i]
    BY <1>2 DEF i
  <2> QED
    BY <2>1, <2>2, <2>3 DEF TypeInv, HostType
<1>9. CacheType' /\ HandType'
  BY KeptCacheType, KeptHandType DEF TypeInv, HostSends
<1> QED
  BY <1>1, <1>2, <1>3, <1>5, <1>7, <1>8, <1>9 DEF TypeInv, m, p, i

\* What a host takes: an ARP packet, an echo or an answer.
HostArp(h, m) ==
  /\ m \in wire /\ m.to = HostAddr[h] /\ m.type # "ip"
  /\ wire' = (wire \ {m}) \cup (IF m.type = "request" THEN {Arp("reply", m.to, m.from, m.to)} ELSE {})
  /\ UNCHANGED <<entries, req_list, hand, tmp_list, trip, sent, got, losses>>

HostEcho(h, m) ==
  /\ m \in wire /\ m.to = HostAddr[h] /\ m.type = "ip" /\ m.pkt.kind = "echo"
  /\ wire' = (wire \ {m}) \cup {Sending(h, m.pkt.src, DefaultTtl, "reply", m.pkt.no)}
  /\ UNCHANGED <<entries, req_list, hand, tmp_list, trip, sent, got, losses>>

HostAnswer(h, m) ==
  /\ m \in wire /\ m.to = HostAddr[h] /\ m.type = "ip" /\ m.pkt.kind # "echo"
  /\ wire' = wire \ {m}
  /\ got' = got \cup {[no |-> m.pkt.no, kind |-> m.pkt.kind, src |-> m.pkt.src]}
  /\ UNCHANGED <<entries, req_list, hand, tmp_list, trip, sent, losses>>

LEMMA HostTakesIs ==
  ASSUME NEW h \in Hosts, HostTakes(h)
  PROVE  \E m \in wire : HostArp(h, m) \/ HostEcho(h, m) \/ HostAnswer(h, m)
<1>1. PICK m \in wire :
    /\ m.to = HostAddr[h]
    /\ \/ /\ m.type = "request"
          /\ wire' = (wire \ {m}) \cup {Arp("reply", m.to, m.from, m.to)}
          /\ UNCHANGED got
       \/ /\ m.type = "reply"
          /\ wire' = wire \ {m} /\ UNCHANGED got
       \/ /\ m.type = "ip" /\ m.pkt.kind = "echo"
          /\ wire' = (wire \ {m}) \cup {Sending(h, m.pkt.src, DefaultTtl, "reply", m.pkt.no)}
          /\ UNCHANGED got
       \/ /\ m.type = "ip" /\ m.pkt.kind # "echo"
          /\ wire' = wire \ {m}
          /\ got' = got \cup {[no |-> m.pkt.no, kind |-> m.pkt.kind, src |-> m.pkt.src]}
    /\ UNCHANGED <<entries, req_list, hand, tmp_list, trip, sent, losses>>
  BY DEF HostTakes
<1>2. CASE m.type = "request"
  <2>1. HostArp(h, m)
    BY <1>1, <1>2 DEF HostArp
  <2> QED
    BY <2>1
<1>3. CASE m.type = "reply"
  <2>1. HostArp(h, m)
    BY <1>1, <1>3 DEF HostArp
  <2> QED
    BY <2>1
<1>4. CASE m.type = "ip" /\ m.pkt.kind = "echo"
  <2>1. HostEcho(h, m)
    BY <1>1, <1>4 DEF HostEcho
  <2> QED
    BY <2>1
<1>5. CASE m.type = "ip" /\ m.pkt.kind # "echo"
  <2>1. HostAnswer(h, m)
    BY <1>1, <1>5 DEF HostAnswer
  <2> QED
    BY <2>1
<1> QED
  BY <1>1, <1>2, <1>3, <1>4, <1>5

LEMMA HostArpType ==
  ASSUME TypeInv, NEW h \in Hosts, NEW m, HostArp(h, m) PROVE TypeInv'
<1>1. m.to \in Known /\ m.from \in Known
  BY MsgIs DEF TypeInv, HostArp
<1>2. Arp("reply", m.to, m.from, m.to) \in ArpMsg
  BY <1>1 DEF Arp, ArpMsg, Targets
<1>3. WireType'
  BY <1>2 DEF TypeInv, WireType, HostArp
<1> QED
  BY <1>3, KeptCacheType, KeptHandType, KeptHostType DEF TypeInv, HostArp

LEMMA HostEchoType ==
  ASSUME TypeInv, NEW h \in Hosts, NEW m, HostEcho(h, m)
  PROVE  /\ TypeInv' /\ m.pkt \in Pkt /\ m = Ip(HostAddr[h], m.pkt)
         /\ LET e == Sending(h, m.pkt.src, DefaultTtl, "reply", m.pkt.no)
            IN  /\ e = Ip(Gateway[h], e.pkt) /\ e.pkt \in Pkt /\ e.pkt.no = m.pkt.no
                /\ e.pkt.kind = "reply" /\ e.pkt.ttl = DefaultTtl /\ e.pkt.dst = m.pkt.src
                /\ e.pkt.src = HostAddr[h]
<1> DEFINE e == Sending(h, m.pkt.src, DefaultTtl, "reply", m.pkt.no)
<1>1. m.pkt \in Pkt /\ m = Ip(HostAddr[h], m.pkt)
  BY MsgIs DEF TypeInv, HostEcho
<1>2. HostAddr[h] \in Known /\ Gateway[h] \in Known /\ m.pkt.src \in Targets /\ DefaultTtl \in 1..DefaultTtl
  BY <1>1, RouterConstants DEF Known, Targets, Pkt
<1>3. /\ e \in IpMsg /\ e = Ip(Gateway[h], e.pkt) /\ e.pkt \in Pkt /\ e.pkt.no = m.pkt.no
      /\ e.pkt.kind = "reply" /\ e.pkt.ttl = DefaultTtl /\ e.pkt.dst = m.pkt.src
      /\ e.pkt.src = HostAddr[h]
  BY <1>1, <1>2 DEF Sending, Ip, IpMsg, Pkt
<1>4. wire' = (wire \ {m}) \cup {e}
  BY DEF HostEcho
<1> HIDE DEF e
<1>5. WireType'
  BY <1>3, <1>4 DEF TypeInv, WireType, HostEcho
<1>6. TypeInv'
  BY <1>5, KeptCacheType, KeptHandType, KeptHostType DEF TypeInv, HostEcho
<1> QED
  BY <1>1, <1>3, <1>6 DEF e

LEMMA HostAnswerType ==
  ASSUME TypeInv, NEW h \in Hosts, NEW m, HostAnswer(h, m)
  PROVE  TypeInv' /\ m.pkt \in Pkt /\ m = Ip(HostAddr[h], m.pkt)
<1>1. m.pkt \in Pkt /\ m = Ip(HostAddr[h], m.pkt)
  BY MsgIs DEF TypeInv, HostAnswer
<1>2. [no |-> m.pkt.no, kind |-> m.pkt.kind, src |-> m.pkt.src] \in Answers
  BY <1>1 DEF Answers, Pkt, HostAnswer
<1>3. HostType'
  BY <1>2 DEF TypeInv, HostType, HostAnswer
<1>4. WireType'
  BY DEF TypeInv, WireType, HostAnswer
<1> QED
  BY <1>1, <1>3, <1>4, KeptCacheType, KeptHandType DEF TypeInv, HostAnswer

LEMMA LoseArpType == ASSUME TypeInv, LoseArp PROVE TypeInv'
<1>1. WireType'
  BY RouterConstants DEF TypeInv, WireType, LoseArp
<1> QED
  BY <1>1, KeptCacheType, KeptHandType, KeptHostType DEF TypeInv, LoseArp

----------------------------------------------------------------------------
(***************************************************************************)
(* One place at a time.                                                     *)
(***************************************************************************)
OneInv ==
  \A no : IF no \in Numbers THEN \E x : Spots(no) = {x} ELSE Spots(no) = {}

OnWire(no, y)  == \E m \in wire : m.type = "ip" /\ m.pkt.no = no /\ y = <<"wire", m>>
InHand(no, y)  == \E t \in Threads : hand[t] # NoHand /\ hand[t].pkt.no = no /\ y = <<"hand", t>>
Waits(no, y)   == \E r \in Routers : \E a \in Targets : \E p \in req_list[r][a].cached_packets :
                    p.no = no /\ y = <<"waits", <<<<r, a>>, p>>>>
Refused(no, y) == \E r \in Routers : \E p \in tmp_list[r] : p.no = no /\ y = <<"refused", <<r, p>>>>
CameBack(no, y) == \E a \in got : a.no = no /\ y = <<"got", a>>

SpotsAre ==
  \A no, y : y \in Spots(no) <=>
    OnWire(no, y) \/ InHand(no, y) \/ Waits(no, y) \/ Refused(no, y) \/ CameBack(no, y)

LEMMA SpotKinds == SpotsAre
<1>1. \A x : x \in Waiting <=> \E r \in Routers : \E a \in Targets :
               \E p \in req_list[r][a].cached_packets : x = <<<<r, a>>, p>>
  BY DEF Waiting
<1>2. \A x : x \in Refusing <=> \E r \in Routers : \E p \in tmp_list[r] : x = <<r, p>>
  BY DEF Refusing
<1>3. \A no, y : (\E x \in Waiting : x[2].no = no /\ y = <<"waits", x>>) <=> Waits(no, y)
  BY <1>1 DEF Waits
<1>4. \A no, y : (\E x \in Refusing : x[2].no = no /\ y = <<"refused", x>>) <=> Refused(no, y)
  BY <1>2 DEF Refused
<1>5. \A no, y : y \in Spots(no) <=>
    \/ OnWire(no, y) \/ InHand(no, y)
    \/ \E x \in Waiting : x[2].no = no /\ y = <<"waits", x>>
    \/ \E x \in Refusing : x[2].no = no /\ y = <<"refused", x>>
    \/ CameBack(no, y)
  BY DEF Spots, OnWire, InHand, CameBack
<1> QED
  BY <1>3, <1>4, <1>5 DEF SpotsAre

LEMMA SpotKindsThen == SpotsAre'
BY SpotKinds, PTL

\* Some spots move, each to one other.
LEMMA MovedSpots ==
  ASSUME OneInv, UNCHANGED Numbers, NEW S, NEW g,
         \A no, y : y \in Spots(no)' <=>
           \/ y \in Spots(no) /\ y \notin S
           \/ \E x \in S : x \in Spots(no) /\ y = g[x]
  PROVE  OneInv'
<1>1. ASSUME NEW no, NEW x, Spots(no) = {x} PROVE \E y : Spots(no)' = {y}
  <2>1. CASE x \in S
    <3>1. \A y : y \in Spots(no)' <=> y = g[x]
      BY <1>1, <2>1
    <3>2. Spots(no)' = {g[x]}
      BY <3>1
    <3> QED
      BY <3>2
  <2>2. CASE x \notin S
    <3>1. \A y : y \in Spots(no)' <=> y = x
      BY <1>1, <2>2
    <3>2. Spots(no)' = {x}
      BY <3>1
    <3> QED
      BY <3>2
  <2> QED
    BY <2>1, <2>2
<1>2. ASSUME NEW no, Spots(no) = {} PROVE Spots(no)' = {}
  BY <1>2
<1> QED
  BY <1>1, <1>2 DEF OneInv

\* One spot moves.
LEMMA MovedSpot ==
  ASSUME OneInv, UNCHANGED Numbers, NEW n, NEW x, NEW y, x \in Spots(n),
         \A no, z : z \in Spots(no)' <=> (z \in Spots(no) /\ z # x) \/ (no = n /\ z = y),
         \A no : x \in Spots(no) => no = n
  PROVE  OneInv'
<1> DEFINE S == {x}
           g == [z \in S |-> y]
<1>1. g[x] = y
  OBVIOUS
<1>2. \A no, z : z \in Spots(no)' <=>
           \/ z \in Spots(no) /\ z \notin S
           \/ \E v \in S : v \in Spots(no) /\ z = g[v]
  BY <1>1
<1> HIDE DEF S, g
<1> QED
  BY <1>2, MovedSpots

LEMMA KeptSpots ==
  ASSUME OneInv, UNCHANGED Numbers, \A no, y : y \in Spots(no)' <=> y \in Spots(no)
  PROVE  OneInv'
<1>1. \A no : Spots(no)' = Spots(no)
  OBVIOUS
<1> QED
  BY <1>1 DEF OneInv

\* What a step does not touch.
LEMMA KeptKinds ==
  \A no, y : /\ UNCHANGED wire => (OnWire(no, y)' <=> OnWire(no, y))
             /\ UNCHANGED hand => (InHand(no, y)' <=> InHand(no, y))
             /\ UNCHANGED req_list => (Waits(no, y)' <=> Waits(no, y))
             /\ UNCHANGED tmp_list => (Refused(no, y)' <=> Refused(no, y))
             /\ UNCHANGED got => (CameBack(no, y)' <=> CameBack(no, y))
BY DEF OnWire, InHand, Waits, Refused, CameBack

LEMMA KeptNumbers == UNCHANGED sent => UNCHANGED Numbers
BY DEF Numbers

\* A packet about n leaves spot x for spot y, on the wire or in the hand of its thread.
PassesOn(n, x, y) ==
  \A no, z : (OnWire(no, z)' \/ InHand(no, z)') <=>
               (OnWire(no, z) /\ z # x) \/ InHand(no, z) \/ (no = n /\ z = y)

LEMMA PassedOn ==
  ASSUME HandType, NEW t \in Threads, hand[t] = NoHand, NEW out \in Out(t[1]),
         NEW x, NEW others, \A m : m \in others <=> m \in wire /\ <<"wire", m>> # x,
         \/ wire' = others \cup {Ip(out.via, out.pkt)} /\ UNCHANGED hand
         \/ wire' = others /\ hand' = [hand EXCEPT ![t] = out]
  PROVE  \E y : PassesOn(out.pkt.no, x, y)
<1>0. \A no, z : (\E m \in others : m.type = "ip" /\ m.pkt.no = no /\ z = <<"wire", m>>) <=>
                 OnWire(no, z) /\ z # x
  BY DEF OnWire
<1>1. CASE wire' = others \cup {Ip(out.via, out.pkt)} /\ UNCHANGED hand
  <2> DEFINE e == Ip(out.via, out.pkt)
             y == <<"wire", e>>
  <2>1. e.type = "ip" /\ e.pkt = out.pkt /\ wire' = others \cup {e}
    BY <1>1 DEF Ip
  <2>2. \A no, z : InHand(no, z)' <=> InHand(no, z)
    BY <1>1, KeptKinds
  <2> HIDE DEF e
  <2>3. ASSUME NEW no, NEW z
        PROVE  OnWire(no, z)' <=> (OnWire(no, z) /\ z # x) \/ (no = out.pkt.no /\ z = y)
    <3>1. OnWire(no, z)' <=> \E m \in others \cup {e} : m.type = "ip" /\ m.pkt.no = no /\ z = <<"wire", m>>
      BY <2>1 DEF OnWire
    <3> QED
      BY <1>0, <2>1, <3>1
  <2> HIDE DEF y
  <2>4. PassesOn(out.pkt.no, x, y)
    BY <2>2, <2>3 DEF PassesOn
  <2> QED
    BY <2>4
<1>2. CASE wire' = others /\ hand' = [hand EXCEPT ![t] = out]
  <2> DEFINE y == <<"hand", t>>
  <2>1. \A no, z : OnWire(no, z)' <=> OnWire(no, z) /\ z # x
    BY <1>0, <1>2 DEF OnWire
  <2>2. out # NoHand
    BY ThreadIs, OutIs
  <2>3. hand'[t] = out /\ \A u \in Threads \ {t} : hand'[u] = hand[u]
    BY <1>2 DEF HandType
  <2>4. \A no, z : InHand(no, z)' <=> InHand(no, z) \/ (no = out.pkt.no /\ z = y)
    BY <2>2, <2>3 DEF InHand
  <2> HIDE DEF y
  <2>5. PassesOn(out.pkt.no, x, y)
    BY <2>1, <2>4 DEF PassesOn
  <2> QED
    BY <2>5
<1> QED
  BY <1>1, <1>2

LEMMA IpTakenOne ==
  ASSUME TypeInv, OneInv, NEW r \in Routers, NEW m, IpTaken(r, m) PROVE OneInv'
<1> DEFINE t   == <<r, "ip">>
           out == HandleIp(r, m.to, m.pkt)
           n   == m.pkt.no
           x   == <<"wire", m>>
           others == wire \ {m}
<1>1. /\ m \in wire /\ m.type = "ip" /\ hand[t] = NoHand
      /\ UNCHANGED <<entries, req_list, tmp_list, trip, sent, got, losses>>
  BY DEF IpTaken
<1>2. /\ out \in Out(r) /\ out.pkt.no = n
      /\ \/ wire' = others \cup {Ip(out.via, out.pkt)} /\ UNCHANGED hand
         \/ wire' = others /\ hand' = [hand EXCEPT ![t] = out]
  BY IpTakenType
<1>3. t \in Threads /\ t[1] = r
  BY DEF Threads
<1> HIDE DEF out, t
<1>4. \A e : e \in others <=> e \in wire /\ <<"wire", e>> # x
  OBVIOUS
<1>5. \A no : (OnWire(no, x) <=> no = n) /\ ~InHand(no, x) /\ ~Waits(no, x) /\ ~Refused(no, x) /\ ~CameBack(no, x)
  BY <1>1 DEF OnWire, InHand, Waits, Refused, CameBack
<1> HIDE DEF x, n, others
<1>6. PICK y : PassesOn(n, x, y)
  <2>1. HandType /\ t \in Threads /\ hand[t] = NoHand /\ out \in Out(t[1])
    BY <1>1, <1>2, <1>3 DEF TypeInv
  <2>2. \E y : PassesOn(out.pkt.no, x, y)
    BY <1>2, <1>4, <2>1, PassedOn
  <2> QED
    BY <1>2, <2>2
<1>7. \A no, z : z \in Spots(no)' <=> (z \in Spots(no) /\ z # x) \/ (no = n /\ z = y)
  <2>1. \A no, z : /\ Waits(no, z)' <=> Waits(no, z)
                   /\ Refused(no, z)' <=> Refused(no, z)
                   /\ CameBack(no, z)' <=> CameBack(no, z)
    BY <1>1, KeptKinds
  <2> QED
    BY <1>5, <1>6, <2>1, SpotKinds, SpotKindsThen DEF SpotsAre, PassesOn
<1>8. n = n /\ x \in Spots(n) /\ \A no : x \in Spots(no) => no = n
  BY <1>5, SpotKinds DEF SpotsAre
<1> QED
  BY <1>1, <1>7, <1>8, KeptNumbers, MovedSpot

LEMMA KeptWire ==
  ASSUME \A m : m.type = "ip" => (m \in wire' <=> m \in wire)
  PROVE  \A no, y : OnWire(no, y)' <=> OnWire(no, y)
BY DEF OnWire

LEMMA AppendOne ==
  ASSUME TypeInv, OneInv, NEW t \in Threads, AppendPacket(t) PROVE OneInv'
<1> DEFINE r == t[1]
           a == hand[t].via
           p == hand[t].pkt
           n == p.no
           x == <<"hand", t>>
           y == <<"waits", <<<<r, a>>, p>>>>
<1>1. /\ hand[t] # NoHand /\ UNCHANGED <<entries, tmp_list, trip, sent, got, losses>>
      /\ wire' = IF Pending(r, a) THEN wire ELSE wire \cup Requests(<<r, a[2]>>, a)
  BY DEF AppendPacket
<1>2. /\ r \in Routers /\ a \in Targets /\ p \in Pkt
      /\ hand'[t] = NoHand /\ \A u \in Threads \ {t} : hand'[u] = hand[u]
      /\ \A s \in Routers : \A b \in Targets :
            req_list'[s][b].cached_packets =
                 IF s = r /\ b = a THEN req_list[s][b].cached_packets \cup {p}
                 ELSE req_list[s][b].cached_packets
  <2>1. r \in Routers /\ hand[t] \in Out(r)
    BY AppendType
  <2>2. a \in Targets /\ p \in Pkt
    BY <2>1, OutIs
  <2> QED
    BY <2>1, <2>2, AppendType
<1>3. \A m \in Requests(<<r, a[2]>>, a) : m.type # "ip"
  BY DEF Requests, Arp
<1>4. \A no, z : OnWire(no, z)' <=> OnWire(no, z)
  BY <1>1, <1>3, KeptWire
<1>5. \A no, z : InHand(no, z)' <=> InHand(no, z) /\ z # x
  BY <1>2 DEF InHand
<1> HIDE DEF r, a, p
<1>6. \A no, z : Waits(no, z)' <=> Waits(no, z) \/ (no = n /\ z = y)
  BY <1>2 DEF Waits
<1>7. \A no : (InHand(no, x) <=> no = n) /\ ~OnWire(no, x) /\ ~Waits(no, x) /\ ~Refused(no, x) /\ ~CameBack(no, x)
  BY <1>1 DEF OnWire, InHand, Waits, Refused, CameBack, p
<1> HIDE DEF x, y, n
<1>8. \A no, z : z \in Spots(no)' <=> (z \in Spots(no) /\ z # x) \/ (no = n /\ z = y)
  <2>1. \A no, z : /\ Refused(no, z)' <=> Refused(no, z)
                   /\ CameBack(no, z)' <=> CameBack(no, z)
    BY <1>1, KeptKinds
  <2> QED
    BY <1>4, <1>5, <1>6, <1>7, <2>1, SpotKinds, SpotKindsThen DEF SpotsAre
<1>9. x \in Spots(n) /\ \A no : x \in Spots(no) => no = n
  BY <1>7, SpotKinds DEF SpotsAre
<1> QED
  BY <1>1, <1>8, <1>9, KeptNumbers, MovedSpot

LEMMA ArpTakenOne ==
  ASSUME TypeInv, OneInv, NEW r \in Routers, NEW m, ArpTaken(r, m) PROVE OneInv'
<1> DEFINE a == m.from
           C == req_list[r][a].cached_packets
           S == {<<"waits", <<<<r, a>>, p>>>> : p \in C}
           g == [z \in S |-> <<"wire", Ip(a, z[2][2])>>]
           W(p) == <<"waits", <<<<r, a>>, p>>>>
<1>1. /\ a \in Targets /\ UNCHANGED <<hand, tmp_list, trip, sent, got, losses>>
      /\ \A s \in Routers : \A b \in Targets :
              req_list'[s][b] = IF s = r /\ b = a THEN NoRequest ELSE req_list[s][b]
  BY ArpTakenType DEF ArpTaken
<1>2. /\ m.type # "ip"
      /\ wire' = (wire \ {m}) \cup {Ip(a, p) : p \in C}
           \cup (IF m.type = "request" /\ m.of = m.to
                 THEN {Arp("reply", m.to, m.from, m.to)} ELSE {})
  BY DEF ArpTaken
<1>3. NoRequest.cached_packets = {}
  BY DEF NoRequest
<1>4. \A p \in C : W(p) \in S /\ g[W(p)] = <<"wire", Ip(a, p)>>
  OBVIOUS
<1>5. \A z : z \in S <=> \E p \in C : z = W(p)
  OBVIOUS
<1>6. \A p : Ip(a, p).type = "ip" /\ Ip(a, p).pkt = p
  BY DEF Ip
<1>7. Arp("reply", m.to, m.from, m.to).type # "ip"
  BY DEF Arp
<1> HIDE DEF a, C, g, S
<1>8. \A no, z : OnWire(no, z)' <=> OnWire(no, z) \/ \E p \in C : p.no = no /\ z = <<"wire", Ip(a, p)>>
  BY <1>2, <1>6, <1>7 DEF OnWire
<1>9. \A no, p : W(p) \in Spots(no) <=> p \in C /\ p.no = no
  <2>1. \A no, p : ~OnWire(no, W(p)) /\ ~InHand(no, W(p)) /\ ~Refused(no, W(p)) /\ ~CameBack(no, W(p))
    BY DEF OnWire, InHand, Refused, CameBack
  <2>2. \A no, p : Waits(no, W(p)) <=> p \in C /\ p.no = no
    BY <1>1 DEF Waits, C
  <2> QED
    BY <2>1, <2>2, SpotKinds DEF SpotsAre
<1>10. \A no, z : Waits(no, z)' <=> Waits(no, z) /\ z \notin S
  <2>1. \A no, z : Waits(no, z)' => Waits(no, z) /\ z \notin S
    BY <1>1, <1>3, <1>5 DEF Waits
  <2>2. \A no, z : Waits(no, z) /\ z \notin S => Waits(no, z)'
    BY <1>1, <1>5 DEF Waits, C
  <2> QED
    BY <2>1, <2>2
<1>11. \A no, z : z \in S => ~OnWire(no, z) /\ ~InHand(no, z) /\ ~Refused(no, z) /\ ~CameBack(no, z)
  BY <1>5 DEF OnWire, InHand, Refused, CameBack
<1> DEFINE e(p) == <<"wire", Ip(a, p)>>
<1> HIDE DEF W, e
<1>12. \A no, z : (\E v \in S : v \in Spots(no) /\ z = g[v]) <=>
                  \E p \in C : p.no = no /\ z = <<"wire", Ip(a, p)>>
  <2>1. \A p \in C : g[W(p)] = e(p)
    BY <1>4 DEF e
  <2>2. \A no, z : (\E v \in S : v \in Spots(no) /\ z = g[v]) <=> \E p \in C : p.no = no /\ z = e(p)
    BY <1>5, <1>9, <2>1
  <2> QED
    BY <2>2 DEF e
<1>13. \A no, z : z \in Spots(no)' <=>
           \/ z \in Spots(no) /\ z \notin S
           \/ \E v \in S : v \in Spots(no) /\ z = g[v]
  <2>1. \A no, z : /\ InHand(no, z)' <=> InHand(no, z)
                   /\ Refused(no, z)' <=> Refused(no, z)
                   /\ CameBack(no, z)' <=> CameBack(no, z)
    BY <1>1, KeptKinds
  <2> QED
    BY <1>8, <1>10, <1>11, <1>12, <2>1, SpotKinds, SpotKindsThen DEF SpotsAre
<1> QED
  BY <1>1, <1>13, KeptNumbers, MovedSpots

LEMMA SweepOne ==
  ASSUME TypeInv, OneInv, NEW r \in Routers, NEW due \in SUBSET Repeatable(r), NEW aged,
         SweepPass(r, due, aged)
  PROVE  OneInv'
<1> DEFINE G == GivenUp(r)
           C(a) == req_list[r][a].cached_packets
           W(a, p) == <<"waits", <<<<r, a>>, p>>>>
           F(p) == <<"refused", <<r, p>>>>
           S == UNION {{W(a, p) : p \in C(a)} : a \in G}
           g == [z \in S |-> F(z[2][2])]
<1>1. /\ tmp_list[r] = {} /\ UNCHANGED <<hand, trip, sent, got, losses>>
      /\ wire' = wire \cup UNION {Requests(<<r, a[2]>>, a) : a \in due}
  BY DEF SweepPass
<1>2. /\ G \subseteq Targets
      /\ \A s \in Routers : \A a \in Targets :
              /\ s = r /\ a \in G => req_list'[s][a] = NoRequest
              /\ ~(s = r /\ a \in G) => req_list'[s][a].cached_packets = req_list[s][a].cached_packets
      /\ \A s \in Routers : tmp_list'[s] = IF s = r THEN UNION {C(a) : a \in G} ELSE tmp_list[s]
  <2>1. G \subseteq Targets
    BY SweepType
  <2>2. \A s \in Routers : \A a \in Targets :
              /\ s = r /\ a \in G => req_list'[s][a] = NoRequest
              /\ ~(s = r /\ a \in G) => req_list'[s][a].cached_packets = req_list[s][a].cached_packets
    BY SweepType
  <2>3. \A s \in Routers : tmp_list'[s] = IF s = r THEN UNION {C(a) : a \in G} ELSE tmp_list[s]
    BY SweepType
  <2> QED
    BY <2>1, <2>2, <2>3
<1>3. NoRequest.cached_packets = {}
  BY DEF NoRequest
<1>4. \A z : z \in S <=> \E a \in G : \E p \in C(a) : z = W(a, p)
  OBVIOUS
<1>5. \A a \in G : \A p \in C(a) : g[W(a, p)] = F(p)
  OBVIOUS
<1> HIDE DEF S, g, G
<1>6. \A no, z : OnWire(no, z)' <=> OnWire(no, z)
  <2>1. \A a \in due : \A m \in Requests(<<r, a[2]>>, a) : m.type # "ip"
    BY DEF Requests, Arp
  <2> QED
    BY <1>1, <2>1, KeptWire
<1>7. \A no, a, p : W(a, p) \in Spots(no) <=> a \in Targets /\ p \in C(a) /\ p.no = no
  <2>1. \A no, a, p : /\ ~OnWire(no, W(a, p)) /\ ~InHand(no, W(a, p))
                      /\ ~Refused(no, W(a, p)) /\ ~CameBack(no, W(a, p))
    BY DEF OnWire, InHand, Refused, CameBack
  <2>2. \A no, a, p : Waits(no, W(a, p)) <=> a \in Targets /\ p \in C(a) /\ p.no = no
    BY DEF Waits
  <2> QED
    BY <2>1, <2>2, SpotKinds DEF SpotsAre
<1>8. \A no, z : Waits(no, z)' <=> Waits(no, z) /\ z \notin S
  <2>1. \A no, z : Waits(no, z)' => Waits(no, z) /\ z \notin S
    BY <1>2, <1>3, <1>4 DEF Waits
  <2>2. \A no, z : Waits(no, z) /\ z \notin S => Waits(no, z)'
    BY <1>2, <1>4 DEF Waits
  <2> QED
    BY <2>1, <2>2
<1>9. \A no, z : Refused(no, z)' <=> Refused(no, z) \/ \E a \in G : \E p \in C(a) : p.no = no /\ z = F(p)
  <2>1. ASSUME NEW no, NEW z, Refused(no, z)'
        PROVE  Refused(no, z) \/ \E a \in G : \E p \in C(a) : p.no = no /\ z = F(p)
    <3>0. PICK s \in Routers : \E p \in tmp_list'[s] : p.no = no /\ z = <<"refused", <<s, p>>>>
      BY <2>1 DEF Refused
    <3>1. PICK p \in tmp_list'[s] : p.no = no /\ z = <<"refused", <<s, p>>>>
      BY <3>0
    <3>2. CASE s = r
      <4>0. p \in UNION {C(a) : a \in G}
        BY <1>2, <3>1, <3>2
      <4>1. \E a \in G : p \in C(a)
        BY <4>0
      <4> QED
        BY <3>1, <3>2, <4>1
    <3>3. CASE s # r
      BY <1>2, <3>1, <3>3 DEF Refused
    <3> QED
      BY <3>2, <3>3
  <2>2. \A no, z : Refused(no, z) => Refused(no, z)'
    BY <1>1, <1>2 DEF Refused
  <2>3. ASSUME NEW a \in G, NEW p \in C(a) PROVE Refused(p.no, F(p))'
    <3>1. p \in tmp_list'[r]
      BY <1>2
    <3> QED
      BY <3>1 DEF Refused
  <2> QED
    BY <2>1, <2>2, <2>3
<1>10. \A no, z : z \in S => ~OnWire(no, z) /\ ~InHand(no, z) /\ ~Refused(no, z) /\ ~CameBack(no, z)
  BY <1>4 DEF OnWire, InHand, Refused, CameBack
<1> HIDE DEF W, F, C
<1>11. \A no, z : (\E v \in S : v \in Spots(no) /\ z = g[v]) <=>
                  \E a \in G : \E p \in C(a) : p.no = no /\ z = F(p)
  BY <1>2, <1>4, <1>5, <1>7
<1>12. \A no, z : z \in Spots(no)' <=>
           \/ z \in Spots(no) /\ z \notin S
           \/ \E v \in S : v \in Spots(no) /\ z = g[v]
  <2>1. \A no, z : /\ InHand(no, z)' <=> InHand(no, z)
                   /\ CameBack(no, z)' <=> CameBack(no, z)
    BY <1>1, KeptKinds
  <2> QED
    BY <1>6, <1>8, <1>9, <1>10, <1>11, <2>1, SpotKinds, SpotKindsThen DEF SpotsAre
<1> QED
  BY <1>1, <1>12, KeptNumbers, MovedSpots

LEMMA RefusedOneOne ==
  ASSUME TypeInv, OneInv, NEW r \in Routers, NEW p, RefusedOne(r, p) PROVE OneInv'
<1> DEFINE t   == <<r, "sweep">>
           out == Icmp(r, p, "host")
           n   == p.no
           x   == <<"refused", <<r, p>>>>
<1>1. /\ p \in tmp_list[r] /\ hand[t] = NoHand
      /\ UNCHANGED <<entries, req_list, trip, sent, got, losses>>
  BY DEF RefusedOne
<1>2. /\ out \in Out(r) /\ out.pkt.no = n
      /\ \A s \in Routers : tmp_list'[s] = IF s = r THEN tmp_list[s] \ {p} ELSE tmp_list[s]
      /\ \/ wire' = wire \cup {Ip(out.via, out.pkt)} /\ UNCHANGED hand
         \/ wire' = wire /\ hand' = [hand EXCEPT ![t] = out]
  BY RefusedOneType
<1>3. t \in Threads /\ t[1] = r
  BY DEF Threads
<1> HIDE DEF out, t
<1>4. \A e : e \in wire <=> e \in wire /\ <<"wire", e>> # x
  OBVIOUS
<1>5. \A no : (Refused(no, x) <=> no = n) /\ ~InHand(no, x) /\ ~Waits(no, x) /\ ~OnWire(no, x) /\ ~CameBack(no, x)
  BY <1>1 DEF OnWire, InHand, Waits, Refused, CameBack
<1>6. \A no, z : Refused(no, z)' <=> Refused(no, z) /\ z # x
  <2>1. \A s \in Routers : \A q : q \in tmp_list'[s] <=> q \in tmp_list[s] /\ ~(s = r /\ q = p)
    BY <1>2
  <2>2. \A s, q : <<"refused", <<s, q>>>> = x <=> s = r /\ q = p
    OBVIOUS
  <2> HIDE DEF x
  <2> QED
    BY <2>1, <2>2 DEF Refused
<1> HIDE DEF x, n
<1>7. PICK y : PassesOn(n, x, y)
  <2>1. HandType /\ t \in Threads /\ hand[t] = NoHand /\ out \in Out(t[1])
    BY <1>1, <1>2, <1>3 DEF TypeInv
  <2>2. \E y : PassesOn(out.pkt.no, x, y)
    BY <1>2, <1>4, <2>1, PassedOn
  <2> QED
    BY <1>2, <2>2
<1>8. \A no, z : z \in Spots(no)' <=> (z \in Spots(no) /\ z # x) \/ (no = n /\ z = y)
  <2>1. \A no, z : /\ Waits(no, z)' <=> Waits(no, z)
                   /\ CameBack(no, z)' <=> CameBack(no, z)
    BY <1>1, KeptKinds
  <2> QED
    BY <1>5, <1>6, <1>7, <2>1, SpotKinds, SpotKindsThen DEF SpotsAre, PassesOn
<1>9. x \in Spots(n) /\ \A no : x \in Spots(no) => no = n
  BY <1>5, SpotKinds DEF SpotsAre
<1> QED
  BY <1>1, <1>8, <1>9, KeptNumbers, MovedSpot

LEMMA HostArpOne == ASSUME OneInv, NEW h, NEW m, HostArp(h, m) PROVE OneInv'
<1>1. \A e : e.type = "ip" => (e \in wire' <=> e \in wire)
  BY DEF HostArp, Arp
<1>2. UNCHANGED <<entries, req_list, hand, tmp_list, trip, sent, got, losses>>
  BY DEF HostArp
<1>3. \A no, z : z \in Spots(no)' <=> z \in Spots(no)
  BY <1>1, <1>2, KeptWire, KeptKinds, SpotKinds, SpotKindsThen DEF SpotsAre
<1> QED
  BY <1>2, <1>3, KeptNumbers, KeptSpots

LEMMA LoseArpOne == ASSUME OneInv, LoseArp PROVE OneInv'
<1>1. \A e : e.type = "ip" => (e \in wire' <=> e \in wire)
  BY DEF LoseArp
<1>2. UNCHANGED <<entries, req_list, hand, tmp_list, trip, sent, got>>
  BY DEF LoseArp
<1>3. \A no, z : z \in Spots(no)' <=> z \in Spots(no)
  BY <1>1, <1>2, KeptWire, KeptKinds, SpotKinds, SpotKindsThen DEF SpotsAre
<1> QED
  BY <1>2, <1>3, KeptNumbers, KeptSpots

LEMMA HostEchoOne ==
  ASSUME TypeInv, OneInv, NEW h \in Hosts, NEW m, HostEcho(h, m) PROVE OneInv'
<1> DEFINE e == Sending(h, m.pkt.src, DefaultTtl, "reply", m.pkt.no)
           n == m.pkt.no
           x == <<"wire", m>>
           y == <<"wire", e>>
<1>1. /\ m \in wire /\ m.type = "ip" /\ wire' = (wire \ {m}) \cup {e}
      /\ UNCHANGED <<entries, req_list, hand, tmp_list, trip, sent, got, losses>>
  BY DEF HostEcho
<1>2. e.type = "ip" /\ e.pkt.no = n
  BY DEF Sending, Ip
<1> HIDE DEF e
<1>3. \A no, z : OnWire(no, z)' <=> (OnWire(no, z) /\ z # x) \/ (no = n /\ z = y)
  BY <1>1, <1>2 DEF OnWire
<1>4. \A no : (OnWire(no, x) <=> no = n) /\ ~InHand(no, x) /\ ~Waits(no, x) /\ ~Refused(no, x) /\ ~CameBack(no, x)
  BY <1>1 DEF OnWire, InHand, Waits, Refused, CameBack
<1> HIDE DEF x, y, n
<1>5. \A no, z : z \in Spots(no)' <=> (z \in Spots(no) /\ z # x) \/ (no = n /\ z = y)
  BY <1>1, <1>3, <1>4, KeptKinds, SpotKinds, SpotKindsThen DEF SpotsAre
<1>6. x \in Spots(n) /\ \A no : x \in Spots(no) => no = n
  BY <1>4, SpotKinds DEF SpotsAre
<1> QED
  BY <1>1, <1>5, <1>6, KeptNumbers, MovedSpot

LEMMA HostAnswerOne ==
  ASSUME TypeInv, OneInv, NEW h \in Hosts, NEW m, HostAnswer(h, m) PROVE OneInv'
<1> DEFINE a == [no |-> m.pkt.no, kind |-> m.pkt.kind, src |-> m.pkt.src]
           n == m.pkt.no
           x == <<"wire", m>>
           y == <<"got", a>>
<1>1. /\ m \in wire /\ m.type = "ip" /\ wire' = wire \ {m} /\ got' = got \cup {a}
      /\ UNCHANGED <<entries, req_list, hand, tmp_list, trip, sent, losses>>
  BY DEF HostAnswer
<1>2. a.no = n
  OBVIOUS
<1> HIDE DEF a
<1>3. \A no, z : /\ OnWire(no, z)' <=> OnWire(no, z) /\ z # x
                 /\ CameBack(no, z)' <=> CameBack(no, z) \/ (no = n /\ z = y)
  BY <1>1, <1>2 DEF OnWire, CameBack
<1>4. \A no : (OnWire(no, x) <=> no = n) /\ ~InHand(no, x) /\ ~Waits(no, x) /\ ~Refused(no, x) /\ ~CameBack(no, x)
  BY <1>1 DEF OnWire, InHand, Waits, Refused, CameBack
<1> HIDE DEF x, y, n
<1>5. \A no, z : z \in Spots(no)' <=> (z \in Spots(no) /\ z # x) \/ (no = n /\ z = y)
  BY <1>1, <1>3, <1>4, KeptKinds, SpotKinds, SpotKindsThen DEF SpotsAre
<1>6. x \in Spots(n) /\ \A no : x \in Spots(no) => no = n
  BY <1>4, SpotKinds DEF SpotsAre
<1> QED
  BY <1>1, <1>5, <1>6, KeptNumbers, MovedSpot

LEMMA HostSendsOne ==
  ASSUME TypeInv, OneInv, NEW h \in Hosts, HostSends(h) PROVE OneInv'
<1> DEFINE i == sent[h] + 1
           p == trip[h][i]
           n == [host |-> h, nth |-> i]
           m == Sending(h, p.dst, p.ttl, "echo", n)
           y == <<"wire", m>>
<1>1. sent[h] \in Nat /\ sent' = [sent EXCEPT ![h] = @ + 1] /\ sent \in [Hosts -> Nat]
  BY HostSendsType DEF TypeInv, HostType
<1>2. PICK asks \in SUBSET {Arp("request", HostAddr[h], Gateway[h], Gateway[h])} :
        wire' = wire \cup asks \cup {m}
  BY HostSendsType
<1>3. UNCHANGED <<entries, req_list, hand, tmp_list, trip, got, losses>>
  BY DEF HostSends
<1>4. m.type = "ip" /\ m.pkt.no = n
  BY DEF Sending, Ip
<1>5. n \notin Numbers /\ Numbers' = Numbers \cup {n}
  <2>1. \A no : no \in Numbers <=> \E g \in Hosts : \E k \in 1..sent[g] : no = [host |-> g, nth |-> k]
    BY DEF Numbers
  <2>2. \A no : no \in Numbers' <=> \E g \in Hosts : \E k \in 1..sent'[g] : no = [host |-> g, nth |-> k]
    BY DEF Numbers
  <2>3. n \notin Numbers
    BY <1>1, <2>1
  <2>4. \A g \in Hosts : \A k : k \in 1..sent'[g] <=> k \in 1..sent[g] \/ (g = h /\ k = i)
    BY <1>1
  <2>5. \A no : no \in Numbers' <=> no \in Numbers \/ no = n
    BY <2>1, <2>2, <2>4
  <2> QED
    BY <2>3, <2>5
<1> HIDE DEF i, p, n, m
<1>6. \A no, z : OnWire(no, z)' <=> OnWire(no, z) \/ (no = n /\ z = y)
  BY <1>2, <1>4 DEF OnWire, Arp
<1> HIDE DEF y
<1>60. PICK k : k = n
  OBVIOUS
<1>61. PICK w : w = y
  OBVIOUS
<1>7. \A no, z : z \in Spots(no)' <=> z \in Spots(no) \/ (no = k /\ z = w)
  BY <1>3, <1>6, <1>60, <1>61, KeptKinds, SpotKinds, SpotKindsThen DEF SpotsAre
<1>8. Spots(k) = {}
  BY <1>5, <1>60 DEF OneInv
<1>9. Spots(k)' = {w}
  <2>1. \A z : z \in Spots(k)' <=> z = w
    BY <1>7, <1>8
  <2> QED
    BY <2>1
<1>10. ASSUME NEW no, no # k PROVE Spots(no)' = Spots(no)
  <2>1. \A z : z \in Spots(no)' <=> z \in Spots(no)
    BY <1>7, <1>10
  <2> QED
    BY <2>1
<1>11. ASSUME NEW no PROVE IF no \in Numbers' THEN \E x : Spots(no)' = {x} ELSE Spots(no)' = {}
  <2>1. CASE no = k
    BY <1>5, <1>9, <1>60, <2>1
  <2>2. CASE no # k
    BY <1>5, <1>10, <1>60, <2>2 DEF OneInv
  <2> QED
    BY <2>1, <2>2
<1> QED
  BY <1>11 DEF OneInv

----------------------------------------------------------------------------
IInv == TypeInv /\ OneInv

LEMMA InitIInv == Init => IInv
<1> SUFFICES ASSUME Init PROVE OneInv
  BY InitTypeInv DEF IInv
<1>1. /\ wire = {} /\ got = {} /\ \A t \in Threads : hand[t] = NoHand
      /\ \A r \in Routers : tmp_list[r] = {} /\ \A a \in Targets : req_list[r][a].cached_packets = {}
  BY DEF Init, NoRequest
<1>2. \A no, z : z \notin Spots(no)
  BY <1>1, SpotKinds DEF SpotsAre, OnWire, InHand, Waits, Refused, CameBack
<1>3. Numbers = {}
  BY DEF Numbers, Init
<1> QED
  BY <1>2, <1>3 DEF OneInv

\* What Next does, step by step.
LEMMA StepIs ==
  ASSUME Next
  PROVE  \/ \E r \in Routers : \E m : IpTaken(r, m) \/ ArpTaken(r, m) \/ RefusedOne(r, m)
         \/ \E r \in Routers : \E due \in SUBSET Repeatable(r) : \E aged : SweepPass(r, due, aged)
         \/ \E t \in Threads : AppendPacket(t)
         \/ \E h \in Hosts : HostSends(h)
         \/ \E h \in Hosts : \E m : HostArp(h, m) \/ HostEcho(h, m) \/ HostAnswer(h, m)
         \/ LoseArp
<1>1. ASSUME NEW r \in Routers, HandleIpPacket(r) PROVE \E m : IpTaken(r, m)
  BY <1>1 DEF HandleIpPacket, IpTaken
<1>2. ASSUME NEW r \in Routers, HandleArpPacket(r) PROVE \E m : ArpTaken(r, m)
  BY <1>2 DEF HandleArpPacket, ArpTaken
<1>3. ASSUME NEW r \in Routers, SweepRefuses(r) PROVE \E p : RefusedOne(r, p)
  BY <1>3 DEF SweepRefuses, RefusedOne
<1>4. ASSUME NEW r \in Routers, Sweep(r)
      PROVE  \E due \in SUBSET Repeatable(r) : \E aged : SweepPass(r, due, aged)
  BY <1>4 DEF Sweep
<1>5. ASSUME NEW h \in Hosts, HostTakes(h) PROVE \E m : HostArp(h, m) \/ HostEcho(h, m) \/ HostAnswer(h, m)
  BY <1>5, HostTakesIs
<1> QED
  BY <1>1, <1>2, <1>3, <1>4, <1>5 DEF Next

LEMMA NextIInv == IInv /\ [Next]_vars => IInv'
<1> SUFFICES ASSUME TypeInv, OneInv, [Next]_vars PROVE TypeInv' /\ OneInv'
  BY DEF IInv
<1>1. CASE UNCHANGED vars
  <2>1. TypeInv'
    BY <1>1, KeptCacheType, KeptHandType, KeptHostType DEF vars, TypeInv, WireType
  <2>2. \A no, z : z \in Spots(no)' <=> z \in Spots(no)
    BY <1>1, KeptKinds, SpotKinds, SpotKindsThen DEF vars, SpotsAre
  <2> QED
    BY <1>1, <2>1, <2>2, KeptNumbers, KeptSpots DEF vars
<1>2. ASSUME NEW r \in Routers, NEW m, IpTaken(r, m) PROVE TypeInv' /\ OneInv'
  BY <1>2, IpTakenType, IpTakenOne
<1>3. ASSUME NEW r \in Routers, NEW m, ArpTaken(r, m) PROVE TypeInv' /\ OneInv'
  BY <1>3, ArpTakenType, ArpTakenOne
<1>4. ASSUME NEW r \in Routers, NEW p, RefusedOne(r, p) PROVE TypeInv' /\ OneInv'
  BY <1>4, RefusedOneType, RefusedOneOne
<1>5. ASSUME NEW r \in Routers, NEW due \in SUBSET Repeatable(r), NEW aged, SweepPass(r, due, aged)
      PROVE  TypeInv' /\ OneInv'
  BY <1>5, SweepType, SweepOne
<1>6. ASSUME NEW t \in Threads, AppendPacket(t) PROVE TypeInv' /\ OneInv'
  BY <1>6, AppendType, AppendOne
<1>7. ASSUME NEW h \in Hosts, HostSends(h) PROVE TypeInv' /\ OneInv'
  BY <1>7, HostSendsType, HostSendsOne
<1>8. ASSUME NEW h \in Hosts, NEW m, HostArp(h, m) PROVE TypeInv' /\ OneInv'
  BY <1>8, HostArpType, HostArpOne
<1>9. ASSUME NEW h \in Hosts, NEW m, HostEcho(h, m) PROVE TypeInv' /\ OneInv'
  BY <1>9, HostEchoType, HostEchoOne
<1>10. ASSUME NEW h \in Hosts, NEW m, HostAnswer(h, m) PROVE TypeInv' /\ OneInv'
  BY <1>10, HostAnswerType, HostAnswerOne
<1>11. CASE LoseArp
  BY <1>11, LoseArpType, LoseArpOne
<1> QED
  BY <1>1, <1>2, <1>3, <1>4, <1>5, <1>6, <1>7, <1>8, <1>9, <1>10, <1>11, StepIs

LEMMA IInvOnePlace == IInv => OnePlace
<1> SUFFICES ASSUME TypeInv, OneInv PROVE OnePlace
  BY DEF IInv
<1>1. ASSUME NEW p \in Pkt, NEW z, z \in Spots(p.no) PROVE p \in Packet
  BY <1>1 DEF OneInv, Pkt, Packet
<1>2. \A r \in Routers : \A k \in Slots : entries[r][k] \in Known \cup {NoGw}
  BY DEF TypeInv, CacheType
<1>3. ASSUME NEW r \in Routers, NEW a \in Targets
      PROVE  /\ req_list[r][a].retries \in 0..(Retries + 1)
             /\ req_list[r][a].cached_packets \subseteq Packet
  <2>1. req_list[r][a] \in Req
    BY DEF TypeInv, CacheType
  <2>2. ASSUME NEW p \in req_list[r][a].cached_packets PROVE p \in Packet
    <3>1. p \in Pkt
      BY <2>1 DEF Req
    <3>2. Waits(p.no, <<"waits", <<<<r, a>>, p>>>>)
      BY DEF Waits
    <3> QED
      BY <1>1, <3>1, <3>2, SpotKinds DEF SpotsAre
  <2> QED
    BY <2>1, <2>2 DEF Req
<1>4. ASSUME NEW t \in Threads, hand[t] # NoHand PROVE hand[t].pkt \in Packet /\ hand[t].via \in Targets
  <2>1. hand[t].pkt \in Pkt /\ hand[t].via \in Targets
    BY <1>4, ThreadIs, OutIs DEF TypeInv, HandType
  <2>2. InHand(hand[t].pkt.no, <<"hand", t>>)
    BY <1>4 DEF InHand
  <2> QED
    BY <1>1, <2>1, <2>2, SpotKinds DEF SpotsAre
<1>5. ASSUME NEW m \in wire, m.type = "ip" PROVE m.pkt \in Packet
  <2>1. m.pkt \in Pkt
    BY <1>5, MsgIs DEF TypeInv
  <2>2. OnWire(m.pkt.no, <<"wire", m>>)
    BY <1>5 DEF OnWire
  <2> QED
    BY <1>1, <2>1, <2>2, SpotKinds DEF SpotsAre
<1>6. \A no \in Numbers : Cardinality(Spots(no)) = 1
  BY FS_Singleton DEF OneInv
<1> QED
  BY <1>2, <1>3, <1>4, <1>5, <1>6 DEF OnePlace, TypeOK

\* What a host sends, or what has become of it, is in one place at a time, in every
\* network: no interleaving of the two threads of a router makes it vanish or answers
\* it twice (iface_send_packet_by_arp, arpcache_append_packet, arpcache_insert, arpcache_sweep).
THEOREM PacketsStayInOnePlace == Spec => []OnePlace
<1>1. Spec => []IInv
  BY InitIInv, NextIInv, PTL DEF Spec
<1> QED
  BY <1>1, IInvOnePlace, PTL

----------------------------------------------------------------------------
(***************************************************************************)
(* The walk of a probe.                                                     *)
(***************************************************************************)
Heard(kind, node) == [kind |-> kind, node |-> node]

\* Where the walk ends at address a, coming from node with ttl left; where it goes on.
Ends(p, ttl, a) ==
  a = p.dst \/ a \notin Held \/ ttl = 1 \/ Match(a[1], p.dst) = 0

EndsWith(p, ttl, a, node) ==
  IF a = p.dst /\ a \in Held /\ a[1] # node THEN Heard("reply", a[1])
  ELSE IF a = p.dst \/ a \notin Held THEN Heard("host", node)
  ELSE IF ttl = 1 THEN Heard("time", a[1])
  ELSE Heard("net", a[1])

Level(p, w, ttl) ==
  [x \in Targets \X Nodes |->
     IF Ends(p, ttl, x[1]) THEN EndsWith(p, ttl, x[1], x[2])
     ELSE w[ttl - 1][<<NextHop(x[1][1], p.dst), x[1][1]>>]]

LEMMA WalkDef ==
  ASSUME NEW p
  PROVE  Walk(p) = CHOOSE w : w = [ttl \in 1..p.ttl |-> Level(p, w, ttl)]
<1> DEFINE Body(w, ttl) ==
        [x \in Targets \X Nodes |->
           IF x[1] = p.dst /\ x[1] \in Held /\ x[1][1] # x[2] THEN Heard("reply", x[1][1])
           ELSE IF x[1] = p.dst \/ x[1] \notin Held THEN Heard("host", x[2])
           ELSE IF ttl = 1 THEN Heard("time", x[1][1])
           ELSE IF Match(x[1][1], p.dst) = 0 THEN Heard("net", x[1][1])
           ELSE w[ttl - 1][<<NextHop(x[1][1], p.dst), x[1][1]>>]]
<1>1. Walk(p) = CHOOSE w : w = [ttl \in 1..p.ttl |-> Body(w, ttl)]
  BY DEF Walk, Heard
<1>2. ASSUME NEW w, NEW ttl PROVE Body(w, ttl) = Level(p, w, ttl)
  BY DEF Level, Ends, EndsWith
<1> HIDE DEF Body
<1>3. \A w : [ttl \in 1..p.ttl |-> Body(w, ttl)] = [ttl \in 1..p.ttl |-> Level(p, w, ttl)]
  BY <1>2
<1> QED
  BY <1>1, <1>3

LEMMA LevelSame ==
  ASSUME NEW p, NEW v, NEW w, NEW ttl, ttl # 1 => v[ttl - 1] = w[ttl - 1]
  PROVE  Level(p, v, ttl) = Level(p, w, ttl)
<1>1. CASE ttl = 1
  BY <1>1 DEF Level, Ends
<1>2. CASE ttl # 1
  BY <1>2 DEF Level
<1> QED
  BY <1>1, <1>2

LEMMA WalkExists ==
  ASSUME NEW p, p.ttl \in Nat
  PROVE  \E w : w = [ttl \in 1..p.ttl |-> Level(p, w, ttl)]
<1> DEFINE P(n) == \E w : w = [ttl \in 1..n |-> Level(p, w, ttl)]
           fails == {n \in Nat : ~P(n)}
<1>1. P(0)
  <2> DEFINE w == [ttl \in 1..0 |-> 0]
  <2>1. w = [ttl \in 1..0 |-> Level(p, w, ttl)]
    OBVIOUS
  <2> HIDE DEF w
  <2> QED
    BY <2>1
<1>2. ASSUME NEW n \in Nat \ {0}, P(n - 1) PROVE P(n)
  <2>1. PICK w : w = [ttl \in 1..(n - 1) |-> Level(p, w, ttl)]
    BY <1>2
  <2> DEFINE v == [ttl \in 1..n |-> IF ttl = n THEN Level(p, w, n) ELSE w[ttl]]
  <2>2. \A ttl \in 1..n : ttl # n => v[ttl] = w[ttl]
    OBVIOUS
  <2>3. \A ttl \in 1..n : v[ttl] = Level(p, w, ttl)
    BY <2>1
  <2>4. \A ttl \in 1..n : Level(p, v, ttl) = Level(p, w, ttl)
    <3> HIDE DEF v
    <3> TAKE ttl \in 1..n
    <3>1. ttl # 1 => ttl - 1 \in 1..n /\ ttl - 1 # n
      OBVIOUS
    <3> QED
      BY <2>2, <3>1, LevelSame
  <2>5. v = [ttl \in 1..n |-> v[ttl]]
    OBVIOUS
  <2> HIDE DEF v
  <2>6. v = [ttl \in 1..n |-> Level(p, v, ttl)]
    BY <2>3, <2>4, <2>5
  <2> QED
    BY <2>6
<1> HIDE DEF P
<1>3. fails = {}
  <2> SUFFICES ASSUME fails # {} PROVE FALSE
    OBVIOUS
  <2>1. PICK n \in fails : \A k \in fails : n <= k
    BY LeastNat
  <2>2. n \in Nat \ {0} /\ n - 1 \in Nat /\ ~(n <= n - 1)
    BY <1>1, <2>1
  <2>3. P(n - 1)
    BY <2>1, <2>2
  <2> QED
    BY <1>2, <2>1, <2>2, <2>3
<1> QED
  BY <1>3 DEF P

\* One step of the walk.
LEMMA WalkStep ==
  ASSUME NEW p, p.ttl \in Nat, NEW ttl \in 1..p.ttl, NEW a \in Targets, NEW node \in Nodes
  PROVE  Walk(p)[ttl][<<a, node>>] =
           IF Ends(p, ttl, a) THEN EndsWith(p, ttl, a, node)
           ELSE Walk(p)[ttl - 1][<<NextHop(a[1], p.dst), a[1]>>]
<1> DEFINE w == Walk(p)
<1>1. w = [i \in 1..p.ttl |-> Level(p, w, i)]
  BY WalkDef, WalkExists
<1> HIDE DEF w
<1>2. w[ttl] = Level(p, w, ttl)
  BY <1>1
<1>3. <<a, node>> \in Targets \X Nodes /\ <<a, node>>[1] = a /\ <<a, node>>[2] = node
  OBVIOUS
<1>4. Level(p, w, ttl)[<<a, node>>] =
           IF Ends(p, ttl, a) THEN EndsWith(p, ttl, a, node)
           ELSE w[ttl - 1][<<NextHop(a[1], p.dst), a[1]>>]
  BY <1>3 DEF Level
<1> QED
  BY <1>2, <1>4 DEF w

----------------------------------------------------------------------------
(***************************************************************************)
(* The truth of the answers.                                                *)
(***************************************************************************)
Asking(r, a) ==
  Arp("request", <<r, a[2]>>, a, a) \in wire \/ Arp("reply", a, <<r, a[2]>>, a) \in wire

\* Who is in a cache is there, and is somebody else.
CacheInv ==
  /\ \A r \in Routers : \A k \in Slots :
       entries[r][k] # NoGw => entries[r][k] \in Held /\ entries[r][k][1] # r
  /\ \A m \in wire : m.type # "ip" => m.from \in Held /\ m.to \in Held /\ m.from[1] # m.to[1]

\* A request that was repeated cost an ARP packet each time, and the last one is under
\* way or lost too.
RetryInv ==
  \A r \in Routers : \A a \in Targets :
    /\ ~Pending(r, a) => req_list[r][a].retries = 0
    /\ Pending(r, a) /\ a \in Held /\ a[1] # r =>
         \/ losses > req_list[r][a].retries
         \/ losses = req_list[r][a].retries /\ Asking(r, a)

Sent(no)  == no.host \in Hosts /\ no.nth \in 1..Len(trip[no.host])
Probe(no) == trip[no.host][no.nth]
Due(no)   == Fate(no.host, Probe(no))

Dist == CHOOSE d \in [Routers -> [Hosts -> 1..(DefaultTtl - 1)]] : \A r \in Routers : \A h \in Hosts :
          \/ NextHop(r, HostAddr[h]) = HostAddr[h]
          \/ d[NextHop(r, HostAddr[h])[1]][h] < d[r][h]

EchoOk(p) ==
  /\ Sent(p.no) /\ p.dst = Probe(p.no).dst /\ p.src = HostAddr[p.no.host]
  /\ p.ttl \in 1..Probe(p.no).ttl

AnswerOk(p) ==
  Sent(p.no) /\ p.dst = HostAddr[p.no.host] /\ Due(p.no) = Heard(p.kind, p.src[1])

\* Packet p is on its way from node to address a, and what the walk of its probe comes
\* to from there is what it should.
EchoOnWay(p, a, node) ==
  /\ EchoOk(p) /\ Walk(Probe(p.no))[p.ttl][<<a, node>>] = Due(p.no)
  /\ a = p.dst \/ (a \in Ifaces /\ a[1] # node)

AnswerOnWay(p, a, node) ==
  /\ AnswerOk(p)
  /\ a = p.dst \/ (a \in Ifaces /\ a[1] # node /\ Dist[a[1]][p.no.host] < p.ttl)

OnWay(p, a, node) == IF p.kind = "echo" THEN EchoOnWay(p, a, node) ELSE AnswerOnWay(p, a, node)

Arriving(p, a) == a \in Held /\ \E node \in Nodes : node # a[1] /\ OnWay(p, a, node)

Refusable(p, r) == p.kind = "echo" /\ EchoOk(p) /\ Due(p.no) = Heard("host", r)

TruthInv ==
  /\ \A m \in wire : m.type = "ip" => Arriving(m.pkt, m.to)
  /\ \A t \in Threads : \A out : hand[t] = out /\ out # NoHand => OnWay(out.pkt, out.via, t[1])
  /\ \A r \in Routers : \A a \in Targets : \A p \in req_list[r][a].cached_packets : OnWay(p, a, r)
  /\ \A r \in Routers : \A p \in tmp_list[r] : Refusable(p, r)
  /\ \A a \in got : Due(a.no) = Heard(a.kind, a.src[1])

LEMMA DistIs ==
  ASSUME OrderlyNetwork, NEW r \in Routers, NEW h \in Hosts
  PROVE  /\ Dist[r][h] \in 1..(DefaultTtl - 1)
         /\ \/ NextHop(r, HostAddr[h]) = HostAddr[h]
            \/ Dist[NextHop(r, HostAddr[h])[1]][h] < Dist[r][h]
<1> DEFINE D == [Routers -> [Hosts -> 1..(DefaultTtl - 1)]]
           Good(d) == \A s \in Routers : \A g \in Hosts :
             \/ NextHop(s, HostAddr[g]) = HostAddr[g]
             \/ d[NextHop(s, HostAddr[g])[1]][g] < d[s][g]
<1>1. \E d \in D : Good(d)
  BY DEF OrderlyNetwork
<1>2. Dist = CHOOSE d \in D : Good(d)
  BY DEF Dist
<1> HIDE DEF Good, D
<1>3. Dist \in D /\ Good(Dist)
  BY <1>1, <1>2
<1> QED
  BY <1>3 DEF D, Good

\* Who has which address.
LEMMA HeldIs ==
  /\ Held \subseteq Known /\ Known \subseteq Targets /\ Ifaces \subseteq Held
  /\ \A a \in Known : a[1] \in Routers => a \in Ifaces
  /\ \A h \in Hosts : HostAddr[h] \in Known /\ HostAddr[h] \notin Ifaces
  /\ \A h \in Hosts \ Gone : HostAddr[h] \in Held
<1>1. \A h \in Hosts : HostAddr[h] \in Known /\ HostAddr[h] \notin Ifaces
  BY RouterConstants DEF Known
<1>2. Ifaces \subseteq Held
  BY <1>1, RouterConstants DEF Held, Known
<1>3. \A h \in Hosts \ Gone : HostAddr[h] \in Held
  BY <1>1, RouterConstants DEF Held
<1> QED
  BY <1>1, <1>2, <1>3, RouterConstants DEF Held, Known, Targets

LEMMA NodesAre == \A a \in Targets : a[1] \in Nodes
BY DEF Nodes

\* What is sent, is a probe of a host that is there.
LEMMA SentIs ==
  ASSUME HostType, NEW no, Sent(no)
  PROVE  /\ no.host \in Hosts /\ Probe(no).ttl \in Nat /\ Probe(no).dst \in Targets
         /\ HostAddr[no.host] \in Known /\ HostAddr[no.host] \in Targets
         /\ OrderlyNetwork => HostAddr[no.host] \in Held
<1>1. no.host \in Hosts /\ no.nth \in 1..Len(trip[no.host])
  BY DEF Sent
<1>2. /\ Probe(no).ttl \in 1..DefaultTtl /\ Probe(no).dst \in Targets
      /\ Len(trip[no.host]) \in Nat
  BY <1>1, ProbeIs DEF Probe
<1>3. trip[no.host] \in Journeys[no.host]
  BY <1>1 DEF HostType
<1>4. OrderlyNetwork => no.host \notin Gone
  BY <1>1, <1>2, <1>3 DEF OrderlyNetwork
<1> QED
  BY <1>1, <1>2, <1>4, HeldIs

LEMMA KeptOnWay ==
  ASSUME UNCHANGED trip
  PROVE  /\ \A p, a, node : OnWay(p, a, node) => OnWay(p, a, node)'
         /\ \A p, a : Arriving(p, a) => Arriving(p, a)'
         /\ \A p, r : Refusable(p, r) => Refusable(p, r)'
         /\ \A no : Due(no)' = Due(no)
<1>1. \A no : (Sent(no)' <=> Sent(no)) /\ Probe(no)' = Probe(no)
  BY DEF Sent, Probe
<1>2. \A no : Due(no)' = Due(no)
  BY DEF Probe, Due
<1>3. \A p, a, node : OnWay(p, a, node)' <=> OnWay(p, a, node)
  BY DEF OnWay, EchoOnWay, AnswerOnWay, EchoOk, AnswerOk, Sent, Probe, Due
<1>4. \A p, a : Arriving(p, a)' <=> Arriving(p, a)
  BY DEF Arriving, OnWay, EchoOnWay, AnswerOnWay, EchoOk, AnswerOk, Sent, Probe, Due
<1>5. \A p, r : Refusable(p, r)' <=> Refusable(p, r)
  BY DEF Refusable, EchoOk, Sent, Probe, Due
<1> QED
  BY <1>2, <1>3, <1>4, <1>5

\* What a router tells the sender of a probe is on the way back to it.
LEMMA IcmpOnWay ==
  ASSUME OrderlyNetwork, HostType, NEW r \in Routers, NEW p \in Pkt, EchoOk(p),
         NEW kind \in {"reply", "time", "net", "host"}, Due(p.no) = Heard(kind, r)
  PROVE  OnWay(Icmp(r, p, kind).pkt, Icmp(r, p, kind).via, r)
<1> DEFINE q == Icmp(r, p, kind).pkt
           v == Icmp(r, p, kind).via
           h == p.no.host
<1>1. v = NextHop(r, p.src) /\ q.no = p.no /\ q.kind = kind /\ q.ttl = DefaultTtl /\ q.dst = p.src /\ q.src[1] = r
  BY IcmpOut
<1>2. Sent(p.no) /\ p.src = HostAddr[h] /\ h \in Hosts /\ p.src \in Known /\ p.src \in Targets
  BY SentIs DEF EchoOk
<1>3. Match(r, p.src) # 0
  BY <1>2, RoutesBack
<1>4. \/ v = p.src
      \/ v \in Ifaces /\ v[1] # r
  BY <1>1, <1>2, <1>3, Hop
<1> HIDE DEF q, v
<1>5. AnswerOk(q)
  BY <1>1, <1>2 DEF AnswerOk
<1>6. v # p.src => Dist[v[1]][h] < DefaultTtl
  <2>1. v[1] \in Routers => Dist[v[1]][h] \in 1..(DefaultTtl - 1)
    BY <1>2, DistIs
  <2>2. v # p.src => v[1] \in Routers
    BY <1>4, RouterConstants
  <2> QED
    BY <2>1, <2>2, RouterConstants
<1>7. AnswerOnWay(q, v, r)
  BY <1>1, <1>4, <1>5, <1>6 DEF AnswerOnWay
<1>8. q.kind # "echo"
  BY <1>1
<1> QED
  BY <1>7, <1>8 DEF OnWay, q, v

\* A router sends a packet on, or answers it, as the walk of its probe says.
LEMMA HandleEchoOnWay ==
  ASSUME OrderlyNetwork, HostType, NEW p \in Pkt, p.kind = "echo",
         NEW a \in Known, a[1] \in Routers, Arriving(p, a)
  PROVE  OnWay(HandleIp(a[1], a, p).pkt, HandleIp(a[1], a, p).via, a[1])
<1> DEFINE r   == a[1]
           pr  == Probe(p.no)
           out == HandleIp(r, a, p)
<1>1. PICK node \in Nodes : node # r /\ EchoOnWay(p, a, node)
  BY DEF Arriving, OnWay
<1>2. EchoOk(p) /\ Walk(pr)[p.ttl][<<a, node>>] = Due(p.no) /\ a \in Held /\ a \in Targets
  BY <1>1, HeldIs DEF EchoOnWay, Arriving
<1>3. Sent(p.no) /\ p.dst = pr.dst /\ pr.ttl \in Nat /\ p.ttl \in 1..pr.ttl /\ p.dst \in Targets
  BY <1>2, SentIs DEF EchoOk
<1> HIDE DEF pr
<1>4. Due(p.no) = IF Ends(pr, p.ttl, a) THEN EndsWith(pr, p.ttl, a, node)
                  ELSE Walk(pr)[p.ttl - 1][<<NextHop(r, p.dst), r>>]
  BY <1>1, <1>2, <1>3, WalkStep
<1>5. r \in Routers
  OBVIOUS
<1> HIDE DEF r, out
<1> SUFFICES OnWay(out.pkt, out.via, r)
  BY DEF r, out
<1>6. ASSUME NEW kind \in {"reply", "time", "net", "host"}, out = Icmp(r, p, kind), Due(p.no) = Heard(kind, r)
      PROVE  OnWay(out.pkt, out.via, r)
  BY <1>2, <1>5, <1>6, IcmpOnWay
<1>7. CASE p.dst = a
  <2>1. out = Icmp(r, p, "reply")
    BY <1>7 DEF HandleIp, out
  <2>2. Due(p.no) = Heard("reply", r)
    BY <1>1, <1>2, <1>3, <1>4, <1>7 DEF Ends, EndsWith, r
  <2> QED
    BY <1>6, <2>1, <2>2
<1>8. CASE p.dst # a /\ p.ttl - 1 <= 0
  <2>1. out = Icmp(r, p, "time")
    BY <1>8 DEF HandleIp, out
  <2>2. p.ttl = 1
    BY <1>3, <1>8
  <2>3. Due(p.no) = Heard("time", r)
    BY <1>2, <1>3, <1>4, <1>8, <2>2 DEF Ends, EndsWith, r
  <2> QED
    BY <1>6, <2>1, <2>3
<1>9. CASE p.dst # a /\ ~(p.ttl - 1 <= 0) /\ Match(r, p.dst) = 0
  <2>1. out = Icmp(r, p, "net")
    BY <1>9 DEF HandleIp, out
  <2>2. p.ttl # 1
    BY <1>3, <1>9
  <2>3. Due(p.no) = Heard("net", r)
    BY <1>2, <1>3, <1>4, <1>9, <2>2 DEF Ends, EndsWith, r
  <2> QED
    BY <1>6, <2>1, <2>3
<1>10. CASE p.dst # a /\ ~(p.ttl - 1 <= 0) /\ Match(r, p.dst) # 0
  <2> DEFINE q == [p EXCEPT !.ttl = @ - 1]
  <2>1. out = Routed(r, q)
    BY <1>10 DEF HandleIp, out
  <2>2. q.no = p.no /\ q.kind = "echo" /\ q.dst = p.dst /\ q.src = p.src /\ q.ttl = p.ttl - 1
    BY DEF Pkt
  <2> HIDE DEF q
  <2>3. out.pkt = q /\ out.via = NextHop(r, p.dst)
    BY <2>1, <2>2 DEF Routed
  <2>4. p.ttl # 1 /\ q.ttl \in 1..pr.ttl
    BY <1>3, <1>10, <2>2
  <2>5. Walk(pr)[q.ttl][<<out.via, r>>] = Due(p.no)
    BY <1>2, <1>3, <1>4, <1>10, <2>2, <2>3, <2>4 DEF Ends, r
  <2>6. EchoOk(q)
    BY <1>2, <1>3, <2>2, <2>4 DEF EchoOk, pr
  <2>7. \/ out.via = p.dst
        \/ out.via \in Ifaces /\ out.via[1] # r
    BY <1>3, <1>5, <1>10, <2>3, Hop
  <2>8. EchoOnWay(q, out.via, r)
    BY <2>2, <2>5, <2>6, <2>7 DEF EchoOnWay, pr
  <2> QED
    BY <2>2, <2>3, <2>8 DEF OnWay
<1> QED
  BY <1>7, <1>8, <1>9, <1>10

LEMMA HandleAnswerOnWay ==
  ASSUME OrderlyNetwork, HostType, NEW p \in Pkt, p.kind # "echo",
         NEW a \in Known, a[1] \in Routers, Arriving(p, a)
  PROVE  OnWay(HandleIp(a[1], a, p).pkt, HandleIp(a[1], a, p).via, a[1])
<1> DEFINE r   == a[1]
           h   == p.no.host
           out == HandleIp(r, a, p)
           q   == [p EXCEPT !.ttl = @ - 1]
<1>1. PICK node \in Nodes : AnswerOnWay(p, a, node)
  BY DEF Arriving, OnWay
<1>2. AnswerOk(p) /\ p.dst = HostAddr[h] /\ h \in Hosts /\ p.dst \in Known /\ p.dst \in Targets
  BY <1>1, SentIs DEF AnswerOnWay, AnswerOk
<1>3. a \in Ifaces /\ a # p.dst
  BY <1>2, HeldIs
<1>4. Dist[r][h] < p.ttl /\ Dist[r][h] \in 1..(DefaultTtl - 1) /\ p.ttl \in Nat
  BY <1>1, <1>2, <1>3, DistIs DEF AnswerOnWay, Pkt
<1>5. ~(p.ttl - 1 <= 0)
  BY <1>4, RouterConstants
<1>6. Match(r, p.dst) # 0 /\ r \in Routers
  BY <1>2, RoutesBack
<1>7. out = Routed(r, q)
  BY <1>5, <1>6 DEF HandleIp
<1>8. q.no = p.no /\ q.kind = p.kind /\ q.dst = p.dst /\ q.src = p.src /\ q.ttl = p.ttl - 1
  BY DEF Pkt
<1> HIDE DEF q, out, r
<1>9. out.pkt = q /\ out.via = NextHop(r, p.dst)
  BY <1>7, <1>8 DEF Routed
<1>10. AnswerOk(q)
  BY <1>2, <1>8 DEF AnswerOk
<1>11. \/ out.via = p.dst
       \/ out.via \in Ifaces /\ out.via[1] # r
  BY <1>2, <1>6, <1>9, Hop
<1>12. out.via # p.dst => Dist[out.via[1]][h] < q.ttl
  <2> SUFFICES ASSUME out.via # p.dst PROVE Dist[out.via[1]][h] < q.ttl
    OBVIOUS
  <2>1. out.via[1] \in Routers
    BY <1>11, RouterConstants
  <2>2. Dist[out.via[1]][h] \in 1..(DefaultTtl - 1)
    BY <1>2, <2>1, DistIs
  <2>3. Dist[out.via[1]][h] < Dist[r][h]
    BY <1>2, <1>6, <1>9, DistIs
  <2> QED
    BY <1>4, <1>8, <2>2, <2>3, RouterConstants
<1>13. AnswerOnWay(q, out.via, r)
  BY <1>8, <1>10, <1>11, <1>12 DEF AnswerOnWay
<1> QED
  BY <1>8, <1>9, <1>13 DEF OnWay, out, r

\* What is refused, is a probe whose walk ends here.
LEMMA GivenUpRefusable ==
  ASSUME OrderlyNetwork, HostType, NEW r \in Routers, r \in Nodes, NEW a \in Targets, NEW p \in Pkt,
         OnWay(p, a, r), a \notin Held \/ a[1] = r
  PROVE  Refusable(p, r)
<1>1. a \notin Ifaces \/ a[1] = r
  BY HeldIs
<1>2. CASE p.kind # "echo"
  <2>1. AnswerOk(p) /\ a = p.dst
    BY <1>1, <1>2 DEF OnWay, AnswerOnWay
  <2>2. a \in Held /\ a \notin Ifaces
    BY <2>1, SentIs, HeldIs DEF AnswerOk
  <2>3. a[1] \notin Routers
    BY <2>2, HeldIs
  <2> QED
    BY <2>2, <2>3
<1>3. CASE p.kind = "echo"
  <2> DEFINE pr == Probe(p.no)
  <2>1. EchoOk(p) /\ a = p.dst /\ Walk(pr)[p.ttl][<<a, r>>] = Due(p.no)
    BY <1>1, <1>3 DEF OnWay, EchoOnWay
  <2>2. p.dst = pr.dst /\ pr.ttl \in Nat /\ p.ttl \in 1..pr.ttl
    BY <2>1, SentIs DEF EchoOk
  <2> HIDE DEF pr
  <2>3. Due(p.no) = IF Ends(pr, p.ttl, a) THEN EndsWith(pr, p.ttl, a, r)
                    ELSE Walk(pr)[p.ttl - 1][<<NextHop(a[1], pr.dst), a[1]>>]
    BY <2>1, <2>2, WalkStep
  <2>4. Due(p.no) = Heard("host", r)
    BY <2>1, <2>2, <2>3 DEF Ends, EndsWith
  <2> QED
    BY <1>3, <2>1, <2>4 DEF Refusable
<1> QED
  BY <1>2, <1>3

----------------------------------------------------------------------------
(***************************************************************************)
(* Every step keeps what the caches hold true.                              *)
(***************************************************************************)
LEMMA RequestsHeld ==
  ASSUME NEW r \in Routers, NEW a \in Targets, <<r, a[2]>> \in Ifaces, NEW m \in Requests(<<r, a[2]>>, a)
  PROVE  m.type # "ip" /\ m.from \in Held /\ m.to \in Held /\ m.from[1] # m.to[1]
<1>1. PICK q \in Held \ {<<r, a[2]>>} : q[2] = a[2] /\ m = Arp("request", <<r, a[2]>>, q, a)
  BY DEF Requests
<1>2. q = <<q[1], q[2]>>
  BY HeldIs, RouterConstants
<1>3. q[1] # r
  BY <1>1, <1>2
<1>4. m.type = "request" /\ m.from = <<r, a[2]>> /\ m.to = q
  BY <1>1 DEF Arp
<1> QED
  BY <1>1, <1>3, <1>4, HeldIs

\* The one it asks for is among those a request reaches.
LEMMA RequestsAsk ==
  ASSUME NEW r \in Routers, NEW a \in Held, a[1] # r
  PROVE  Arp("request", <<r, a[2]>>, a, a) \in Requests(<<r, a[2]>>, a)
<1>1. a # <<r, a[2]>>
  OBVIOUS
<1> QED
  BY <1>1 DEF Requests

LEMMA KeptCache ==
  ASSUME CacheInv,
         \A r \in Routers : \A k \in Slots : entries'[r][k] = entries[r][k] \/ entries'[r][k] = NoGw,
         \A m \in wire' : m.type = "ip" \/ m \in wire \/
           (m.from \in Held /\ m.to \in Held /\ m.from[1] # m.to[1])
  PROVE  CacheInv'
BY DEF CacheInv

LEMMA AppendCache ==
  ASSUME TypeInv, CacheInv, NEW t \in Threads, AppendPacket(t) PROVE CacheInv'
<1> DEFINE r == t[1]
           a == hand[t].via
<1>1. r \in Routers /\ hand[t] \in Out(r)
  BY AppendType
<1>2. a \in Targets /\ <<r, a[2]>> \in Ifaces
  BY <1>1, OutIs
<1>3. UNCHANGED entries /\ wire' = IF Pending(r, a) THEN wire ELSE wire \cup Requests(<<r, a[2]>>, a)
  BY DEF AppendPacket
<1> HIDE DEF r, a
<1>4. \A m \in Requests(<<r, a[2]>>, a) : m.from \in Held /\ m.to \in Held /\ m.from[1] # m.to[1]
  BY <1>1, <1>2, RequestsHeld
<1> QED
  BY <1>3, <1>4, KeptCache

LEMMA ArpTakenCache ==
  ASSUME TypeInv, CacheInv, NEW r \in Routers, NEW m, ArpTaken(r, m) PROVE CacheInv'
<1>1. m \in wire /\ m.type # "ip" /\ m.to[1] = r
  BY DEF ArpTaken
<1>2. m.from \in Held /\ m.to \in Held /\ m.from[1] # r
  BY <1>1 DEF CacheInv
<1>3. \A s \in Routers : \A k \in Slots :
        entries'[s][k] = entries[s][k] \/ (s = r /\ entries'[s][k] = m.from)
  BY ArpTakenType
<1>4. \A e \in wire' : \/ e \in wire \/ e.type = "ip"
                        \/ e = Arp("reply", m.to, m.from, m.to)
  BY DEF ArpTaken, Ip
<1>5. LET e == Arp("reply", m.to, m.from, m.to)
      IN  e.from \in Held /\ e.to \in Held /\ e.from[1] # e.to[1]
  BY <1>1, <1>2 DEF Arp
<1> QED
  BY <1>2, <1>3, <1>4, <1>5 DEF CacheInv

LEMMA SweepCache ==
  ASSUME TypeInv, CacheInv, NEW r \in Routers, NEW due \in SUBSET Repeatable(r), NEW aged,
         SweepPass(r, due, aged)
  PROVE  CacheInv'
<1>1. \A a \in due : a \in Targets /\ <<r, a[2]>> \in Ifaces
  BY SweepType
<1>2. \A s \in Routers : \A k \in Slots : entries'[s][k] = entries[s][k] \/ entries'[s][k] = NoGw
  BY SweepType
<1>3. wire' = wire \cup UNION {Requests(<<r, a[2]>>, a) : a \in due}
  BY DEF SweepPass
<1>4. \A a \in due : \A m \in Requests(<<r, a[2]>>, a) :
        m.from \in Held /\ m.to \in Held /\ m.from[1] # m.to[1]
  BY <1>1, RequestsHeld
<1> QED
  BY <1>2, <1>3, <1>4, KeptCache

LEMMA HostSendsCache ==
  ASSUME OrderlyNetwork, TypeInv, CacheInv, NEW h \in Hosts, HostSends(h) PROVE CacheInv'
<1>1. PICK m : /\ m.type = "ip"
               /\ \E asks \in SUBSET {Arp("request", HostAddr[h], Gateway[h], Gateway[h])} :
                    wire' = wire \cup asks \cup {m}
  BY HostSendsType DEF Sending, Ip
<1>2. sent[h] + 1 \in 1..Len(trip[h])
  BY HostSendsType
<1>3. HostAddr[h] \in Held /\ Gateway[h] \in Ifaces /\ Gateway[h] \in Held /\ HostAddr[h][1] # Gateway[h][1]
  <2>1. trip[h] \in Journeys[h]
    BY DEF TypeInv, HostType
  <2>2. h \notin Gone
    BY <1>2, <2>1 DEF OrderlyNetwork
  <2> QED
    BY <2>2, HeldIs, RouterConstants
<1>4. LET e == Arp("request", HostAddr[h], Gateway[h], Gateway[h])
      IN  e.from \in Held /\ e.to \in Held /\ e.from[1] # e.to[1]
  BY <1>3 DEF Arp
<1>5. UNCHANGED entries
  BY DEF HostSends
<1> QED
  BY <1>1, <1>4, <1>5, KeptCache

LEMMA HostArpCache ==
  ASSUME TypeInv, CacheInv, NEW h \in Hosts, NEW m, HostArp(h, m) PROVE CacheInv'
<1>1. m.from \in Held /\ m.to \in Held /\ m.from[1] # m.to[1]
  BY DEF HostArp, CacheInv
<1>2. LET e == Arp("reply", m.to, m.from, m.to)
      IN  e.from \in Held /\ e.to \in Held /\ e.from[1] # e.to[1]
  BY <1>1 DEF Arp
<1>3. UNCHANGED entries /\ \A e \in wire' : e \in wire \/ e = Arp("reply", m.to, m.from, m.to)
  BY DEF HostArp
<1> QED
  BY <1>2, <1>3, KeptCache

\* What moves IP packets only.
LEMMA OnlyIpCache ==
  ASSUME CacheInv, UNCHANGED entries, \A m \in wire' : m \in wire \/ m.type = "ip" PROVE CacheInv'
BY KeptCache

LEMMA OnlyIp ==
  /\ \A r \in Routers : \A m : TypeInv /\ (IpTaken(r, m) \/ RefusedOne(r, m)) =>
       /\ UNCHANGED <<entries, req_list, losses>>
       /\ \A e : e.type # "ip" => (e \in wire' <=> e \in wire)
  /\ \A h \in Hosts : \A m : HostEcho(h, m) \/ HostAnswer(h, m) =>
       /\ UNCHANGED <<entries, req_list, losses>>
       /\ \A e : e.type # "ip" => (e \in wire' <=> e \in wire)
<1>1. ASSUME NEW r \in Routers, NEW m, TypeInv, IpTaken(r, m)
      PROVE  /\ UNCHANGED <<entries, req_list, losses>>
             /\ \A e : e.type # "ip" => (e \in wire' <=> e \in wire)
  <2>1. m.type = "ip" /\ UNCHANGED <<entries, req_list, losses>>
    BY <1>1 DEF IpTaken
  <2> DEFINE out == HandleIp(r, m.to, m.pkt)
  <2>2. wire' = wire \ {m} \/ wire' = (wire \ {m}) \cup {Ip(out.via, out.pkt)}
    BY <1>1, IpTakenType
  <2>3. Ip(out.via, out.pkt).type = "ip"
    BY DEF Ip
  <2> HIDE DEF out
  <2> QED
    BY <2>1, <2>2, <2>3
<1>2. ASSUME NEW r \in Routers, NEW p, TypeInv, RefusedOne(r, p)
      PROVE  /\ UNCHANGED <<entries, req_list, losses>>
             /\ \A e : e.type # "ip" => (e \in wire' <=> e \in wire)
  <2>1. UNCHANGED <<entries, req_list, losses>>
    BY <1>2 DEF RefusedOne
  <2> DEFINE out == Icmp(r, p, "host")
  <2>2. wire' = wire \/ wire' = wire \cup {Ip(out.via, out.pkt)}
    BY <1>2, RefusedOneType
  <2>3. Ip(out.via, out.pkt).type = "ip"
    BY DEF Ip
  <2> HIDE DEF out
  <2> QED
    BY <2>1, <2>2, <2>3
<1>3. ASSUME NEW h \in Hosts, NEW m, HostEcho(h, m)
      PROVE  /\ UNCHANGED <<entries, req_list, losses>>
             /\ \A e : e.type # "ip" => (e \in wire' <=> e \in wire)
  BY <1>3 DEF HostEcho, Sending, Ip
<1>4. ASSUME NEW h \in Hosts, NEW m, HostAnswer(h, m)
      PROVE  /\ UNCHANGED <<entries, req_list, losses>>
             /\ \A e : e.type # "ip" => (e \in wire' <=> e \in wire)
  BY <1>4 DEF HostAnswer
<1> QED
  BY <1>1, <1>2, <1>3, <1>4

----------------------------------------------------------------------------
(***************************************************************************)
(* Every step keeps count of what the repeated requests cost.               *)
(***************************************************************************)
LEMMA ExchangeIs ==
  \A r, a : LET q == Arp("request", <<r, a[2]>>, a, a)
                e == Arp("reply", a, <<r, a[2]>>, a)
            IN  /\ q.type = "request" /\ q.from = <<r, a[2]>> /\ q.to = a /\ q.of = a
                /\ e.type = "reply" /\ e.from = a /\ e.to = <<r, a[2]>> /\ e.of = a /\ q # e
BY DEF Arp

\* A step that adds ARP packets only, and leaves the requests and the losses alone.
LEMMA KeptRetry ==
  ASSUME RetryInv, UNCHANGED <<req_list, losses>>,
         \A m : m.type # "ip" /\ m \in wire => m \in wire'
  PROVE  RetryInv'
<1>1. \A r, a : Asking(r, a) => Asking(r, a)'
  <2>1. ASSUME NEW r, NEW a, Asking(r, a) PROVE Asking(r, a)'
    BY <2>1, ExchangeIs DEF Asking
  <2> QED
    BY <2>1
<1>2. \A r \in Routers : \A a \in Targets : (Pending(r, a)' <=> Pending(r, a)) /\ req_list'[r][a] = req_list[r][a]
  BY DEF Pending
<1> QED
  BY <1>1, <1>2 DEF RetryInv

LEMMA RetryNumbers ==
  ASSUME TypeInv
  PROVE  /\ losses \in Nat
         /\ \A r \in Routers : \A a \in Targets : req_list[r][a].retries \in Nat
BY RouterConstants DEF TypeInv, CacheType, WireType, Req

LEMMA AppendRetry ==
  ASSUME TypeInv, RetryInv, NEW t \in Threads, AppendPacket(t) PROVE RetryInv'
<1>0. PICK r, a : r = t[1] /\ a = hand[t].via
  OBVIOUS
<1>1. r \in Routers /\ hand[t] \in Out(r)
  BY <1>0, AppendType
<1>2. a \in Targets /\ <<r, a[2]>> \in Ifaces
  BY <1>0, <1>1, OutIs
<1>3. /\ UNCHANGED losses
      /\ wire' = IF Pending(r, a) THEN wire ELSE wire \cup Requests(<<r, a[2]>>, a)
  BY <1>0 DEF AppendPacket
<1>4. \A s \in Routers : \A b \in Targets :
        /\ req_list'[s][b].retries = req_list[s][b].retries
        /\ ~(s = r /\ b = a) => (Pending(s, b)' <=> Pending(s, b))
        /\ Pending(r, a)'
  <2>1. \A s \in Routers : \A b \in Targets :
              /\ req_list'[s][b].retries = req_list[s][b].retries
              /\ req_list'[s][b].cached_packets =
                   IF s = r /\ b = a THEN req_list[s][b].cached_packets \cup {hand[t].pkt}
                   ELSE req_list[s][b].cached_packets
    BY <1>0, AppendType
  <2>2. req_list'[r][a].cached_packets # {}
    BY <1>1, <1>2, <2>1
  <2> QED
    BY <2>1, <2>2 DEF Pending
<1>5. \A s, b : Asking(s, b) => Asking(s, b)'
  BY <1>3 DEF Asking
<1>6. ~Pending(r, a) /\ a \in Held /\ a[1] # r => Asking(r, a)'
  BY <1>1, <1>3, RequestsAsk DEF Asking
<1>7. ASSUME NEW s \in Routers, NEW b \in Targets
      PROVE  /\ ~Pending(s, b)' => req_list'[s][b].retries = 0
             /\ Pending(s, b)' /\ b \in Held /\ b[1] # s =>
                  \/ losses' > req_list'[s][b].retries
                  \/ losses' = req_list'[s][b].retries /\ Asking(s, b)'
  <2>1. CASE Pending(s, b) \/ ~(s = r /\ b = a)
    <3>1. Pending(s, b)' <=> Pending(s, b)
      BY <1>4, <2>1
    <3> QED
      BY <1>3, <1>4, <1>5, <3>1 DEF RetryInv
  <2>2. CASE ~Pending(s, b) /\ s = r /\ b = a
    <3>1. req_list'[s][b].retries = 0 /\ Pending(s, b)'
      BY <1>4, <2>2 DEF RetryInv
    <3>2. b \in Held /\ b[1] # s => Asking(s, b)'
      BY <1>6, <2>2
    <3>3. losses' \in Nat
      BY <1>3, RetryNumbers
    <3> QED
      BY <3>1, <3>2, <3>3
  <2> QED
    BY <2>1, <2>2
<1> QED
  BY <1>7 DEF RetryInv

LEMMA ArpTakenRetry ==
  ASSUME TypeInv, CacheInv, RetryInv, NEW r \in Routers, NEW m, ArpTaken(r, m) PROVE RetryInv'
<1>1. /\ m \in wire /\ m.type # "ip" /\ m.to[1] = r /\ UNCHANGED losses
      /\ m = Arp(m.type, m.from, m.to, m.of) /\ m.type \in {"request", "reply"}
  BY MsgIs DEF TypeInv, ArpTaken, ArpMsg
<1>2. \A s \in Routers : \A b \in Targets :
        req_list'[s][b] = IF s = r /\ b = m.from THEN NoRequest ELSE req_list[s][b]
  BY ArpTakenType
<1>3. /\ \A e \in wire : e # m => e \in wire'
      /\ m.type = "request" /\ m.of = m.to => Arp("reply", m.to, m.from, m.to) \in wire'
  BY DEF ArpTaken
<1>4. NoRequest.retries = 0 /\ NoRequest.cached_packets = {}
  BY DEF NoRequest
<1>5. ASSUME NEW s \in Routers, NEW b \in Targets, ~(s = r /\ b = m.from), Asking(s, b) PROVE Asking(s, b)'
  <2> DEFINE q == Arp("request", <<s, b[2]>>, b, b)
             e == Arp("reply", b, <<s, b[2]>>, b)
  <2>1. q \in wire \/ e \in wire
    BY <1>5 DEF Asking
  <2>2. /\ q.type = "request" /\ q.from = <<s, b[2]>> /\ q.to = b /\ q.of = b
        /\ e.type = "reply" /\ e.from = b /\ e.to = <<s, b[2]>>
    BY ExchangeIs
  <2>3. e # m
    BY <1>1, <1>5, <2>2
  <2>4. q = m => e \in wire'
    BY <1>3, <2>2
  <2> HIDE DEF q, e
  <2>5. q \in wire' \/ e \in wire'
    BY <1>3, <2>1, <2>3, <2>4
  <2> QED
    BY <2>5 DEF Asking, q, e
<1>6. ASSUME NEW s \in Routers, NEW b \in Targets
      PROVE  /\ ~Pending(s, b)' => req_list'[s][b].retries = 0
             /\ Pending(s, b)' /\ b \in Held /\ b[1] # s =>
                  \/ losses' > req_list'[s][b].retries
                  \/ losses' = req_list'[s][b].retries /\ Asking(s, b)'
  <2>1. CASE s = r /\ b = m.from
    <3>1. req_list'[s][b] = NoRequest
      BY <1>2, <2>1
    <3>2. ~Pending(s, b)' /\ req_list'[s][b].retries = 0
      BY <1>4, <3>1 DEF Pending
    <3> QED
      BY <3>2
  <2>2. CASE ~(s = r /\ b = m.from)
    <3>1. req_list'[s][b] = req_list[s][b]
      BY <1>2, <2>2
    <3>2. Pending(s, b)' <=> Pending(s, b)
      BY <3>1 DEF Pending
    <3>3. Asking(s, b) => Asking(s, b)'
      BY <1>5, <2>2
    <3> QED
      BY <1>1, <3>1, <3>2, <3>3 DEF RetryInv
  <2> QED
    BY <2>1, <2>2
<1> QED
  BY <1>6 DEF RetryInv

LEMMA SweepRetry ==
  ASSUME TypeInv, RetryInv, NEW r \in Routers, NEW due \in SUBSET Repeatable(r), NEW aged,
         SweepPass(r, due, aged)
  PROVE  RetryInv'
<1>1. /\ \A m \in wire : m.type # "ip" => r \notin {m.from[1], m.to[1]}
      /\ wire' = wire \cup UNION {Requests(<<r, a[2]>>, a) : a \in due} /\ UNCHANGED losses
  BY DEF SweepPass
<1>2. /\ due \subseteq Targets /\ due \cap GivenUp(r) = {}
      /\ \A a \in due : Pending(r, a) /\ <<r, a[2]>> \in Ifaces
  BY SweepType
<1>3. \A s \in Routers : \A a \in Targets :
              /\ s = r /\ a \in GivenUp(r) => req_list'[s][a] = NoRequest
              /\ ~(s = r /\ a \in GivenUp(r)) => req_list'[s][a].cached_packets = req_list[s][a].cached_packets
              /\ s = r /\ a \in due => req_list'[s][a].retries = req_list[s][a].retries + 1
              /\ ~(s = r /\ a \in GivenUp(r) \cup due) => req_list'[s][a] = req_list[s][a]
  BY SweepType
<1>4. NoRequest.retries = 0 /\ NoRequest.cached_packets = {}
  BY DEF NoRequest
<1>5. \A s, b : Asking(s, b) => Asking(s, b)'
  BY <1>1 DEF Asking
<1>6. \A b : ~Asking(r, b)
  BY <1>1, ExchangeIs DEF Asking
<1>7. \A b \in due : b \in Held /\ b[1] # r => Asking(r, b)'
  <2> SUFFICES ASSUME NEW b \in due, b \in Held, b[1] # r PROVE Asking(r, b)'
    OBVIOUS
  <2>1. Arp("request", <<r, b[2]>>, b, b) \in Requests(<<r, b[2]>>, b)
    BY RequestsAsk
  <2> QED
    BY <1>1, <2>1 DEF Asking
<1>8. ASSUME NEW s \in Routers, NEW b \in Targets
      PROVE  /\ ~Pending(s, b)' => req_list'[s][b].retries = 0
             /\ Pending(s, b)' /\ b \in Held /\ b[1] # s =>
                  \/ losses' > req_list'[s][b].retries
                  \/ losses' = req_list'[s][b].retries /\ Asking(s, b)'
  <2>1. CASE s = r /\ b \in GivenUp(r)
    <3>1. req_list'[s][b] = NoRequest
      BY <1>3, <2>1
    <3> QED
      BY <1>4, <3>1 DEF Pending
  <2>2. CASE s = r /\ b \in due
    <3>1. b \notin GivenUp(r) /\ Pending(r, b)
      BY <1>2, <2>2
    <3>2. req_list'[r][b].retries = req_list[r][b].retries + 1 /\ Pending(r, b)'
      BY <1>3, <2>2, <3>1 DEF Pending
    <3>3. b \in Held /\ b[1] # r => losses > req_list[r][b].retries /\ Asking(r, b)'
      BY <1>6, <1>7, <2>2, <3>1 DEF RetryInv
    <3>4. losses \in Nat /\ req_list[r][b].retries \in Nat
      BY RetryNumbers
    <3>5. ASSUME b \in Held, b[1] # r
          PROVE  \/ losses' > req_list'[r][b].retries
                 \/ losses' = req_list'[r][b].retries /\ Asking(r, b)'
      <4>1. losses > req_list[r][b].retries + 1 \/ losses = req_list[r][b].retries + 1
        BY <3>3, <3>4, <3>5
      <4> QED
        BY <1>1, <3>2, <3>3, <3>5, <4>1
    <3> QED
      BY <2>2, <3>2, <3>5
  <2>3. CASE ~(s = r /\ b \in GivenUp(r) \cup due)
    <3>1. req_list'[s][b] = req_list[s][b]
      BY <1>3, <2>3
    <3>2. Pending(s, b)' <=> Pending(s, b)
      BY <3>1 DEF Pending
    <3> QED
      BY <1>1, <1>5, <3>1, <3>2 DEF RetryInv
  <2> QED
    BY <2>1, <2>2, <2>3
<1> QED
  BY <1>8 DEF RetryInv

LEMMA HostArpRetry ==
  ASSUME TypeInv, RetryInv, NEW h \in Hosts, NEW m, HostArp(h, m) PROVE RetryInv'
<1>1. /\ m \in wire /\ m.to = HostAddr[h] /\ UNCHANGED <<req_list, losses>>
      /\ wire' = (wire \ {m}) \cup (IF m.type = "request" THEN {Arp("reply", m.to, m.from, m.to)} ELSE {})
  BY DEF HostArp
<1>2. ASSUME NEW s \in Routers, NEW b \in Targets, Asking(s, b) PROVE Asking(s, b)'
  <2> DEFINE q == Arp("request", <<s, b[2]>>, b, b)
             e == Arp("reply", b, <<s, b[2]>>, b)
  <2>1. q \in wire \/ e \in wire
    BY <1>2 DEF Asking
  <2>2. /\ q.type = "request" /\ q.from = <<s, b[2]>> /\ q.to = b /\ q.of = b
        /\ e.type = "reply" /\ e.from = b /\ e.to = <<s, b[2]>>
    BY ExchangeIs
  <2>3. e # m
    BY <1>1, <2>2, RouterConstants
  <2>4. q = m => e \in wire'
    BY <1>1, <2>2
  <2> HIDE DEF q, e
  <2>5. q \in wire' \/ e \in wire'
    BY <1>1, <2>1, <2>3, <2>4
  <2> QED
    BY <2>5 DEF Asking, q, e
<1>3. \A s \in Routers : \A b \in Targets : (Pending(s, b)' <=> Pending(s, b)) /\ req_list'[s][b] = req_list[s][b]
  BY <1>1 DEF Pending
<1> QED
  BY <1>1, <1>2, <1>3 DEF RetryInv

LEMMA LoseArpRetry ==
  ASSUME TypeInv, RetryInv, LoseArp PROVE RetryInv'
<1>1. losses' = losses + 1 /\ UNCHANGED req_list
  BY DEF LoseArp
<1>2. losses \in Nat /\ \A s \in Routers : \A b \in Targets : req_list[s][b].retries \in Nat
  BY RetryNumbers
<1>3. \A s \in Routers : \A b \in Targets : (Pending(s, b)' <=> Pending(s, b)) /\ req_list'[s][b] = req_list[s][b]
  BY <1>1 DEF Pending
<1>4. ASSUME NEW s \in Routers, NEW b \in Targets, Pending(s, b), b \in Held, b[1] # s
      PROVE  losses' > req_list'[s][b].retries
  <2>1. losses > req_list[s][b].retries \/ losses = req_list[s][b].retries
    BY <1>4 DEF RetryInv
  <2> QED
    BY <1>1, <1>2, <2>1
<1> QED
  BY <1>1, <1>3, <1>4 DEF RetryInv

\* Nobody who is there is given up, unless it is the router itself.
LEMMA GivenUpIs ==
  ASSUME OrderlyNetwork, TypeInv, RetryInv, NEW r \in Routers, NEW due, NEW aged, SweepPass(r, due, aged),
         NEW a \in GivenUp(r)
  PROVE  a \in Targets /\ (a \notin Held \/ a[1] = r)
<1>1. a \in Targets /\ Pending(r, a) /\ Exhausted(r, a)
  BY DEF GivenUp
<1>2. ~Asking(r, a)
  BY ExchangeIs DEF SweepPass, Asking
<1>3. losses \in 0..MaxLoss /\ req_list[r][a].retries \in Nat /\ MaxLoss <= Retries + 1
  BY <1>1, RetryNumbers DEF OrderlyNetwork, TypeInv, WireType
<1>4. req_list[r][a].retries > Retries
  BY <1>1 DEF Exhausted
<1>5. ~(losses > req_list[r][a].retries)
  BY <1>3, <1>4, RouterConstants
<1> QED
  BY <1>1, <1>2, <1>5 DEF RetryInv

----------------------------------------------------------------------------
(***************************************************************************)
(* Every step keeps the packets true.                                       *)
(***************************************************************************)
LEMMA KeptTruth ==
  ASSUME TruthInv, UNCHANGED trip,
         \A m \in wire' : m.type = "ip" => m \in wire \/ Arriving(m.pkt, m.to),
         \A t \in Threads : \A out : hand'[t] = out /\ out # NoHand =>
           hand[t] = out \/ OnWay(out.pkt, out.via, t[1]),
         \A r \in Routers : \A a \in Targets : \A p \in req_list'[r][a].cached_packets :
           p \in req_list[r][a].cached_packets \/ OnWay(p, a, r),
         \A r \in Routers : \A p \in tmp_list'[r] : p \in tmp_list[r] \/ Refusable(p, r),
         \A a \in got' : a \in got \/ Due(a.no) = Heard(a.kind, a.src[1])
  PROVE  TruthInv'
<1>1. \A m \in wire' : m.type = "ip" => Arriving(m.pkt, m.to)'
  BY KeptOnWay DEF TruthInv
<1>2. \A t \in Threads : \A out : hand'[t] = out /\ out # NoHand => OnWay(out.pkt, out.via, t[1])'
  BY KeptOnWay DEF TruthInv
<1>3. \A r \in Routers : \A a \in Targets : \A p \in req_list'[r][a].cached_packets : OnWay(p, a, r)'
  BY KeptOnWay DEF TruthInv
<1>4. \A r \in Routers : \A p \in tmp_list'[r] : Refusable(p, r)'
  BY KeptOnWay DEF TruthInv
<1>5. \A a \in got' : Due(a.no)' = Heard(a.kind, a.src[1])
  BY KeptOnWay DEF TruthInv
<1> QED
  BY <1>1, <1>2, <1>3, <1>4, <1>5 DEF TruthInv

\* What is on its way from a router arrives, if the cache knows the way.
LEMMA LookupTruth ==
  ASSUME CacheInv, HandType, NEW t \in Threads, NEW out \in Out(t[1]), OnWay(out.pkt, out.via, t[1]),
         NEW others, others \subseteq wire,
         \/ /\ \E k \in Slots : entries[t[1]][k] = out.via
            /\ wire' = others \cup {Ip(out.via, out.pkt)} /\ UNCHANGED hand
         \/ wire' = others /\ hand' = [hand EXCEPT ![t] = out]
  PROVE  /\ \A m \in wire' : m.type = "ip" => m \in wire \/ Arriving(m.pkt, m.to)
         /\ \A u \in Threads : \A v : hand'[u] = v /\ v # NoHand => hand[u] = v \/ OnWay(v.pkt, v.via, u[1])
<1>1. t[1] \in Routers /\ out.via \in Targets /\ <<t[1], out.via[2]>> \in Ifaces
  BY ThreadIs, OutIs
<1>2. t[1] \in Nodes /\ out.via # NoGw
  <2>1. <<t[1], out.via[2]>> \in Targets /\ <<t[1], out.via[2]>>[1] = t[1]
    BY <1>1, HeldIs
  <2> QED
    BY <1>1, <2>1, NodesAre, RouterConstants
<1>3. CASE /\ \E k \in Slots : entries[t[1]][k] = out.via
           /\ wire' = others \cup {Ip(out.via, out.pkt)} /\ UNCHANGED hand
  <2>1. out.via \in Held /\ out.via[1] # t[1]
    BY <1>1, <1>2, <1>3 DEF CacheInv
  <2>2. Arriving(out.pkt, out.via)
    BY <1>2, <2>1 DEF Arriving
  <2>3. Ip(out.via, out.pkt).pkt = out.pkt /\ Ip(out.via, out.pkt).to = out.via
    BY DEF Ip
  <2> QED
    BY <1>3, <2>2, <2>3
<1>4. CASE wire' = others /\ hand' = [hand EXCEPT ![t] = out]
  <2>1. \A u \in Threads : hand'[u] = IF u = t THEN out ELSE hand[u]
    BY <1>4 DEF HandType
  <2> QED
    BY <1>4, <2>1
<1> QED
  BY <1>3, <1>4

LEMMA IpTakenTruth ==
  ASSUME OrderlyNetwork, TypeInv, CacheInv, TruthInv, NEW r \in Routers, NEW m, IpTaken(r, m) PROVE TruthInv'
<1> DEFINE t   == <<r, "ip">>
           out == HandleIp(r, m.to, m.pkt)
           others == wire \ {m}
<1>1. /\ m \in wire /\ m.type = "ip" /\ m.to[1] = r
      /\ UNCHANGED <<entries, req_list, tmp_list, trip, sent, got, losses>>
  BY DEF IpTaken
<1>2. m.pkt \in Pkt /\ m.to \in Known /\ out \in Out(r)
  BY IpTakenType
<1>3. \/ /\ \E k \in Slots : entries[r][k] = out.via
         /\ wire' = others \cup {Ip(out.via, out.pkt)} /\ UNCHANGED hand
      \/ wire' = others /\ hand' = [hand EXCEPT ![t] = out]
  BY IpTakenType
<1>4. t \in Threads /\ t[1] = r /\ others \subseteq wire
  BY DEF Threads
<1>5. Arriving(m.pkt, m.to)
  BY <1>1 DEF TruthInv
<1>6. OnWay(out.pkt, out.via, r)
  BY <1>1, <1>2, <1>5, HandleEchoOnWay, HandleAnswerOnWay DEF TypeInv
<1> HIDE DEF t, out, others
<1>7. /\ \A e \in wire' : e.type = "ip" => e \in wire \/ Arriving(e.pkt, e.to)
      /\ \A u \in Threads : \A v : hand'[u] = v /\ v # NoHand => hand[u] = v \/ OnWay(v.pkt, v.via, u[1])
  BY <1>2, <1>3, <1>4, <1>6, LookupTruth DEF TypeInv
<1> QED
  BY <1>1, <1>7, KeptTruth

LEMMA RefusedOneTruth ==
  ASSUME OrderlyNetwork, TypeInv, CacheInv, TruthInv, NEW r \in Routers, NEW p, RefusedOne(r, p) PROVE TruthInv'
<1> DEFINE t   == <<r, "sweep">>
           out == Icmp(r, p, "host")
<1>1. p \in tmp_list[r] /\ UNCHANGED <<entries, req_list, trip, sent, got, losses>>
  BY DEF RefusedOne
<1>2. p \in Pkt /\ out \in Out(r)
  BY RefusedOneType
<1>3. \/ /\ \E k \in Slots : entries[r][k] = out.via
         /\ wire' = wire \cup {Ip(out.via, out.pkt)} /\ UNCHANGED hand
      \/ wire' = wire /\ hand' = [hand EXCEPT ![t] = out]
  BY RefusedOneType
<1>4. t \in Threads /\ t[1] = r
  BY DEF Threads
<1>5. EchoOk(p) /\ Due(p.no) = Heard("host", r)
  BY <1>1 DEF TruthInv, Refusable
<1>6. OnWay(out.pkt, out.via, r)
  BY <1>2, <1>5, IcmpOnWay DEF TypeInv
<1>7. \A s \in Routers : \A q \in tmp_list'[s] : q \in tmp_list[s]
  BY RefusedOneType
<1> HIDE DEF t, out
<1>8. /\ \A e \in wire' : e.type = "ip" => e \in wire \/ Arriving(e.pkt, e.to)
      /\ \A u \in Threads : \A v : hand'[u] = v /\ v # NoHand => hand[u] = v \/ OnWay(v.pkt, v.via, u[1])
  BY <1>2, <1>3, <1>4, <1>6, LookupTruth DEF TypeInv
<1> QED
  BY <1>1, <1>7, <1>8, KeptTruth

LEMMA AppendTruth ==
  ASSUME TypeInv, TruthInv, NEW t \in Threads, AppendPacket(t) PROVE TruthInv'
<1>1. PICK r, out : r = t[1] /\ out = hand[t] /\ out # NoHand
  BY DEF AppendPacket
<1>2. r \in Routers /\ out \in Out(r) /\ OnWay(out.pkt, out.via, r)
  BY <1>1, AppendType DEF TruthInv
<1>3. out.via \in Targets /\ <<r, out.via[2]>> \in Ifaces
  BY <1>2, OutIs
<1>4. /\ UNCHANGED <<tmp_list, trip, got>>
      /\ wire' = IF Pending(r, out.via) THEN wire ELSE wire \cup Requests(<<r, out.via[2]>>, out.via)
  BY <1>1 DEF AppendPacket
<1>5. \A s \in Routers : \A a \in Targets : \A p \in req_list'[s][a].cached_packets :
        p \in req_list[s][a].cached_packets \/ OnWay(p, a, s)
  <2>1. \A s \in Routers : \A a \in Targets :
          req_list'[s][a].cached_packets =
                   IF s = r /\ a = out.via THEN req_list[s][a].cached_packets \cup {out.pkt}
                   ELSE req_list[s][a].cached_packets
    BY <1>1, AppendType
  <2> QED
    BY <1>2, <2>1
<1>6. \A u \in Threads : \A v : hand'[u] = v /\ v # NoHand => hand[u] = v
  BY AppendType
<1>7. \A m \in wire' : m.type = "ip" => m \in wire
  BY <1>2, <1>3, <1>4, RequestsHeld
<1> QED
  BY <1>4, <1>5, <1>6, <1>7, KeptTruth

LEMMA ArpTakenTruth ==
  ASSUME TypeInv, CacheInv, TruthInv, NEW r \in Routers, NEW m, ArpTaken(r, m) PROVE TruthInv'
<1>1. /\ m \in wire /\ m.type # "ip" /\ m.to[1] = r /\ UNCHANGED <<hand, tmp_list, trip, sent, got, losses>>
      /\ \A e \in wire' : \/ e \in wire
                          \/ \E p \in req_list[r][m.from].cached_packets : e = Ip(m.from, p)
                          \/ e = Arp("reply", m.to, m.from, m.to)
  BY DEF ArpTaken
<1>2. m.from \in Held /\ m.from[1] # r /\ m.from \in Targets
  BY <1>1, HeldIs DEF CacheInv
<1>3. r \in Nodes
  <2>1. m.to \in Targets
    BY <1>1, MsgIs DEF TypeInv
  <2> QED
    BY <1>1, <2>1, NodesAre
<1>4. ASSUME NEW p \in req_list[r][m.from].cached_packets
      PROVE  Arriving(Ip(m.from, p).pkt, Ip(m.from, p).to)
  <2>1. OnWay(p, m.from, r)
    BY <1>2 DEF TruthInv
  <2>2. Arriving(p, m.from)
    BY <1>2, <1>3, <2>1 DEF Arriving
  <2>3. Ip(m.from, p).pkt = p /\ Ip(m.from, p).to = m.from
    BY DEF Ip
  <2> QED
    BY <2>2, <2>3
<1>5. Arp("reply", m.to, m.from, m.to).type # "ip"
  BY DEF Arp
<1>6. \A e \in wire' : e.type = "ip" => e \in wire \/ Arriving(e.pkt, e.to)
  BY <1>1, <1>4, <1>5
<1>7. \A s \in Routers : \A a \in Targets : \A p \in req_list'[s][a].cached_packets :
        p \in req_list[s][a].cached_packets
  <2>1. \A s \in Routers : \A a \in Targets :
              req_list'[s][a] = IF s = r /\ a = m.from THEN NoRequest ELSE req_list[s][a]
    BY ArpTakenType
  <2>2. NoRequest.cached_packets = {}
    BY DEF NoRequest
  <2> QED
    BY <2>1, <2>2
<1> QED
  BY <1>1, <1>6, <1>7, KeptTruth

LEMMA SweepTruth ==
  ASSUME OrderlyNetwork, TypeInv, RetryInv, TruthInv,
         NEW r \in Routers, NEW due \in SUBSET Repeatable(r), NEW aged, SweepPass(r, due, aged)
  PROVE  TruthInv'
<1>1. /\ wire' = wire \cup UNION {Requests(<<r, a[2]>>, a) : a \in due}
      /\ UNCHANGED <<hand, trip, sent, got, losses>>
  BY DEF SweepPass
<1>2. \A a \in due : a \in Targets /\ <<r, a[2]>> \in Ifaces
  BY SweepType
<1>3. \A m \in wire' : m.type = "ip" => m \in wire
  BY <1>1, <1>2, RequestsHeld
<1>4. \A s \in Routers : \A a \in Targets : \A p \in req_list'[s][a].cached_packets :
        p \in req_list[s][a].cached_packets
  <2>1. \A s \in Routers : \A a \in Targets :
              /\ s = r /\ a \in GivenUp(r) => req_list'[s][a] = NoRequest
              /\ ~(s = r /\ a \in GivenUp(r)) => req_list'[s][a].cached_packets = req_list[s][a].cached_packets
    BY SweepType
  <2>2. NoRequest.cached_packets = {}
    BY DEF NoRequest
  <2> QED
    BY <2>1, <2>2
<1>5. ASSUME NEW a \in GivenUp(r), NEW p \in req_list[r][a].cached_packets PROVE Refusable(p, r)
  <2>1. a \in Targets /\ (a \notin Held \/ a[1] = r)
    BY GivenUpIs
  <2>2. <<r, a[2]>> \in Ifaces /\ p \in Pkt
    <3>1. req_list[r][a] \in Req /\ (Pending(r, a) => <<r, a[2]>> \in Ifaces)
      BY <2>1 DEF TypeInv, CacheType
    <3> QED
      BY <3>1 DEF Req, Pending
  <2>3. r \in Nodes
    <3>1. <<r, a[2]>> \in Targets /\ <<r, a[2]>>[1] = r
      BY <2>2, HeldIs
    <3> QED
      BY <3>1, NodesAre
  <2>4. OnWay(p, a, r)
    BY <2>1 DEF TruthInv
  <2> QED
    BY <2>1, <2>2, <2>3, <2>4, GivenUpRefusable DEF TypeInv
<1>6. \A s \in Routers : \A p \in tmp_list'[s] : p \in tmp_list[s] \/ Refusable(p, s)
  <2>1. \A s \in Routers : tmp_list'[s] = IF s = r THEN UNION {req_list[r][a].cached_packets : a \in GivenUp(r)}
                                            ELSE tmp_list[s]
    BY SweepType
  <2>2. ASSUME NEW p \in tmp_list'[r] PROVE Refusable(p, r)
    <3>1. p \in UNION {req_list[r][a].cached_packets : a \in GivenUp(r)}
      BY <2>1
    <3>2. PICK a \in GivenUp(r) : p \in req_list[r][a].cached_packets
      BY <3>1
    <3> QED
      BY <1>5, <3>2
  <2> QED
    BY <2>1, <2>2
<1> QED
  BY <1>1, <1>3, <1>4, <1>6, KeptTruth

LEMMA HostSendsTruth ==
  ASSUME OrderlyNetwork, TypeInv, TruthInv, NEW h \in Hosts, HostSends(h) PROVE TruthInv'
<1>1. PICK no, p : no = [host |-> h, nth |-> sent[h] + 1] /\ p = trip[h][sent[h] + 1]
  OBVIOUS
<1> DEFINE m == Sending(h, p.dst, p.ttl, "echo", no)
           a == HostAddr[h]
<1>2. /\ sent[h] + 1 \in 1..Len(trip[h])
      /\ \E asks \in SUBSET {Arp("request", a, Gateway[h], Gateway[h])} : wire' = wire \cup asks \cup {m}
  BY <1>1, HostSendsType
<1>3. UNCHANGED <<entries, req_list, hand, tmp_list, trip, got, losses>>
  BY DEF HostSends
<1>4. Sent(no) /\ Probe(no) = p /\ no.host = h
  BY <1>1, <1>2 DEF Sent, Probe
<1>5. p.ttl \in 1..DefaultTtl
  BY <1>1, <1>2, ProbeIs DEF TypeInv
<1>6. /\ Gateway[h] \in Ifaces /\ Gateway[h] \in Held /\ Gateway[h][1] \in Routers
      /\ a[1] \notin Routers /\ a[1] \in Nodes
  BY HeldIs, NodesAre, RouterConstants
<1> DEFINE q == [no |-> no, kind |-> "echo", ttl |-> p.ttl, dst |-> p.dst, src |-> a]
<1>7. m = Ip(Gateway[h], q)
  BY DEF Sending
<1>8. q.no = no /\ q.kind = "echo" /\ q.ttl = p.ttl /\ q.dst = p.dst /\ q.src = a
  OBVIOUS
<1>9. m.pkt = q /\ m.to = Gateway[h]
  BY <1>7 DEF Ip
<1> HIDE DEF m, q
<1>10. EchoOk(q)
  BY <1>4, <1>5, <1>8 DEF EchoOk
<1>11. Walk(Probe(q.no))[q.ttl][<<Gateway[h], a[1]>>] = Due(q.no)
  BY <1>4, <1>8 DEF Due, Fate
<1>12. OnWay(q, Gateway[h], a[1])
  BY <1>6, <1>8, <1>10, <1>11 DEF OnWay, EchoOnWay
<1>13. Arriving(m.pkt, m.to)
  BY <1>6, <1>9, <1>12 DEF Arriving
<1>14. \A e \in wire' : e.type = "ip" => e \in wire \/ Arriving(e.pkt, e.to)
  BY <1>2, <1>13 DEF Arp
<1> QED
  BY <1>3, <1>14, KeptTruth

LEMMA HostEchoTruth ==
  ASSUME OrderlyNetwork, TypeInv, TruthInv, NEW h \in Hosts, NEW m, HostEcho(h, m) PROVE TruthInv'
<1> DEFINE p == m.pkt
           a == HostAddr[h]
           e == Sending(h, p.src, DefaultTtl, "reply", p.no)
           q == e.pkt
           pr == Probe(p.no)
<1>1. /\ m \in wire /\ m.type = "ip" /\ m.to = a /\ p.kind = "echo" /\ wire' = (wire \ {m}) \cup {e}
      /\ UNCHANGED <<entries, req_list, hand, tmp_list, trip, sent, got, losses>>
  BY DEF HostEcho
<1>2. /\ p \in Pkt /\ e = Ip(Gateway[h], q) /\ q.no = p.no /\ q.kind = "reply" /\ q.ttl = DefaultTtl
      /\ q.dst = p.src /\ q.src = a
  BY HostEchoType
<1>3. PICK node \in Nodes : a \in Held /\ node # a[1] /\ EchoOnWay(p, a, node)
  BY <1>1 DEF TruthInv, Arriving, OnWay
<1>4. a \notin Ifaces /\ a \in Targets /\ a[1] \in Nodes /\ a[1] \notin Routers
  BY HeldIs, NodesAre, RouterConstants
<1>5. /\ EchoOk(p) /\ a = p.dst /\ Walk(pr)[p.ttl][<<a, node>>] = Due(p.no)
  BY <1>3, <1>4 DEF EchoOnWay
<1>6. Sent(p.no) /\ p.dst = pr.dst /\ pr.ttl \in Nat /\ p.ttl \in 1..pr.ttl /\ p.src = HostAddr[p.no.host] /\ p.no.host \in Hosts
  BY <1>5, SentIs DEF EchoOk, TypeInv
<1> HIDE DEF a, pr, q, e, p
<1>7. Due(p.no) = IF Ends(pr, p.ttl, a) THEN EndsWith(pr, p.ttl, a, node)
                  ELSE Walk(pr)[p.ttl - 1][<<NextHop(a[1], pr.dst), a[1]>>]
  BY <1>4, <1>5, <1>6, WalkStep
<1>8. Due(p.no) = Heard("reply", a[1])
  BY <1>3, <1>5, <1>6, <1>7 DEF Ends, EndsWith
<1>9. AnswerOk(q)
  BY <1>2, <1>6, <1>8 DEF AnswerOk
<1>10. Gateway[h] \in Ifaces /\ Gateway[h] \in Held /\ Gateway[h][1] \in Routers
  BY HeldIs, RouterConstants
<1>11. Dist[Gateway[h][1]][p.no.host] < DefaultTtl
  <2>1. Dist[Gateway[h][1]][p.no.host] \in 1..(DefaultTtl - 1)
    BY <1>6, <1>10, DistIs
  <2> QED
    BY <2>1, RouterConstants
<1>12. OnWay(q, Gateway[h], a[1])
  BY <1>2, <1>4, <1>9, <1>10, <1>11 DEF OnWay, AnswerOnWay
<1>13. Arriving(e.pkt, e.to)
  <2>1. e.to = Gateway[h] /\ e.pkt = q
    BY <1>2 DEF Ip
  <2> QED
    BY <1>4, <1>10, <1>12, <2>1 DEF Arriving
<1>14. \A c \in wire' : c.type = "ip" => c \in wire \/ Arriving(c.pkt, c.to)
  BY <1>1, <1>13
<1> QED
  BY <1>1, <1>14, KeptTruth

LEMMA HostAnswerTruth ==
  ASSUME TruthInv, NEW h \in Hosts, NEW m, HostAnswer(h, m) PROVE TruthInv'
<1>1. /\ m \in wire /\ m.type = "ip" /\ m.pkt.kind # "echo" /\ wire' = wire \ {m}
      /\ got' = got \cup {[no |-> m.pkt.no, kind |-> m.pkt.kind, src |-> m.pkt.src]}
      /\ UNCHANGED <<entries, req_list, hand, tmp_list, trip, sent, losses>>
  BY DEF HostAnswer
<1>2. Due(m.pkt.no) = Heard(m.pkt.kind, m.pkt.src[1])
  BY <1>1 DEF TruthInv, Arriving, OnWay, AnswerOnWay, AnswerOk
<1>3. \A a \in got' : a \in got \/ Due(a.no) = Heard(a.kind, a.src[1])
  BY <1>1, <1>2
<1> QED
  BY <1>1, <1>3, KeptTruth

LEMMA HostArpTruth == ASSUME TruthInv, NEW h, NEW m, HostArp(h, m) PROVE TruthInv'
<1>1. \A e \in wire' : e.type = "ip" => e \in wire
  BY DEF HostArp, Arp
<1>2. UNCHANGED <<entries, req_list, hand, tmp_list, trip, sent, got, losses>>
  BY DEF HostArp
<1> QED
  BY <1>1, <1>2, KeptTruth

LEMMA LoseArpTruth == ASSUME TruthInv, LoseArp PROVE TruthInv'
<1>1. \A e \in wire' : e \in wire
  BY DEF LoseArp
<1>2. UNCHANGED <<entries, req_list, hand, tmp_list, trip, sent, got>>
  BY DEF LoseArp
<1> QED
  BY <1>1, <1>2, KeptTruth

----------------------------------------------------------------------------
AnswerInv == CacheInv /\ RetryInv /\ TruthInv

LEMMA InitAnswerInv == Init => AnswerInv
<1> SUFFICES ASSUME Init PROVE AnswerInv
  OBVIOUS
<1>1. /\ wire = {} /\ got = {} /\ \A t \in Threads : hand[t] = NoHand
      /\ \A r \in Routers : tmp_list[r] = {} /\ \A k \in Slots : entries[r][k] = NoGw
      /\ \A r \in Routers : \A a \in Targets : req_list[r][a] = NoRequest
  BY DEF Init
<1>2. NoRequest.retries = 0 /\ NoRequest.cached_packets = {}
  BY DEF NoRequest
<1>3. CacheInv /\ TruthInv
  BY <1>1, <1>2 DEF CacheInv, TruthInv
<1>4. RetryInv
  BY <1>1, <1>2 DEF RetryInv, Pending
<1> QED
  BY <1>3, <1>4 DEF AnswerInv

LEMMA NextAnswerInv ==
  ASSUME OrderlyNetwork PROVE TypeInv /\ AnswerInv /\ [Next]_vars => AnswerInv'
<1> SUFFICES ASSUME TypeInv, CacheInv, RetryInv, TruthInv, [Next]_vars PROVE CacheInv' /\ RetryInv' /\ TruthInv'
  BY DEF AnswerInv
<1>1. CASE UNCHANGED vars
  BY <1>1, KeptCache, KeptRetry, KeptTruth DEF vars
<1>2. ASSUME NEW r \in Routers, NEW m, IpTaken(r, m) PROVE CacheInv' /\ RetryInv' /\ TruthInv'
  BY <1>2, OnlyIp, OnlyIpCache, KeptRetry, IpTakenTruth
<1>3. ASSUME NEW r \in Routers, NEW m, ArpTaken(r, m) PROVE CacheInv' /\ RetryInv' /\ TruthInv'
  BY <1>3, ArpTakenCache, ArpTakenRetry, ArpTakenTruth
<1>4. ASSUME NEW r \in Routers, NEW p, RefusedOne(r, p) PROVE CacheInv' /\ RetryInv' /\ TruthInv'
  BY <1>4, OnlyIp, OnlyIpCache, KeptRetry, RefusedOneTruth
<1>5. ASSUME NEW r \in Routers, NEW due \in SUBSET Repeatable(r), NEW aged, SweepPass(r, due, aged)
      PROVE  CacheInv' /\ RetryInv' /\ TruthInv'
  BY <1>5, SweepCache, SweepRetry, SweepTruth
<1>6. ASSUME NEW t \in Threads, AppendPacket(t) PROVE CacheInv' /\ RetryInv' /\ TruthInv'
  BY <1>6, AppendCache, AppendRetry, AppendTruth
<1>7. ASSUME NEW h \in Hosts, HostSends(h) PROVE CacheInv' /\ RetryInv' /\ TruthInv'
  <2>1. UNCHANGED <<req_list, losses>> /\ \A m \in wire : m \in wire'
    BY <1>7 DEF HostSends
  <2> QED
    BY <1>7, <2>1, HostSendsCache, KeptRetry, HostSendsTruth
<1>8. ASSUME NEW h \in Hosts, NEW m, HostArp(h, m) PROVE CacheInv' /\ RetryInv' /\ TruthInv'
  BY <1>8, HostArpCache, HostArpRetry, HostArpTruth
<1>9. ASSUME NEW h \in Hosts, NEW m, HostEcho(h, m) PROVE CacheInv' /\ RetryInv' /\ TruthInv'
  BY <1>9, OnlyIp, OnlyIpCache, KeptRetry, HostEchoTruth
<1>10. ASSUME NEW h \in Hosts, NEW m, HostAnswer(h, m) PROVE CacheInv' /\ RetryInv' /\ TruthInv'
  BY <1>10, OnlyIp, OnlyIpCache, KeptRetry, HostAnswerTruth
<1>11. CASE LoseArp
  <2>1. UNCHANGED entries /\ \A m \in wire' : m \in wire
    BY <1>11 DEF LoseArp
  <2> QED
    BY <1>11, <2>1, KeptCache, LoseArpRetry, LoseArpTruth
<1> QED
  BY <1>1, <1>2, <1>3, <1>4, <1>5, <1>6, <1>7, <1>8, <1>9, <1>10, <1>11, StepIs

LEMMA TruthIsTrue == TruthInv => TrueAnswers
BY DEF TruthInv, TrueAnswers, Due, Probe, Heard

\* Ping and traceroute tell the truth in every network in order: the answer a host gets,
\* and the node it comes from, are what the routes, the addresses and the TTL of its probe
\* call for, whatever the caches knew and lost (handle_ip_packet, icmp_send_packet,
\* arpcache_lookup, arpcache_append_packet, arpcache_insert, arpcache_sweep).
THEOREM AnswersAreTrue == OrderlyNetwork => (Spec => []TrueAnswers)
<1> SUFFICES ASSUME OrderlyNetwork PROVE Spec => []TrueAnswers
  OBVIOUS
<1>1. Init => IInv /\ AnswerInv
  BY InitIInv, InitAnswerInv
<1>2. IInv /\ AnswerInv /\ [Next]_vars => IInv' /\ AnswerInv'
  BY NextIInv, NextAnswerInv DEF IInv
<1>3. AnswerInv => TrueAnswers
  BY TruthIsTrue DEF AnswerInv
<1> QED
  BY <1>1, <1>2, <1>3, PTL DEF Spec
=============================================================================
