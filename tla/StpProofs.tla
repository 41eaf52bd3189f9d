----------------------------- MODULE StpProofs -----------------------------
(***************************************************************************)
(* Proofs about StpForward, for every set of switches, every cabling and    *)
(* every number of hellos and frames: what the spanning tree protocol never *)
(* does while configs arrive in any order and at any age.                   *)
(***************************************************************************)
EXTENDS StpForward, FiniteSetTheorems, WellFoundedInduction, TLAPS

\* A root at a cost is no worse than another.
NoWorse(r, c, r2, c2) == r < r2 \/ (r = r2 /\ c <= c2)

Types ==
  /\ config \in [PortSet -> Config]
  /\ designated_root \in [Switches -> Switches]
  /\ root_path_cost \in [Switches -> Nat]
  /\ root_port \in [Switches -> Nat] /\ \A s \in Switches : root_port[s] \in 0..nports[s]
  /\ hello_timer \in [Switches -> BOOLEAN]
  /\ hellos \in [Switches -> 0..MaxHellos]
  /\ link \in [PortSet -> Seq(Config)]

FwdTypes ==
  /\ mac_port_map \in [Switches -> [Hosts -> Nat]]
  /\ \A s \in Switches : \A h \in Hosts : mac_port_map[s][h] \in 0..nports[s]
  /\ frames \subseteq Frame
  /\ sent \in 0..MaxFrames

\* Config m was sent to port q from the other end of its cable ...
FromPeer(q, m) == Peer[q] \in PortSet /\ Peer[q] = <<m.switch, m.port>>

\* ... by a switch that by now believes in a root no worse.
Believed(m, root, cost) ==
  /\ NoWorse(root[m.switch], cost[m.switch], m.root, m.cost)
  /\ m.cost = 0 => m.root = m.switch

Good(q, m, root, cost) == FromPeer(q, m) /\ Believed(m, root, cost)

LinkInv ==
  \A q \in PortSet : \A k \in 1..Len(link[q]) :
    Good(q, link[q][k], designated_root, root_path_cost)

HeardInv ==
  \A q \in PortSet :
    ~Designated(config, q) => Good(q, config[q], designated_root, root_path_cost)

\* A switch without a root port has heard nothing better than itself; one with a root
\* port believes what that port has heard.
OwnConfig(s, i) == [root |-> s, cost |-> 0, switch |-> s, port |-> i]

AloneInv(s) ==
  /\ designated_root[s] = s /\ root_path_cost[s] = 0
  /\ \A i \in 1..nports[s] : config[<<s, i>>] = OwnConfig(s, i)

RootedInv(s) ==
  /\ ~Designated(config, <<s, root_port[s]>>)
  /\ designated_root[s] = config[<<s, root_port[s]>>].root
  /\ root_path_cost[s] = config[<<s, root_port[s]>>].cost + 1

SwitchInv == \A s \in Switches : IF root_port[s] = 0 THEN AloneInv(s) ELSE RootedInv(s)

StpInv == Types /\ LinkInv /\ HeardInv /\ SwitchInv

IInv == StpInv /\ FwdTypes

Improves ==
  \A s \in Switches :
    NoWorse(designated_root'[s], root_path_cost'[s], designated_root[s], root_path_cost[s])

-----------------------------------------------------------------------------
LEMMA Ports ==
  /\ \A s \in Switches : \A i \in 1..nports[s] : <<s, i>> \in PortSet
  /\ \A p \in PortSet : p[1] \in Switches /\ p[2] \in 1..nports[p[1]] /\ p = <<p[1], p[2]>>
BY DEF PortSet

LEMMA LeastNumber ==
  ASSUME NEW S \in SUBSET Nat, S # {}
  PROVE  \E n \in S : \A m \in S : n <= m
<1>1. PICK n \in S : \A m \in S : ~(<<m, n>> \in OpToRel(<, Nat))
  BY NatLessThanWellFounded, WFMin
<1>2. \A m \in S : n <= m
  <2>1. SUFFICES ASSUME NEW m \in S PROVE n <= m
    OBVIOUS
  <2>2. ~(m < n)
    BY <1>1 DEF OpToRel
  <2>3. QED
    BY <2>2
<1>3. QED
  BY <1>2

LEMMA LeastBy ==
  ASSUME NEW I, NEW g \in [I -> Nat], I # {}
  PROVE  \E i \in I : \A j \in I : g[i] <= g[j]
<1> DEFINE S == {g[i] : i \in I}
<1>1. S \in SUBSET Nat /\ S # {}
  OBVIOUS
<1>2. PICK n \in S : \A m \in S : n <= m
  <2> HIDE DEF S
  <2> QED
    BY <1>1, LeastNumber
<1>3. PICK i \in I : g[i] = n
  BY <1>2
<1>4. \A j \in I : g[i] <= g[j]
  BY <1>2, <1>3
<1>5. QED
  BY <1>4

\* Of some configs there is one that none is better than: look for the least root,
\* among those for the least cost, and so on.
LEMMA LeastConfig ==
  ASSUME NEW I, NEW f \in [I -> Config], I # {}
  PROVE  \E i \in I : \A j \in I : ~Better(f[j], f[i])
<1>0. \A i \in I : /\ f[i].root \in Nat /\ f[i].cost \in Nat
                   /\ f[i].switch \in Nat /\ f[i].port \in Nat
  BY StpConstants DEF Config
<1>1. PICK i1 \in I : \A j \in I : f[i1].root <= f[j].root
  <2> DEFINE g == [i \in I |-> f[i].root]
  <2>1. \E i \in I : \A j \in I : g[i] <= g[j]
    <3>1. g \in [I -> Nat]
      BY <1>0
    <3> HIDE DEF g
    <3>2. QED
      BY <3>1, LeastBy
  <2>2. QED
    BY <2>1
<1> DEFINE I2 == {i \in I : f[i].root = f[i1].root}
<1>2. PICK i2 \in I2 : \A j \in I2 : f[i2].cost <= f[j].cost
  <2> DEFINE g == [i \in I2 |-> f[i].cost]
  <2>1. \E i \in I2 : \A j \in I2 : g[i] <= g[j]
    <3>1. g \in [I2 -> Nat] /\ i1 \in I2
      BY <1>0
    <3> HIDE DEF g, I2
    <3>2. QED
      BY <3>1, LeastBy
  <2>2. QED
    BY <2>1
<1> DEFINE I3 == {i \in I2 : f[i].cost = f[i2].cost}
<1>3. PICK i3 \in I3 : \A j \in I3 : f[i3].switch <= f[j].switch
  <2> DEFINE g == [i \in I3 |-> f[i].switch]
  <2>1. \E i \in I3 : \A j \in I3 : g[i] <= g[j]
    <3>1. g \in [I3 -> Nat] /\ i2 \in I3
      BY <1>0, <1>2
    <3> HIDE DEF g, I3
    <3>2. QED
      BY <3>1, LeastBy
  <2>2. QED
    BY <2>1
<1> DEFINE I4 == {i \in I3 : f[i].switch = f[i3].switch}
<1>4. PICK i4 \in I4 : \A j \in I4 : f[i4].port <= f[j].port
  <2> DEFINE g == [i \in I4 |-> f[i].port]
  <2>1. \E i \in I4 : \A j \in I4 : g[i] <= g[j]
    <3>1. g \in [I4 -> Nat] /\ i3 \in I4
      BY <1>0, <1>3
    <3> HIDE DEF g, I4
    <3>2. QED
      BY <3>1, LeastBy
  <2>2. QED
    BY <2>1
<1>5. ASSUME NEW j \in I
      PROVE  ~Better(f[j], f[i4])
  BY <1>0, <1>1, <1>2, <1>3, <1>4 DEF Better
<1>6. QED
  BY <1>5

\* update_stp_status finds a port, and no other it has heard from is better.
LEMMA BestIs ==
  ASSUME NEW cfg \in [PortSet -> Config], NEW s \in Switches,
         NEW i \in 1..nports[s], ~Designated(cfg, <<s, i>>)
  PROVE  LET b == BestPort(cfg, s)
         IN  /\ b \in 1..nports[s] /\ ~Designated(cfg, <<s, b>>)
             /\ \A j \in 1..nports[s] :
                  ~Designated(cfg, <<s, j>>) => ~Better(cfg[<<s, j>>], cfg[<<s, b>>])
<1> DEFINE heard == {k \in 1..nports[s] : ~Designated(cfg, <<s, k>>)}
           best  == {k \in heard : \A j \in heard : ~Better(cfg[<<s, j>>], cfg[<<s, k>>])}
           f     == [k \in heard |-> cfg[<<s, k>>]]
<1>1. heard # {} /\ f \in [heard -> Config]
  BY Ports
<1>2. \E k \in heard : \A j \in heard : ~Better(f[j], f[k])
  <2> HIDE DEF heard, f
  <2> QED
    BY <1>1, LeastConfig
<1>3. best # {} /\ best \in SUBSET Nat
  <2>1. best # {}
    BY <1>2
  <2>2. nports[s] \in Nat
    BY StpConstants
  <2>3. QED
    BY <2>1, <2>2
<1>4. \E k \in best : \A j \in best : k <= j
  <2> HIDE DEF best
  <2> QED
    BY <1>3, LeastNumber
<1>5. BestPort(cfg, s) = CHOOSE k \in best : \A j \in best : k <= j
  BY <1>1 DEF BestPort
<1>6. BestPort(cfg, s) \in best
  BY <1>4, <1>5
<1>7. QED
  BY <1>6

-----------------------------------------------------------------------------
LEMMA NoWorseFacts ==
  ASSUME NEW r1 \in Nat, NEW c1 \in Nat, NEW r2 \in Nat, NEW c2 \in Nat, NEW r3 \in Nat, NEW c3 \in Nat
  PROVE  /\ NoWorse(r1, c1, r1, c1)
         /\ NoWorse(r1, c1, r2, c2) /\ NoWorse(r2, c2, r3, c3) => NoWorse(r1, c1, r3, c3)
         /\ NoWorse(r1, c1, r2, c2) => NoWorse(r1, c1 + 1, r2, c2 + 1)
BY DEF NoWorse

LEMMA BetterFacts ==
  ASSUME NEW c \in Config, NEW d \in Config
  PROVE  /\ Better(c, d) => NoWorse(c.root, c.cost, d.root, d.cost)
         /\ ~Better(c, d) => NoWorse(d.root, d.cost, c.root, c.cost)
<1>1. /\ c.root \in Nat /\ c.cost \in Nat /\ c.switch \in Nat /\ c.port \in Nat
      /\ d.root \in Nat /\ d.cost \in Nat /\ d.switch \in Nat /\ d.port \in Nat
  BY StpConstants DEF Config
<1>2. QED
  BY <1>1 DEF Better, NoWorse

\* What a switch sends is what it believes.
LEMMA SendingGood ==
  ASSUME NEW taken \in [PortSet -> Seq(Config)],
         \A q \in PortSet : \A k \in 1..Len(taken[q]) : Good(q, taken[q][k], designated_root', root_path_cost'),
         NEW s \in Switches, NEW from \in SUBSET PortSet, \A p \in from : p[1] = s,
         designated_root'[s] \in Switches, root_path_cost'[s] \in Nat,
         root_path_cost'[s] = 0 => designated_root'[s] = s,
         link' = Sending(taken, s, from)
  PROVE  link' \in [PortSet -> Seq(Config)] /\ LinkInv'
<1> DEFINE m(q) == [root |-> designated_root'[s], cost |-> root_path_cost'[s],
                    switch |-> s, port |-> Peer[q][2]]
<1>1. ASSUME NEW q \in PortSet
      PROVE  link'[q] = taken[q] \/ (Peer[q] \in from /\ link'[q] = Append(taken[q], m(q)))
  BY DEF Sending, Enqueue
<1>2. ASSUME NEW q \in PortSet, Peer[q] \in from
      PROVE  m(q) \in Config /\ Good(q, m(q), designated_root', root_path_cost')
  <2>1. Peer[q] \in PortSet /\ Peer[q] = <<s, Peer[q][2]>> /\ Peer[q][2] \in 1..nports[s]
    BY <1>2, Ports
  <2>2. nports[s] \in Nat /\ designated_root'[s] \in Nat
    BY StpConstants
  <2>3. m(q) \in Config
    BY <2>1, <2>2 DEF Config
  <2>4. NoWorse(designated_root'[s], root_path_cost'[s], designated_root'[s], root_path_cost'[s])
    BY <2>2, NoWorseFacts
  <2>5. QED
    BY <2>1, <2>3, <2>4 DEF Good, FromPeer, Believed
<1> HIDE DEF m
<1>3. ASSUME NEW q \in PortSet
      PROVE  link'[q] \in Seq(Config) /\ \A k \in 1..Len(link'[q]) : Good(q, link'[q][k], designated_root', root_path_cost')
  <2>1. CASE link'[q] = taken[q]
    BY <2>1
  <2>2. CASE Peer[q] \in from /\ link'[q] = Append(taken[q], m(q))
    <3>1. m(q) \in Config /\ Good(q, m(q), designated_root', root_path_cost') /\ taken[q] \in Seq(Config)
      BY <1>2, <2>2
    <3>2. /\ Append(taken[q], m(q)) \in Seq(Config)
          /\ Len(Append(taken[q], m(q))) = Len(taken[q]) + 1
          /\ \A k \in 1..(Len(taken[q]) + 1) :
               Append(taken[q], m(q))[k] = IF k <= Len(taken[q]) THEN taken[q][k] ELSE m(q)
      BY <3>1
    <3>3. ASSUME NEW k \in 1..Len(link'[q])
          PROVE  Good(q, link'[q][k], designated_root', root_path_cost')
      <4>1. k \in 1..Len(taken[q]) \/ link'[q][k] = m(q)
        BY <2>2, <3>1, <3>2
      <4>2. CASE k \in 1..Len(taken[q])
        <5>1. link'[q][k] = taken[q][k]
          BY <2>2, <3>1, <3>2, <4>2
        <5>2. QED
          BY <4>2, <5>1
      <4>3. CASE link'[q][k] = m(q)
        BY <3>1, <4>3
      <4>4. QED
        BY <4>1, <4>2, <4>3
    <3>4. QED
      BY <2>2, <3>2, <3>3
  <2>3. QED
    BY <1>1, <2>1, <2>2
<1>4. link' \in [PortSet -> Seq(Config)]
  <2>1. link' = [q \in PortSet |-> link'[q]]
    BY DEF Sending
  <2>2. QED
    BY <1>3, <2>1
<1>5. QED
  BY <1>3, <1>4 DEF LinkInv

-----------------------------------------------------------------------------
\* The config at hand.
LEMMA AtHand ==
  ASSUME Types, LinkInv, NEW p \in PortSet, link[p] # <<>>
  PROVE  /\ Head(link[p]) \in Config
         /\ Good(p, Head(link[p]), designated_root, root_path_cost)
         /\ Taken(p) \in [PortSet -> Seq(Config)]
         /\ \A q \in PortSet : \A k \in 1..Len(Taken(p)[q]) :
              Taken(p)[q][k] \in Config /\ Good(q, Taken(p)[q][k], designated_root, root_path_cost)
<1>1. link \in [PortSet -> Seq(Config)] /\ link[p] \in Seq(Config)
  BY DEF Types
<1>2. Len(link[p]) \in Nat \ {0} /\ Head(link[p]) = link[p][1] /\ link[p][1] \in Config
  BY <1>1
<1>3. Good(p, Head(link[p]), designated_root, root_path_cost)
  BY <1>2 DEF LinkInv
<1>4. /\ Tail(link[p]) \in Seq(Config) /\ Len(Tail(link[p])) = Len(link[p]) - 1
      /\ \A k \in 1..(Len(link[p]) - 1) : Tail(link[p])[k] = link[p][k + 1]
  BY <1>1, <1>2
<1>5. /\ Taken(p)[p] = Tail(link[p])
      /\ \A q \in PortSet \ {p} : Taken(p)[q] = link[q]
      /\ Taken(p) \in [PortSet -> Seq(Config)]
  BY <1>1, <1>4 DEF Taken
<1>6. ASSUME NEW q \in PortSet, NEW k \in 1..Len(Taken(p)[q])
      PROVE  Taken(p)[q][k] \in Config /\ Good(q, Taken(p)[q][k], designated_root, root_path_cost)
  <2>1. CASE q = p
    <3>1. k + 1 \in 1..Len(link[p]) /\ Taken(p)[q][k] = link[p][k + 1]
      <4>1. Taken(p)[q] = Tail(link[p])
        BY <1>5, <2>1
      <4>2. k \in 1..(Len(link[p]) - 1)
        BY <1>4, <4>1
      <4>3. QED
        BY <1>2, <1>4, <4>1, <4>2
    <3>2. QED
      BY <1>1, <2>1, <3>1 DEF LinkInv
  <2>2. CASE q # p
    <3>1. Taken(p)[q] = link[q]
      BY <1>5, <2>2
    <3>2. QED
      BY <1>1, <3>1 DEF LinkInv
  <2>3. QED
    BY <2>1, <2>2
<1>7. QED
  BY <1>2, <1>3, <1>5, <1>6

\* What a switch comes to believe when a better config reaches port p.
LEMMA NewBelief ==
  ASSUME StpInv, NEW p \in PortSet, AcceptConfig(p),
         NEW s, s = p[1], NEW heard, heard = [config EXCEPT ![p] = Head(link[p])],
         NEW rp, rp = BestPort(heard, s)
  PROVE  /\ s \in Switches /\ heard \in [PortSet -> Config]
         /\ rp \in 1..nports[s] /\ rp # 0 /\ ~Designated(heard, <<s, rp>>)
         /\ root_port' = [root_port EXCEPT ![s] = rp]
         /\ designated_root' = [designated_root EXCEPT ![s] = heard[<<s, rp>>].root]
         /\ root_path_cost' = [root_path_cost EXCEPT ![s] = heard[<<s, rp>>].cost + 1]
         /\ config' = UpdatePorts(heard, s, rp, designated_root'[s], root_path_cost'[s])
         /\ NoWorse(heard[<<s, rp>>].root, heard[<<s, rp>>].cost + 1,
                    designated_root[s], root_path_cost[s])
<1> DEFINE m == Head(link[p])
           b == <<s, rp>>
<1>1. /\ Types /\ LinkInv /\ HeardInv /\ SwitchInv /\ link[p] # <<>> /\ Better(m, config[p])
  BY DEF StpInv, AcceptConfig, Superior
<1>2. m \in Config /\ Good(p, m, designated_root, root_path_cost)
  BY <1>1, AtHand
<1>3. s \in Switches /\ p[2] \in 1..nports[s] /\ p = <<s, p[2]>> /\ nports[s] \in Nat
  BY Ports, StpConstants
<1>4. config \in [PortSet -> Config] /\ heard \in [PortSet -> Config] /\ heard[p] = m
      /\ \A q \in PortSet \ {p} : heard[q] = config[q]
  BY <1>1, <1>2 DEF Types
<1>5. m.switch # s
  BY <1>2, <1>3, StpConstants DEF Good, FromPeer
<1>6. ~Designated(heard, p)
  BY <1>4, <1>5 DEF Designated
<1>7. /\ rp \in 1..nports[s] /\ ~Designated(heard, b)
      /\ \A j \in 1..nports[s] : ~Designated(heard, <<s, j>>) => ~Better(heard[<<s, j>>], heard[b])
  BY <1>3, <1>4, <1>6, BestIs
<1>8. rp # 0 /\ b \in PortSet
  <2>1. rp # 0
    BY <1>3, <1>7
  <2>2. b \in PortSet
    BY <1>3, <1>7, Ports
  <2>3. QED
    BY <2>1, <2>2
<1>9. /\ root_port' = [root_port EXCEPT ![s] = rp]
      /\ designated_root' = [designated_root EXCEPT ![s] = heard[b].root]
      /\ root_path_cost' = [root_path_cost EXCEPT ![s] = heard[b].cost + 1]
      /\ config' = UpdatePorts(heard, s, rp, designated_root'[s], root_path_cost'[s])
  BY <1>8 DEF AcceptConfig, RootBy, CostBy
<1> HIDE DEF m
\* The best port's config is no worse than what arrived or than any other port's.
<1>10. NoWorse(heard[b].root, heard[b].cost, m.root, m.cost)
  BY <1>3, <1>4, <1>6, <1>7, <1>8, BetterFacts
<1>11. /\ heard[b].root \in Nat /\ heard[b].cost \in Nat /\ m.root \in Nat /\ m.cost \in Nat
       /\ designated_root[s] \in Nat /\ root_path_cost[s] \in Nat
  BY <1>1, <1>2, <1>3, <1>4, <1>8, StpConstants DEF Types, Config
<1>12. CASE root_port[s] = 0
  <2>1. /\ designated_root[s] = s /\ root_path_cost[s] = 0
        /\ config[p] = OwnConfig(s, p[2])
    BY <1>1, <1>3, <1>12 DEF SwitchInv, AloneInv
  <2>2. m.root < s
    <3>1. /\ m.switch \in Nat /\ s \in Nat
          /\ (m.cost = 0 => m.root = m.switch)
      BY <1>2, <1>3, StpConstants DEF Good, Believed, Config
    <3>2. \/ m.root < s
          \/ m.root = s /\ m.cost < 0
          \/ m.root = s /\ m.cost = 0
      BY <1>1, <2>1 DEF Better, OwnConfig, m
    <3>3. QED
      BY <1>5, <1>11, <3>1, <3>2
  <2>3. heard[b].root < s
    BY <1>10, <1>11, <1>3, <2>2, StpConstants DEF NoWorse
  <2>4. NoWorse(heard[b].root, heard[b].cost + 1, designated_root[s], root_path_cost[s])
    BY <2>1, <2>3 DEF NoWorse
  <2>5. QED
    BY <1>3, <1>4, <1>7, <1>8, <1>9, <2>4
<1>13. CASE root_port[s] # 0
  <2> DEFINE r == <<s, root_port[s]>>
  <2>1. /\ r \in PortSet /\ ~Designated(config, r) /\ root_port[s] \in 1..nports[s]
        /\ designated_root[s] = config[r].root /\ root_path_cost[s] = config[r].cost + 1
    <3>1. root_port[s] \in 1..nports[s]
      BY <1>1, <1>3, <1>13 DEF Types
    <3>2. QED
      BY <1>1, <1>3, <1>13, <3>1, Ports DEF SwitchInv, RootedInv
  <2>2. config[r].root \in Nat /\ config[r].cost \in Nat
    BY <1>4, <2>1, StpConstants DEF Config
  <2>3. NoWorse(heard[b].root, heard[b].cost, config[r].root, config[r].cost)
    <3>1. CASE r = p
      <4>1. NoWorse(m.root, m.cost, config[p].root, config[p].cost)
        BY <1>1, <1>2, <1>4, BetterFacts DEF m
      <4>2. QED
        <5>1. config[p].root \in Nat /\ config[p].cost \in Nat
          BY <2>2, <3>1
        <5>2. NoWorse(heard[b].root, heard[b].cost, config[p].root, config[p].cost)
          BY <1>10, <1>11, <4>1, <5>1, NoWorseFacts
        <5>3. QED
          BY <3>1, <5>2
    <3>2. CASE r # p
      <4>1. heard[r] = config[r] /\ ~Designated(heard, r)
        BY <1>4, <2>1, <3>2 DEF Designated
      <4>2. ~Better(heard[r], heard[b])
        BY <1>7, <2>1, <4>1
      <4>3. QED
        BY <1>4, <1>8, <2>1, <4>1, <4>2, BetterFacts
    <3>3. QED
      BY <3>1, <3>2
  <2>4. NoWorse(heard[b].root, heard[b].cost + 1, config[r].root, config[r].cost + 1)
    BY <1>11, <2>2, <2>3, NoWorseFacts
  <2>5. QED
    BY <1>3, <1>4, <1>7, <1>8, <1>9, <2>1, <2>4
<1>14. QED
  BY <1>12, <1>13

\* update_port_config changes what the designated ports say, and makes some designated.
LEMMA UpdatedPorts ==
  ASSUME NEW heard \in [PortSet -> Config], NEW s \in Switches, NEW rp \in 1..nports[s],
         ~Designated(heard, <<s, rp>>), NEW root \in Switches, NEW cost \in Nat,
         NEW U, U = UpdatePorts(heard, s, rp, root, cost)
  PROVE  /\ U \in [PortSet -> Config]
         /\ \A q \in PortSet : q[1] # s => U[q] = heard[q]
         /\ \A q \in PortSet : ~Designated(U, q) => U[q] = heard[q] /\ ~Designated(heard, q)
         /\ U[<<s, rp>>] = heard[<<s, rp>>]
<1>1. ASSUME NEW q \in PortSet
      PROVE  /\ heard[q] \in Config /\ q[1] \in Switches /\ q[2] \in Nat /\ q = <<q[1], q[2]>>
             /\ [heard[q] EXCEPT !.root = root, !.cost = cost] \in Config
             /\ [heard[q] EXCEPT !.switch = s, !.port = q[2]] \in Config
  <2>1. nports[q[1]] \in Nat /\ q[2] \in 1..nports[q[1]]
    BY Ports, StpConstants
  <2>2. q[2] \in Nat
    BY <2>1
  <2>3. QED
    BY <2>2, Ports DEF Config
<1>2. ASSUME NEW q \in PortSet
      PROVE  \/ U[q] = heard[q]
             \/ /\ q[1] = s /\ Designated(heard, q)
                /\ U[q] = [heard[q] EXCEPT !.root = root, !.cost = cost]
             \/ /\ q[1] = s /\ q[2] # rp
                /\ U[q] = [heard[q] EXCEPT !.switch = s, !.port = q[2]]
  BY DEF UpdatePorts
<1>3. U \in [PortSet -> Config]
  <2>1. U = [q \in PortSet |-> U[q]]
    BY DEF UpdatePorts
  <2>2. \A q \in PortSet : U[q] \in Config
    BY <1>1, <1>2
  <2>3. QED
    BY <2>1, <2>2
<1>4. ASSUME NEW q \in PortSet, ~Designated(U, q)
      PROVE  U[q] = heard[q] /\ ~Designated(heard, q)
  <2>1. CASE U[q] = heard[q]
    BY <1>4, <2>1 DEF Designated
  <2>2. CASE Designated(heard, q) /\ U[q] = [heard[q] EXCEPT !.root = root, !.cost = cost]
    <3>1. U[q].switch = heard[q].switch /\ U[q].port = heard[q].port
      BY <1>1, <2>2 DEF Config
    <3>2. QED
      BY <1>4, <2>2, <3>1 DEF Designated
  <2>3. CASE q[1] = s /\ U[q] = [heard[q] EXCEPT !.switch = s, !.port = q[2]]
    <3>1. U[q].switch = s /\ U[q].port = q[2]
      BY <1>1, <2>3 DEF Config
    <3>2. QED
      BY <1>4, <2>3, <3>1 DEF Designated
  <2>4. QED
    BY <1>2, <2>1, <2>2, <2>3
<1>5. U[<<s, rp>>] = heard[<<s, rp>>]
  <2>1. <<s, rp>> \in PortSet
    BY Ports
  <2>2. QED
    BY <1>2, <2>1
<1>6. QED
  BY <1>2, <1>3, <1>4, <1>5

LEMMA AcceptKeeps ==
  ASSUME StpInv, NEW p \in PortSet, AcceptConfig(p)
  PROVE  StpInv' /\ Improves
<1> DEFINE s == p[1]
           m == Head(link[p])
           heard == [config EXCEPT ![p] = m]
           rp == BestPort(heard, s)
           b == <<s, rp>>
<1>1. /\ Types /\ LinkInv /\ HeardInv /\ SwitchInv /\ link[p] # <<>>
  BY DEF StpInv, AcceptConfig
<1>2. /\ m \in Config /\ Good(p, m, designated_root, root_path_cost)
      /\ Taken(p) \in [PortSet -> Seq(Config)]
      /\ \A q \in PortSet : \A k \in 1..Len(Taken(p)[q]) :
           Taken(p)[q][k] \in Config /\ Good(q, Taken(p)[q][k], designated_root, root_path_cost)
  BY <1>1, AtHand
<1>3. /\ s \in Switches /\ heard \in [PortSet -> Config]
      /\ rp \in 1..nports[s] /\ rp # 0 /\ ~Designated(heard, b)
      /\ root_port' = [root_port EXCEPT ![s] = rp]
      /\ designated_root' = [designated_root EXCEPT ![s] = heard[b].root]
      /\ root_path_cost' = [root_path_cost EXCEPT ![s] = heard[b].cost + 1]
      /\ config' = UpdatePorts(heard, s, rp, designated_root'[s], root_path_cost'[s])
      /\ NoWorse(heard[b].root, heard[b].cost + 1, designated_root[s], root_path_cost[s])
  BY NewBelief
<1>4. /\ hello_timer' = [hello_timer EXCEPT ![s] = @ /\ designated_root'[s] = s]
      /\ UNCHANGED hellos
      /\ link' = Sending(Taken(p), s, DesignatedPorts(s))
  BY DEF AcceptConfig
<1>5. heard[p] = m /\ \A q \in PortSet \ {p} : heard[q] = config[q]
  BY <1>1 DEF Types
<1> HIDE DEF s, m, heard, rp
<1>6. b \in PortSet /\ heard[b].root \in Switches /\ heard[b].cost \in Nat
  BY <1>3, Ports DEF Config
<1>7. /\ designated_root'[s] = heard[b].root /\ root_path_cost'[s] = heard[b].cost + 1
      /\ root_port'[s] = rp
      /\ \A t \in Switches \ {s} : /\ designated_root'[t] = designated_root[t]
                                   /\ root_path_cost'[t] = root_path_cost[t]
                                   /\ root_port'[t] = root_port[t]
      /\ designated_root' \in [Switches -> Switches] /\ root_path_cost' \in [Switches -> Nat]
      /\ root_port' \in [Switches -> Nat]
  <2>1. rp \in Nat /\ heard[b].cost + 1 \in Nat
    BY <1>3, <1>6, StpConstants
  <2>2. QED
    BY <1>1, <1>3, <1>6, <2>1 DEF Types
<1>8. /\ config' \in [PortSet -> Config]
      /\ \A q \in PortSet : q[1] # s => config'[q] = heard[q]
      /\ \A q \in PortSet : ~Designated(config', q) => config'[q] = heard[q] /\ ~Designated(heard, q)
      /\ config'[b] = heard[b]
  <2>1. designated_root'[s] \in Switches /\ root_path_cost'[s] \in Nat
    BY <1>6, <1>7
  <2> DEFINE root == designated_root'[s]
             cost == root_path_cost'[s]
             U    == config'
  <2>2. root \in Switches /\ cost \in Nat /\ U = UpdatePorts(heard, s, rp, root, cost)
    BY <1>3, <2>1
  <2> HIDE DEF root, cost, U
  <2>3. /\ U \in [PortSet -> Config]
        /\ \A q \in PortSet : q[1] # s => U[q] = heard[q]
        /\ \A q \in PortSet : ~Designated(U, q) => U[q] = heard[q] /\ ~Designated(heard, q)
        /\ U[b] = heard[b]
    BY <1>3, <2>2, UpdatedPorts
  <2>4. QED
    BY <2>3 DEF U
<1>9. Improves
  <2>1. ASSUME NEW t \in Switches
        PROVE  NoWorse(designated_root'[t], root_path_cost'[t], designated_root[t], root_path_cost[t])
    <3>1. CASE t = s
      BY <1>3, <1>7, <3>1
    <3>2. CASE t # s
      <4>1. designated_root[t] \in Nat /\ root_path_cost[t] \in Nat
        BY <1>1, StpConstants DEF Types
      <4>2. QED
        BY <1>7, <3>2, <4>1, NoWorseFacts
    <3>3. QED
      BY <3>1, <3>2
  <2>2. QED
    BY <2>1 DEF Improves
<1>10. hello_timer' \in [Switches -> BOOLEAN]
  BY <1>1, <1>4 DEF Types
<1>11. \A t \in Switches : root_port'[t] \in 0..nports[t]
  <2>1. ASSUME NEW t \in Switches PROVE root_port'[t] \in 0..nports[t]
    <3>1. nports[t] \in Nat
      BY StpConstants
    <3>2. CASE t = s
      BY <1>3, <1>7, <3>1, <3>2
    <3>3. CASE t # s
      BY <1>1, <1>7, <3>3 DEF Types
    <3>4. QED
      BY <3>2, <3>3
  <2>2. QED
    BY <2>1
\* A config that was good still is.
<1>12. ASSUME NEW q \in PortSet, NEW c \in Config, Good(q, c, designated_root, root_path_cost)
       PROVE  Good(q, c, designated_root', root_path_cost')
  <2>1. /\ designated_root[c.switch] \in Nat /\ root_path_cost[c.switch] \in Nat
        /\ designated_root'[c.switch] \in Nat /\ root_path_cost'[c.switch] \in Nat
        /\ c.root \in Nat /\ c.cost \in Nat /\ c.switch \in Switches
    BY <1>1, <1>7, StpConstants DEF Types, Config
  <2>2. NoWorse(designated_root'[c.switch], root_path_cost'[c.switch],
                designated_root[c.switch], root_path_cost[c.switch])
    BY <1>9, <2>1 DEF Improves
  <2>3. NoWorse(designated_root'[c.switch], root_path_cost'[c.switch], c.root, c.cost)
    <3>1. NoWorse(designated_root[c.switch], root_path_cost[c.switch], c.root, c.cost)
      BY <1>12 DEF Good, Believed
    <3>2. QED
      BY <2>1, <2>2, <3>1, NoWorseFacts
  <2>4. QED
    BY <1>12, <2>3 DEF Good, FromPeer, Believed
<1>13. link' \in [PortSet -> Seq(Config)] /\ LinkInv'
  <2>1. \A q \in PortSet : \A k \in 1..Len(Taken(p)[q]) :
          Good(q, Taken(p)[q][k], designated_root', root_path_cost')
    BY <1>2, <1>12
  <2>2. DesignatedPorts(s) \in SUBSET PortSet /\ \A q \in DesignatedPorts(s) : q[1] = s
    BY <1>3, Ports DEF DesignatedPorts
  <2>3. /\ designated_root'[s] \in Switches /\ root_path_cost'[s] \in Nat
        /\ ~(root_path_cost'[s] = 0)
    BY <1>6, <1>7
  <2>4. QED
    BY <1>2, <1>3, <1>4, <2>1, <2>2, <2>3, SendingGood
<1>14. HeardInv'
  <2>1. ASSUME NEW q \in PortSet, ~Designated(config', q)
        PROVE  Good(q, config'[q], designated_root', root_path_cost')
    <3>1. config'[q] = heard[q] /\ ~Designated(heard, q) /\ heard[q] \in Config
      BY <1>3, <1>8, <2>1
    <3>2. Good(q, heard[q], designated_root, root_path_cost)
      <4>1. CASE q = p
        BY <1>2, <1>5, <4>1
      <4>2. CASE q # p
        BY <1>1, <1>5, <3>1, <4>2 DEF HeardInv, Designated
      <4>3. QED
        BY <4>1, <4>2
    <3>3. QED
      BY <1>12, <3>1, <3>2
  <2>2. QED
    BY <2>1 DEF HeardInv
<1>15. SwitchInv'
  <2>1. ASSUME NEW t \in Switches
        PROVE  IF root_port'[t] = 0 THEN AloneInv(t)' ELSE RootedInv(t)'
    <3>1. CASE t = s
      <4>1. ~Designated(config', b)
        BY <1>3, <1>8 DEF Designated
      <4>2. QED
        BY <1>3, <1>7, <1>8, <3>1, <4>1 DEF RootedInv
    <3>2. CASE t # s
      <4>1. ASSUME NEW i \in 1..nports[t]
            PROVE  <<t, i>> \in PortSet /\ config'[<<t, i>>] = config[<<t, i>>]
        <5>1. <<t, i>> \in PortSet /\ <<t, i>> # p /\ <<t, i>>[1] # s
          BY <3>2, Ports DEF s
        <5>2. QED
          BY <1>5, <1>8, <5>1
      <4>2. CASE root_port[t] = 0
        BY <1>1, <1>7, <3>2, <4>1, <4>2 DEF SwitchInv, AloneInv
      <4>3. CASE root_port[t] # 0
        <5>1. root_port[t] \in 1..nports[t]
          BY <1>1, <4>3, StpConstants DEF Types
        <5>2. config'[<<t, root_port[t]>>] = config[<<t, root_port[t]>>]
          BY <4>1, <5>1
        <5>3. QED
          <6>1. RootedInv(t) /\ root_port'[t] = root_port[t] /\ root_port'[t] # 0
            BY <1>1, <1>7, <3>2, <4>3 DEF SwitchInv
          <6>2. /\ designated_root'[t] = designated_root[t]
                /\ root_path_cost'[t] = root_path_cost[t]
            BY <1>7, <3>2
          <6>3. ~Designated(config', <<t, root_port[t]>>)
            BY <5>2, <6>1 DEF RootedInv, Designated
          <6>4. QED
            BY <5>2, <6>1, <6>2, <6>3 DEF RootedInv
      <4>4. QED
        BY <4>2, <4>3
    <3>3. QED
      BY <3>1, <3>2
  <2>2. QED
    BY <2>1 DEF SwitchInv
<1>16. Types'
  BY <1>1, <1>4, <1>7, <1>8, <1>10, <1>11, <1>13 DEF Types
<1>17. QED
  BY <1>9, <1>13, <1>14, <1>15, <1>16 DEF StpInv

-----------------------------------------------------------------------------
\* A hello or a reply changes what is under way only.
LEMMA SpeechKeeps ==
  ASSUME StpInv, NEW s \in Switches, NEW from \in SUBSET PortSet, \A p \in from : p[1] = s,
         NEW taken \in [PortSet -> Seq(Config)],
         \A q \in PortSet : \A k \in 1..Len(taken[q]) :
           Good(q, taken[q][k], designated_root, root_path_cost),
         UNCHANGED <<swVars, hello_timer>>, hellos' \in [Switches -> 0..MaxHellos],
         link' = Sending(taken, s, from)
  PROVE  StpInv' /\ Improves
<1>1. Types /\ LinkInv /\ HeardInv /\ SwitchInv
  BY DEF StpInv
<1>2. /\ config' = config /\ designated_root' = designated_root
      /\ root_path_cost' = root_path_cost /\ root_port' = root_port
      /\ hello_timer' = hello_timer
  BY DEF swVars
<1>3. /\ designated_root'[s] \in Switches /\ root_path_cost'[s] \in Nat
      /\ root_path_cost'[s] = 0 => designated_root'[s] = s
  <2>1. designated_root[s] \in Switches /\ root_path_cost[s] \in Nat
    BY <1>1 DEF Types
  <2>2. CASE root_port[s] = 0
    BY <1>1, <1>2, <2>1, <2>2 DEF SwitchInv, AloneInv
  <2>3. CASE root_port[s] # 0
    <3>1. root_port[s] \in 1..nports[s]
      BY <1>1, <2>3, StpConstants DEF Types
    <3>2. config[<<s, root_port[s]>>].cost \in Nat
      BY <1>1, <3>1, Ports DEF Types, Config
    <3>3. root_path_cost[s] = config[<<s, root_port[s]>>].cost + 1
      BY <1>1, <2>3 DEF SwitchInv, RootedInv
    <3>4. QED
      BY <1>2, <2>1, <3>2, <3>3
  <2>4. QED
    BY <2>2, <2>3
<1>4. link' \in [PortSet -> Seq(Config)] /\ LinkInv'
  BY <1>2, <1>3, SendingGood
<1>5. Types'
  BY <1>1, <1>2, <1>4 DEF Types
<1>6. HeardInv' /\ SwitchInv'
  BY <1>1, <1>2 DEF HeardInv, SwitchInv, AloneInv, RootedInv
<1>7. Improves
  <2>1. ASSUME NEW t \in Switches
        PROVE  NoWorse(designated_root[t], root_path_cost[t], designated_root[t], root_path_cost[t])
    BY <1>1, StpConstants, NoWorseFacts DEF Types
  <2>2. QED
    BY <1>2, <2>1 DEF Improves
<1>8. QED
  BY <1>4, <1>5, <1>6, <1>7 DEF StpInv

LEMMA HelloKeeps ==
  ASSUME StpInv, NEW s \in Switches, Hello(s)
  PROVE  StpInv' /\ Improves
<1>1. /\ link \in [PortSet -> Seq(Config)] /\ hellos \in [Switches -> 0..MaxHellos]
      /\ \A q \in PortSet : \A k \in 1..Len(link[q]) :
           Good(q, link[q][k], designated_root, root_path_cost)
  BY DEF StpInv, Types, LinkInv
<1>2. DesignatedPorts(s) \in SUBSET PortSet /\ \A p \in DesignatedPorts(s) : p[1] = s
  BY Ports DEF DesignatedPorts
<1>3. /\ UNCHANGED <<swVars, hello_timer>> /\ hellos' = [hellos EXCEPT ![s] = @ + 1]
      /\ hellos[s] < MaxHellos /\ link' = Sending(link, s, DesignatedPorts(s))
  BY DEF Hello
<1>4. hellos' \in [Switches -> 0..MaxHellos]
  BY <1>1, <1>3, StpConstants
<1>5. QED
  BY <1>1, <1>2, <1>3, <1>4, SpeechKeeps

LEMMA ReplyKeeps ==
  ASSUME StpInv, NEW p \in PortSet, ReplyConfig(p)
  PROVE  StpInv' /\ Improves
<1>1. Types /\ LinkInv /\ link[p] # <<>>
  BY DEF StpInv, ReplyConfig
<1>2. /\ Taken(p) \in [PortSet -> Seq(Config)]
      /\ \A q \in PortSet : \A k \in 1..Len(Taken(p)[q]) :
           Good(q, Taken(p)[q][k], designated_root, root_path_cost)
  BY <1>1, AtHand
<1>3. p[1] \in Switches /\ {p} \in SUBSET PortSet /\ \A q \in {p} : q[1] = p[1]
  BY Ports
<1>4. /\ UNCHANGED <<swVars, hello_timer>> /\ hellos' \in [Switches -> 0..MaxHellos]
      /\ link' = Sending(Taken(p), p[1], {p})
  BY <1>1 DEF ReplyConfig, Types
<1>5. QED
  BY <1>2, <1>3, <1>4, SpeechKeeps

LEMMA StpKeeps == StpInv /\ StpNext => StpInv' /\ Improves
BY HelloKeeps, AcceptKeeps, ReplyKeeps DEF StpNext

LEMMA StpStutters == StpInv /\ UNCHANGED stpVars => StpInv' /\ Improves
<1> SUFFICES ASSUME StpInv, UNCHANGED stpVars PROVE StpInv' /\ Improves
  OBVIOUS
<1>1. UNCHANGED <<config, designated_root, root_path_cost, root_port, hello_timer, hellos, link>>
  BY DEF stpVars, swVars
<1>2. StpInv'
  BY <1>1 DEF StpInv, Types, LinkInv, HeardInv, SwitchInv, AloneInv, RootedInv, Good, FromPeer, Believed,
              Designated
<1>3. ASSUME NEW t \in Switches
      PROVE  NoWorse(designated_root[t], root_path_cost[t], designated_root[t], root_path_cost[t])
  BY StpConstants, NoWorseFacts DEF StpInv, Types
<1>4. QED
  BY <1>1, <1>2, <1>3 DEF Improves

\* The hosts start to send: no config is under way any more.
LEMMA SendKeeps ==
  ASSUME StpInv, NEW h \in Hosts, NEW d \in Hosts, HostSends(h, d)
  PROVE  StpInv' /\ Improves
<1>1. /\ UNCHANGED <<config, designated_root, root_path_cost, root_port, hello_timer>>
      /\ link' = [p \in PortSet |-> <<>>] /\ hellos' = [s \in Switches |-> MaxHellos]
  BY DEF HostSends, swVars
<1>2. link' \in [PortSet -> Seq(Config)] /\ hellos' \in [Switches -> 0..MaxHellos]
  BY <1>1, StpConstants
<1>3. LinkInv'
  BY <1>1 DEF LinkInv
<1>4. HeardInv' /\ SwitchInv' /\ Types'
  BY <1>1, <1>2 DEF StpInv, Types, HeardInv, SwitchInv, AloneInv, RootedInv, Good, FromPeer, Believed
<1>5. ASSUME NEW t \in Switches
      PROVE  NoWorse(designated_root[t], root_path_cost[t], designated_root[t], root_path_cost[t])
  BY StpConstants, NoWorseFacts DEF StpInv, Types
<1>6. Improves
  BY <1>1, <1>5 DEF Improves
<1>7. QED
  BY <1>3, <1>4, <1>6 DEF StpInv

-----------------------------------------------------------------------------
\* The tables and the frames.
LEMMA FrameKeeps ==
  ASSUME FwdTypes, NEW f \in frames, HandleFrame(f)
  PROVE  FwdTypes'
<1> DEFINE p == f.to
<1>1. f \in Frame /\ p \in PortSet /\ f.src \in Hosts
  BY DEF FwdTypes, Frame
<1>2. p[1] \in Switches /\ p[2] \in 1..nports[p[1]] /\ nports[p[1]] \in Nat
  BY <1>1, Ports, StpConstants
<1>3. CASE frames' = frames \ {f} /\ UNCHANGED <<mac_port_map, sent>>
  BY <1>3 DEF FwdTypes
<1>4. ASSUME NEW out, frames' = (frames \ {f}) \cup Copies(f, out), InsertMacPort(p[1], f.src, p[2]),
             sent' = sent
      PROVE  FwdTypes'
  <2>1. Copies(f, out) \subseteq Frame
    <3>1. \A q \in PortSet : [f EXCEPT !.to = q] \in Frame
      BY <1>1 DEF Frame
    <3>2. QED
      BY <3>1 DEF Copies
  <2>2. mac_port_map' = [mac_port_map EXCEPT ![p[1]][f.src] = p[2]]
    BY <1>4 DEF InsertMacPort
  <2>3. p[2] \in Nat /\ p[2] \in 0..nports[p[1]]
    BY <1>2
  <2> HIDE DEF p
  <2>4. mac_port_map' \in [Switches -> [Hosts -> Nat]]
    BY <1>1, <1>2, <2>2, <2>3 DEF FwdTypes
  <2>5. \A s \in Switches : \A h \in Hosts : mac_port_map'[s][h] \in 0..nports[s]
    BY <1>1, <1>2, <2>2, <2>3 DEF FwdTypes
  <2>6. QED
    BY <1>4, <2>1, <2>4, <2>5 DEF FwdTypes
<1>5. QED
  BY <1>3, <1>4 DEF HandleFrame

LEMMA SendTypes ==
  ASSUME FwdTypes, NEW h \in Hosts, NEW d \in Hosts, HostSends(h, d)
  PROVE  FwdTypes'
<1>1. PortOf(h) \in PortSet
  BY ForwardConstants DEF PortOf
<1>2. sent + 1 \in 1..MaxFrames /\ sent' = sent + 1 /\ mac_port_map' = mac_port_map
      /\ frames' = frames \cup {[src |-> h, dst |-> d, no |-> sent + 1, to |-> PortOf(h)]}
  BY ForwardConstants DEF HostSends, FwdTypes
<1>3. [src |-> h, dst |-> d, no |-> sent + 1, to |-> PortOf(h)] \in Frame
  BY <1>1, <1>2 DEF Frame
<1>4. sent' \in 0..MaxFrames
  BY <1>2, ForwardConstants
<1>5. QED
  BY <1>2, <1>3, <1>4 DEF FwdTypes

LEMMA SweepTypes ==
  ASSUME FwdTypes, NEW h \in Hosts, SweepAged(h)
  PROVE  FwdTypes'
<1>1. PICK S \in SUBSET Switches :
        mac_port_map' = [s \in Switches |-> IF s \in S THEN [mac_port_map[s] EXCEPT ![h] = 0]
                                            ELSE mac_port_map[s]]
  BY DEF SweepAged
<1>2. ASSUME NEW s \in Switches
      PROVE  mac_port_map'[s] \in [Hosts -> Nat] /\ \A g \in Hosts : mac_port_map'[s][g] \in 0..nports[s]
  <2>1. mac_port_map[s] \in [Hosts -> Nat] /\ nports[s] \in Nat
    BY StpConstants DEF FwdTypes
  <2>2. mac_port_map'[s] = [mac_port_map[s] EXCEPT ![h] = 0] \/ mac_port_map'[s] = mac_port_map[s]
    BY <1>1
  <2>3. mac_port_map'[s] \in [Hosts -> Nat]
    BY <2>1, <2>2
  <2>4. ASSUME NEW g \in Hosts
        PROVE  mac_port_map'[s][g] \in 0..nports[s]
    <3>1. mac_port_map'[s][g] = 0 \/ mac_port_map'[s][g] = mac_port_map[s][g]
      BY <2>1, <2>2
    <3>2. mac_port_map[s][g] \in 0..nports[s]
      BY DEF FwdTypes
    <3>3. QED
      BY <2>1, <3>1, <3>2
  <2>5. QED
    BY <2>3, <2>4
<1>3. mac_port_map' \in [Switches -> [Hosts -> Nat]]
  <2>1. mac_port_map' = [s \in Switches |-> mac_port_map'[s]]
    BY <1>1
  <2>2. QED
    BY <1>2, <2>1
<1>4. UNCHANGED <<frames, sent>>
  BY DEF SweepAged
<1>5. QED
  BY <1>2, <1>3, <1>4 DEF FwdTypes

-----------------------------------------------------------------------------
LEMMA InitInv == Init => IInv
<1> SUFFICES ASSUME Init PROVE IInv
  OBVIOUS
<1>1. \A p \in PortSet : config[p] = OwnConfig(p[1], p[2])
  BY DEF Init, StpInit, OwnConfig
<1>2. \A p \in PortSet : OwnConfig(p[1], p[2]) \in Config
  <2>1. ASSUME NEW p \in PortSet PROVE p[1] \in Switches /\ p[2] \in Nat
    BY Ports, StpConstants
  <2>2. QED
    BY <2>1 DEF OwnConfig, Config
<1>3. Types
  <2>1. config \in [PortSet -> Config]
    BY <1>1, <1>2 DEF Init, StpInit
  <2>2. \A s \in Switches : nports[s] \in Nat
    BY StpConstants
  <2>3. QED
    BY <2>1, <2>2, StpConstants DEF Init, StpInit, Types
<1>4. LinkInv
  BY DEF LinkInv, Init, StpInit
<1>5. HeardInv
  <2>1. ASSUME NEW q \in PortSet PROVE Designated(config, q)
    <3>1. config[q].switch = q[1] /\ config[q].port = q[2]
      <4>1. OwnConfig(q[1], q[2]).switch = q[1] /\ OwnConfig(q[1], q[2]).port = q[2]
        BY DEF OwnConfig
      <4>2. QED
        BY <1>1, <4>1
    <3>2. QED
      BY <3>1 DEF Designated
  <2>2. QED
    BY <2>1 DEF HeardInv
<1>6. SwitchInv
  <2>1. ASSUME NEW s \in Switches PROVE root_port[s] = 0 /\ AloneInv(s)
    <3>1. \A i \in 1..nports[s] : config[<<s, i>>] = OwnConfig(s, i)
      BY <1>1, Ports
    <3>2. QED
      BY <3>1 DEF AloneInv, Init, StpInit
  <2>2. QED
    BY <2>1 DEF SwitchInv
<1>7. FwdTypes
  <2>1. \A s \in Switches : nports[s] \in Nat
    BY StpConstants
  <2>2. mac_port_map \in [Switches -> [Hosts -> Nat]]
    BY DEF Init
  <2>3. \A s \in Switches : \A h \in Hosts : mac_port_map[s][h] \in 0..nports[s]
    BY <2>1 DEF Init
  <2>4. QED
    BY <2>2, <2>3, ForwardConstants DEF Init, FwdTypes
<1>8. QED
  BY <1>3, <1>4, <1>5, <1>6, <1>7 DEF IInv, StpInv

LEMMA Step == IInv /\ [Next]_vars => IInv' /\ Improves
<1> SUFFICES ASSUME IInv, [Next]_vars PROVE IInv' /\ Improves
  OBVIOUS
<1>1. StpInv /\ FwdTypes
  BY DEF IInv
<1>2. CASE StpNext /\ UNCHANGED fwdVars
  <2>1. FwdTypes'
    BY <1>1, <1>2 DEF fwdVars, FwdTypes
  <2>2. QED
    BY <1>1, <1>2, <2>1, StpKeeps DEF IInv
<1>3. CASE \E f \in frames : HandleFrame(f)
  <2>1. UNCHANGED stpVars
    BY <1>3 DEF HandleFrame
  <2>2. QED
    BY <1>1, <1>3, <2>1, StpStutters, FrameKeeps DEF IInv
<1>4. CASE \E h, d \in Hosts : HostSends(h, d)
  BY <1>1, <1>4, SendKeeps, SendTypes DEF IInv
<1>5. CASE \E h \in Hosts : SweepAged(h)
  <2>1. UNCHANGED stpVars
    BY <1>5 DEF SweepAged
  <2>2. QED
    BY <1>1, <1>5, <2>1, StpStutters, SweepTypes DEF IInv
<1>6. CASE UNCHANGED vars
  <2>1. UNCHANGED stpVars /\ FwdTypes'
    BY <1>1, <1>6 DEF vars, fwdVars, FwdTypes
  <2>2. QED
    BY <1>1, <2>1, StpStutters DEF IInv
<1>7. QED
  BY <1>2, <1>3, <1>4, <1>5, <1>6 DEF Next

\* IInv holds in every reachable state.
THEOREM Inductive == Spec => []IInv
<1>1. IInv /\ [Next]_vars => IInv'
  BY Step
<1>2. QED
  BY <1>1, InitInv, PTL DEF Spec

LEMMA Descends == IInv => RootPathsDescend
<1> SUFFICES ASSUME IInv PROVE RootPathsDescend
  OBVIOUS
<1>1. Types /\ HeardInv /\ SwitchInv /\ FwdTypes
  BY DEF IInv, StpInv
<1>2. TypeOK
  BY <1>1 DEF TypeOK, Types, FwdTypes
<1>3. ASSUME NEW s \in Switches, root_port[s] = 0
      PROVE  designated_root[s] = s /\ root_path_cost[s] = 0
  BY <1>1, <1>3 DEF SwitchInv, AloneInv
<1>4. ASSUME NEW s \in Switches, root_port[s] # 0
      PROVE  LET p == <<s, root_port[s]>>
                 t == config[p].switch
             IN  /\ Peer[p] = <<t, config[p].port>>
                 /\ config[p].root = designated_root[s] /\ config[p].cost + 1 = root_path_cost[s]
                 /\ \/ designated_root[t] < designated_root[s]
                    \/ designated_root[t] = designated_root[s] /\ root_path_cost[t] < root_path_cost[s]
  <2> DEFINE p == <<s, root_port[s]>>
             c == config[p]
  <2>1. p \in PortSet
    <3>1. root_port[s] \in 1..nports[s]
      BY <1>1, <1>4, StpConstants DEF Types
    <3>2. QED
      BY <3>1, Ports
  <2>2. RootedInv(s)
    BY <1>1, <1>4 DEF SwitchInv
  <2>3. Good(p, c, designated_root, root_path_cost) /\ c \in Config
    BY <1>1, <2>1, <2>2 DEF HeardInv, RootedInv, Types
  <2>4. /\ Peer[p] = <<c.switch, c.port>>
        /\ NoWorse(designated_root[c.switch], root_path_cost[c.switch], c.root, c.cost)
        /\ designated_root[s] = c.root /\ root_path_cost[s] = c.cost + 1
    BY <2>2, <2>3 DEF Good, FromPeer, Believed, RootedInv
  <2>5. /\ designated_root[c.switch] \in Nat /\ root_path_cost[c.switch] \in Nat
        /\ c.root \in Nat /\ c.cost \in Nat
    BY <1>1, <2>3, StpConstants DEF Types, Config
  <2> HIDE DEF c
  <2>6. \/ designated_root[c.switch] < designated_root[s]
        \/ /\ designated_root[c.switch] = designated_root[s]
           /\ root_path_cost[c.switch] < root_path_cost[s]
    BY <2>4, <2>5 DEF NoWorse
  <2>7. QED
    BY <2>4, <2>6 DEF c
<1>5. QED
  BY <1>2, <1>3, <1>4 DEF RootPathsDescend

\* On whatever network, with configs delayed at will, the way to the root leads from
\* switch to switch to ever better ones and never back.
THEOREM NoCircularRootPath == Spec => []RootPathsDescend
BY Inductive, Descends, PTL

\* On whatever network, a switch never falls back to a worse root or a longer way.
THEOREM NeverForgets == Spec => BeliefImproves
<1>1. Improves => [\A s \in Switches :
       \/ designated_root'[s] < designated_root[s]
       \/ designated_root'[s] = designated_root[s] /\ root_path_cost'[s] <= root_path_cost[s]]_stpVars
  BY DEF Improves, NoWorse
<1>2. IInv /\ [Next]_vars => Improves
  BY Step
<1>3. QED
  BY <1>1, <1>2, Inductive, PTL DEF Spec, BeliefImproves

-----------------------------------------------------------------------------
\* The first n values of a function that gives each value by the one before.
Iteration(f, base, step, n) == f = [k \in 0..n |-> IF k = 0 THEN base ELSE step[f[k - 1]]]

LEMMA UpTo ==
  ASSUME NEW n \in Nat, NEW S, 0 \in S, \A k \in 0..n : k \in S /\ k < n => k + 1 \in S
  PROVE  \A k \in 0..n : k \in S
<1> DEFINE fails == {k \in 0..n : k \notin S}
<1>1. SUFFICES ASSUME fails # {} PROVE FALSE
  OBVIOUS
<1>2. fails \in SUBSET Nat
  OBVIOUS
<1>3. PICK m \in fails : \A k \in fails : m <= k
  <2> HIDE DEF fails
  <2> QED
    BY <1>1, <1>2, LeastNumber
<1>4. m \in 0..n /\ m # 0 /\ m - 1 \in 0..n /\ m - 1 < n /\ (m - 1) + 1 = m /\ ~(m <= m - 1)
  BY <1>3
<1>5. m - 1 \in S
  BY <1>3, <1>4
<1>6. (m - 1) + 1 \in S
  BY <1>4, <1>5
<1> QED
  BY <1>3, <1>4, <1>6

LEMMA IterationIs ==
  ASSUME NEW f, NEW base, NEW step, NEW n \in Nat, Iteration(f, base, step, n)
  PROVE  f[0] = base /\ \A k \in 0..n : k < n => f[k + 1] = step[f[k]]
<1>1. \A k \in 0..n : f[k] = IF k = 0 THEN base ELSE step[f[k - 1]]
  BY DEF Iteration
<1>2. 0 \in 0..n /\ \A k \in 0..n : k < n => k + 1 \in 0..n /\ k + 1 # 0 /\ (k + 1) - 1 = k
  OBVIOUS
<1>3. ASSUME NEW k \in 0..n, k < n PROVE f[k + 1] = step[f[k]]
  <2>1. f[k + 1] = IF k + 1 = 0 THEN base ELSE step[f[(k + 1) - 1]]
    BY <1>1, <1>2, <1>3
  <2> QED
    BY <1>2, <1>3, <2>1
<1> QED
  BY <1>1, <1>2, <1>3

LEMMA IterationExists ==
  ASSUME NEW base, NEW step, NEW n \in Nat
  PROVE  \E f : Iteration(f, base, step, n)
<1> DEFINE S == {m \in Nat : \E f : Iteration(f, base, step, m)}
<1>1. 0 \in S
  <2> DEFINE f == [k \in 0..0 |-> base]
  <2>1. f = [k \in 0..0 |-> IF k = 0 THEN base ELSE step[f[k - 1]]]
    OBVIOUS
  <2> HIDE DEF f
  <2>2. Iteration(f, base, step, 0)
    BY <2>1 DEF Iteration
  <2> QED
    BY <2>2
<1>2. ASSUME NEW m \in Nat, m \in S PROVE m + 1 \in S
  <2>1. PICK f : Iteration(f, base, step, m)
    BY <1>2
  <2>2. f[0] = base /\ \A k \in 0..m : k < m => f[k + 1] = step[f[k]]
    BY <2>1, IterationIs
  <2> DEFINE g == [k \in 0..(m + 1) |-> IF k = m + 1 THEN step[f[m]] ELSE f[k]]
  <2>3. ASSUME NEW k \in 0..(m + 1) PROVE g[k] = IF k = 0 THEN base ELSE step[g[k - 1]]
    <3>1. CASE k = 0
      BY <2>2, <3>1
    <3>2. CASE k = m + 1
      <4>1. g[k] = step[f[m]] /\ g[k - 1] = f[m]
        BY <3>2
      <4> QED
        BY <3>2, <4>1
    <3>3. CASE k # 0 /\ k # m + 1
      <4>1. k - 1 \in 0..m /\ k - 1 < m /\ (k - 1) + 1 = k /\ k - 1 # m + 1 /\ k - 1 \in 0..(m + 1)
        BY <3>3
      <4>2. f[(k - 1) + 1] = step[f[k - 1]]
        BY <2>2, <4>1
      <4>3. g[k] = f[k] /\ g[k - 1] = f[k - 1]
        BY <3>3, <4>1
      <4> HIDE DEF g
      <4> QED
        BY <3>3, <4>1, <4>2, <4>3
    <3> QED
      BY <3>1, <3>2, <3>3
  <2>4. g = [k \in 0..(m + 1) |-> g[k]]
    OBVIOUS
  <2> HIDE DEF g
  <2>5. g = [k \in 0..(m + 1) |-> IF k = 0 THEN base ELSE step[g[k - 1]]]
    BY <2>3, <2>4
  <2>6. Iteration(g, base, step, m + 1)
    BY <2>5 DEF Iteration
  <2> QED
    BY <2>6
<1> HIDE DEF S
<1>3. \A k \in 0..n : k \in S
  BY <1>1, <1>2, UpTo
<1> QED
  BY <1>3 DEF S

\* A set that grows inside a finite one is closed after as many steps as that has members.
LEMMA ClosesIn ==
  ASSUME NEW X, IsFiniteSet(X), NEW base \in SUBSET X, NEW step \in [SUBSET X -> SUBSET X],
         \A B \in SUBSET X : B \subseteq step[B],
         NEW f, Iteration(f, base, step, Cardinality(X))
  PROVE  /\ \A k \in 0..Cardinality(X) : f[k] \in SUBSET X /\ base \subseteq f[k]
         /\ step[f[Cardinality(X)]] = f[Cardinality(X)]
<1> DEFINE N == Cardinality(X)
<1>1. N \in Nat
  BY FS_CardinalityType
<1> HIDE DEF N
<1>2. f[0] = base /\ \A k \in 0..N : k < N => f[k + 1] = step[f[k]]
  BY <1>1, IterationIs DEF N
\* After k steps it is closed or has k members.
<1> DEFINE Fits(k) == /\ f[k] \in SUBSET X /\ base \subseteq f[k]
                      /\ step[f[k]] = f[k] \/ Cardinality(f[k]) >= k
           S == {k \in 0..N : Fits(k)}
<1>3. 0 \in S
  <2>1. Cardinality(f[0]) \in Nat
    BY <1>2, FS_Subset, FS_CardinalityType
  <2> QED
    BY <1>1, <1>2, <2>1
<1>4. ASSUME NEW k \in 0..N, k \in S, k < N PROVE k + 1 \in S
  <2>1. PICK B : B = f[k]
    OBVIOUS
  <2>2. PICK C : C = f[k + 1]
    OBVIOUS
  <2>3. B \in SUBSET X /\ base \subseteq B /\ C = step[B] /\ B \subseteq C /\ C \in SUBSET X
    BY <1>2, <1>4, <2>1, <2>2
  <2>4. IsFiniteSet(B) /\ IsFiniteSet(C) /\ Cardinality(B) \in Nat /\ Cardinality(C) \in Nat
    BY <2>3, FS_Subset, FS_CardinalityType
  <2>5. step[C] = C \/ Cardinality(C) >= k + 1
    <3>1. CASE C = B
      BY <2>3, <3>1
    <3>2. CASE C # B
      <4>1. Cardinality(B) >= k
        BY <1>4, <2>1, <2>3, <3>2
      <4>2. Cardinality(B) <= Cardinality(C) /\ Cardinality(B) # Cardinality(C)
        BY <2>3, <2>4, <3>2, FS_Subset
      <4> QED
        BY <2>4, <4>1, <4>2
    <3> QED
      BY <3>1, <3>2
  <2>6. k + 1 \in 0..N
    BY <1>1, <1>4
  <2> QED
    BY <2>2, <2>3, <2>5, <2>6
<1>5. \A k \in 0..N : k \in S
  <2> HIDE DEF S
  <2> QED
    BY <1>1, <1>3, <1>4, UpTo
<1>6. \A k \in 0..N : f[k] \in SUBSET X /\ base \subseteq f[k]
  BY <1>5
<1>7. step[f[N]] = f[N]
  <2>1. PICK B : B = f[N]
    OBVIOUS
  <2>2. N \in 0..N
    BY <1>1
  <2>3. B \in SUBSET X /\ (step[B] = B \/ Cardinality(B) >= N)
    BY <1>5, <2>1, <2>2
  <2>4. CASE Cardinality(B) >= N
    <3>1. Cardinality(B) <= N /\ Cardinality(B) \in Nat
      BY <2>3, FS_Subset, FS_CardinalityType DEF N
    <3>2. Cardinality(B) = N
      BY <1>1, <2>4, <3>1
    <3>3. B = X
      BY <2>3, <3>2, FS_Subset DEF N
    <3> QED
      BY <2>1, <3>3
  <2> QED
    BY <2>1, <2>3, <2>4
<1> QED
  BY <1>6, <1>7 DEF N

\* And it has what every closed set around its base has.
LEMMA ClosedLeast ==
  ASSUME NEW X, NEW base, NEW step, NEW n \in Nat, NEW f, Iteration(f, base, step, n),
         NEW S, base \subseteq S, \A B \in SUBSET S : step[B] \in SUBSET S
  PROVE  f[n] \subseteq S
<1>1. f[0] = base /\ \A k \in 0..n : k < n => f[k + 1] = step[f[k]]
  BY IterationIs
<1> DEFINE T == {k \in 0..n : f[k] \in SUBSET S}
<1>2. 0 \in T
  BY <1>1
<1>3. \A k \in 0..n : k \in T /\ k < n => k + 1 \in T
  BY <1>1
<1>4. \A k \in 0..n : k \in T
  <2> HIDE DEF T
  <2> QED
    BY <1>2, <1>3, UpTo
<1> QED
  BY <1>4

-----------------------------------------------------------------------------
(***************************************************************************)
(* The switches at most n cables from the root, and those beyond a port.    *)
(***************************************************************************)
LEMMA Size == Cardinality(Switches) \in Nat /\ IsFiniteSet(Switches)
BY ForwardConstants, FS_CardinalityType

LEMMA RootIs == RootSwitch \in Switches /\ \A s \in Switches : RootSwitch <= s
<1>1. \E r \in Switches : \A s \in Switches : r <= s
  BY StpConstants, LeastNumber
<1> QED
  BY <1>1 DEF RootSwitch

LEMMA CableEnds ==
  ASSUME NEW p \in PortSet, Peer[p] \in PortSet
  PROVE  /\ Peer[Peer[p]] = p /\ Peer[p][1] # p[1] /\ Peer[p][1] \in Switches /\ p[1] \in Switches
         /\ p[1] \in Neighbours(Peer[p][1])
<1>1. Peer[Peer[p]] = p /\ Peer[p][1] # p[1]
  BY StpConstants
<1>2. /\ Peer[p][1] \in Switches /\ Peer[p][2] \in 1..nports[Peer[p][1]] /\ Peer[p] = <<Peer[p][1], Peer[p][2]>>
      /\ p[1] \in Switches
  BY Ports
<1>3. p[1] \in Neighbours(Peer[p][1])
  BY <1>1, <1>2 DEF Neighbours
<1> QED
  BY <1>1, <1>2, <1>3

LEMMA NeighboursType == \A s \in Switches : Neighbours(s) \subseteq Switches
BY Ports DEF Neighbours

Spread(S) == S \cup UNION {Neighbours(s) : s \in S}

LEMMA WithinIs ==
  LET N == Cardinality(Switches)
  IN  /\ DOMAIN Within = 0..N /\ Within[0] = {RootSwitch}
      /\ \A n \in 0..N : Within[n] \in SUBSET Switches
      /\ \A n \in 0..N : n < N => Within[n + 1] = Spread(Within[n])
      /\ Spread(Within[N]) = Within[N]
<1> DEFINE N == Cardinality(Switches)
           step == [S \in SUBSET Switches |-> Spread(S)]
<1>1. N \in Nat /\ IsFiniteSet(Switches) /\ {RootSwitch} \in SUBSET Switches
  BY Size, RootIs
<1>2. \A S \in SUBSET Switches : Spread(S) \in SUBSET Switches /\ S \subseteq Spread(S)
  BY NeighboursType DEF Spread
<1>3. \A S \in SUBSET Switches : step[S] = Spread(S)
  OBVIOUS
<1>4. step \in [SUBSET Switches -> SUBSET Switches] /\ \A S \in SUBSET Switches : S \subseteq step[S]
  BY <1>2
<1> HIDE DEF step
<1> DEFINE Chosen(g) == g = [n \in 0..N |-> IF n = 0 THEN {RootSwitch} ELSE Spread(g[n - 1])]
<1>5. \E g : Chosen(g)
  <2>1. PICK f : Iteration(f, {RootSwitch}, step, N)
    BY <1>1, IterationExists
  <2>2. \A n \in 0..N : f[n] \in SUBSET Switches
    BY <1>1, <1>4, <2>1, ClosesIn
  <2>3. ASSUME NEW n \in 0..N PROVE f[n] = IF n = 0 THEN {RootSwitch} ELSE Spread(f[n - 1])
    <3>1. f[n] = IF n = 0 THEN {RootSwitch} ELSE step[f[n - 1]]
      BY <2>1 DEF Iteration
    <3>2. n # 0 => n - 1 \in 0..N
      BY <1>1
    <3> QED
      BY <1>3, <2>2, <3>1, <3>2
  <2>4. f = [n \in 0..N |-> f[n]]
    BY <2>1 DEF Iteration
  <2>5. Chosen(f)
    BY <2>3, <2>4
  <2> QED
    BY <2>5
<1>6. Within = CHOOSE g : Chosen(g)
  BY DEF Within, Spread
<1>7. Chosen(Within)
  BY <1>5, <1>6
<1> HIDE DEF N
<1>8. \A n \in 0..N : Within[n] = IF n = 0 THEN {RootSwitch} ELSE Spread(Within[n - 1])
  BY <1>7
<1>16. Within = [n \in 0..N |-> Within[n]]
  BY <1>7
<1> DEFINE T == {n \in 0..N : Within[n] \in SUBSET Switches}
<1>9. ASSUME NEW n \in 0..N, n < N PROVE n + 1 \in 0..N /\ Within[n + 1] = Spread(Within[n])
  <2>1. n + 1 \in 0..N /\ n + 1 # 0 /\ (n + 1) - 1 = n
    BY <1>1, <1>9
  <2> QED
    BY <1>8, <2>1
<1>10. \A n \in 0..N : n \in T
  <2>1. 0 \in T
    BY <1>1, <1>8
  <2>2. \A n \in 0..N : n \in T /\ n < N => n + 1 \in T
    BY <1>2, <1>9
  <2> HIDE DEF T
  <2> QED
    BY <1>1, <2>1, <2>2, UpTo
<1>11. ASSUME NEW n \in 0..N PROVE Within[n] = IF n = 0 THEN {RootSwitch} ELSE step[Within[n - 1]]
  <2>1. n # 0 => n - 1 \in 0..N
    BY <1>1
  <2>2. n # 0 => step[Within[n - 1]] = Spread(Within[n - 1])
    BY <1>3, <1>10, <2>1
  <2> QED
    BY <1>8, <2>2
<1>12. Iteration(Within, {RootSwitch}, step, N)
  <2>1. Within = [n \in 0..N |-> IF n = 0 THEN {RootSwitch} ELSE step[Within[n - 1]]]
    BY <1>11, <1>16
  <2> QED
    BY <2>1 DEF Iteration
<1>13. step[Within[N]] = Within[N]
  <2>1. PICK base : base = {RootSwitch}
    OBVIOUS
  <2>2. base \in SUBSET Switches /\ Iteration(Within, base, step, Cardinality(Switches))
    BY <1>1, <1>12, <2>1 DEF N
  <2>3. step[Within[Cardinality(Switches)]] = Within[Cardinality(Switches)]
    BY <1>1, <1>4, <2>2, ClosesIn
  <2> QED
    BY <2>3 DEF N
<1>14. Spread(Within[N]) = Within[N]
  BY <1>1, <1>3, <1>10, <1>13
<1>15. DOMAIN Within = 0..N /\ Within[0] = {RootSwitch}
  <2>1. 0 \in 0..N
    BY <1>1
  <2>2. Within[0] = {RootSwitch}
    BY <1>8, <2>1
  <2> QED
    BY <1>16, <2>2
<1> QED
  BY <1>9, <1>10, <1>14, <1>15 DEF N

\* Of n cables as many as count.
Cap(n) == IF n < Cardinality(Switches) THEN n ELSE Cardinality(Switches)

LEMMA WithinGrows ==
  ASSUME NEW n \in Nat, NEW m \in Nat, m <= n
  PROVE  Cap(n) \in 0..Cardinality(Switches) /\ Within[Cap(m)] \subseteq Within[Cap(n)]
<1> DEFINE N == Cardinality(Switches)
           T == {k \in 0..N : \A j \in 0..k : Within[j] \subseteq Within[k]}
<1>1. N \in Nat
  BY Size
<1>2. \A k \in 0..N : k < N => Within[k] \subseteq Within[k + 1]
  BY WithinIs DEF Spread
<1> HIDE DEF N
<1>3. 0 \in T
  BY <1>1
<1>4. ASSUME NEW k \in 0..N, k \in T, k < N PROVE k + 1 \in T
  <2>1. ASSUME NEW j \in 0..(k + 1) PROVE Within[j] \subseteq Within[k + 1]
    <3>1. CASE j = k + 1
      BY <3>1
    <3>2. CASE j # k + 1
      <4>1. j \in 0..k
        BY <1>1, <3>2
      <4> QED
        BY <1>2, <1>4, <4>1
    <3> QED
      BY <3>1, <3>2
  <2>2. k + 1 \in 0..N
    BY <1>1, <1>4
  <2> QED
    BY <2>1, <2>2
<1> HIDE DEF T
<1>5. \A k \in 0..N : k \in T
  BY <1>1, <1>3, <1>4, UpTo
<1>6. Cap(n) \in 0..N /\ Cap(m) \in 0..Cap(n)
  BY <1>1 DEF Cap, N
<1> QED
  BY <1>5, <1>6 DEF T, N

\* One cable further.
LEMMA WithinStep ==
  ASSUME NEW s \in Switches, NEW t \in Neighbours(s), NEW n \in Nat, s \in Within[Cap(n)]
  PROVE  t \in Within[Cap(n + 1)]
<1> DEFINE N == Cardinality(Switches)
<1>1. N \in Nat
  BY Size
<1>2. \A S : s \in S => t \in Spread(S)
  BY DEF Spread
<1>3. CASE n < N
  <2>1. n \in 0..N /\ Cap(n) = n /\ Cap(n + 1) = n + 1
    BY <1>1, <1>3 DEF Cap
  <2> QED
    BY <1>2, <1>3, <2>1, WithinIs
<1>4. CASE ~(n < N)
  <2>1. Cap(n) = N /\ Cap(n + 1) = N
    BY <1>1, <1>4 DEF Cap
  <2> QED
    BY <1>2, <2>1, WithinIs
<1> QED
  BY <1>3, <1>4

LEMMA DistanceIs ==
  ASSUME NEW s \in Switches, NEW n \in Nat, s \in Within[Cap(n)]
  PROVE  /\ RootDistance[s] \in 0..Cardinality(Switches) /\ RootDistance[s] <= n
         /\ s \in Within[RootDistance[s]]
         /\ \A m \in Nat : m < RootDistance[s] => s \notin Within[Cap(m)]
<1> DEFINE N == Cardinality(Switches)
           hits == {k \in 0..N : s \in Within[k]}
           P(k) == s \in Within[k] /\ (k > 0 => s \notin Within[k - 1])
<1>1. N \in Nat /\ Cap(n) \in hits
  BY Size, WithinGrows
<1>2. PICK k \in hits : \A j \in hits : k <= j
  <2>1. hits \in SUBSET Nat /\ hits # {}
    BY <1>1
  <2> HIDE DEF hits
  <2> QED
    BY <2>1, LeastNumber
<1>3. k \in 0..N /\ P(k)
  <2>1. k > 0 => k - 1 \in 0..N /\ ~(k <= k - 1)
    BY <1>1, <1>2
  <2> QED
    BY <1>2, <2>1
<1>4. DOMAIN Within = 0..N
  BY WithinIs
<1>5. RootDistance[s] = CHOOSE j \in 0..N : P(j)
  BY <1>4 DEF RootDistance
<1>6. RootDistance[s] \in 0..N /\ P(RootDistance[s])
  BY <1>3, <1>5
<1> DEFINE d == RootDistance[s]
<1> HIDE DEF d, hits
<1>7. ASSUME NEW m \in Nat, m < d PROVE s \notin Within[Cap(m)]
  <2>1. d \in 0..N /\ d > 0 /\ d - 1 \in Nat /\ m <= d - 1 /\ Cap(d - 1) = d - 1
    BY <1>1, <1>6, <1>7 DEF d, Cap
  <2>2. s \notin Within[d - 1]
    BY <1>6, <2>1 DEF d
  <2> QED
    BY <2>1, <2>2, WithinGrows
<1>8. d <= n
  <2>1. d \in Nat
    BY <1>6 DEF d
  <2> QED
    BY <1>7, <2>1
<1> QED
  BY <1>6, <1>7, <1>8 DEF d

-----------------------------------------------------------------------------
\* One cable further from S, but not back through p.
Further(p, S) == S \cup {Peer[q][1] : q \in {q \in PortSet : q[1] \in S /\ Active(q) /\ Peer[q] # p}}

First(p) == IF Active(p) THEN {Peer[p][1]} ELSE {}

LEMMA BeyondIs ==
  ASSUME NEW p \in PortSet
  PROVE  /\ First(p) \subseteq Beyond(p) /\ Beyond(p) \in SUBSET Switches
         /\ Further(p, Beyond(p)) = Beyond(p)
         /\ \A S \in SUBSET Switches : First(p) \subseteq S /\ Further(p, S) = S => Beyond(p) \subseteq S
<1> DEFINE N == Cardinality(Switches)
           base == First(p)
           step == [S \in SUBSET Switches |-> Further(p, S)]
           Chosen(g) == g = [n \in 0..N |-> IF n = 0 THEN base ELSE Further(p, g[n - 1])]
<1>1. N \in Nat /\ IsFiniteSet(Switches) /\ base \in SUBSET Switches
  BY Size, CableEnds DEF First, Active
<1>2. \A S \in SUBSET Switches : Further(p, S) \in SUBSET Switches /\ S \subseteq Further(p, S)
  BY CableEnds DEF Further, Active
<1>3. \A S \in SUBSET Switches : step[S] = Further(p, S)
  OBVIOUS
<1>4. step \in [SUBSET Switches -> SUBSET Switches] /\ \A S \in SUBSET Switches : S \subseteq step[S]
  BY <1>2
<1>5. Beyond(p) = (CHOOSE g : Chosen(g))[N]
  BY DEF Beyond, Further, First
<1> HIDE DEF step, base
<1>6. \E g : Chosen(g)
  <2>1. PICK f : Iteration(f, base, step, N)
    BY <1>1, IterationExists
  <2>2. \A n \in 0..N : f[n] \in SUBSET Switches
    BY <1>1, <1>4, <2>1, ClosesIn
  <2>3. ASSUME NEW n \in 0..N PROVE f[n] = IF n = 0 THEN base ELSE Further(p, f[n - 1])
    <3>1. f[n] = IF n = 0 THEN base ELSE step[f[n - 1]]
      BY <2>1 DEF Iteration
    <3>2. n # 0 => n - 1 \in 0..N
      BY <1>1
    <3> QED
      BY <1>3, <2>2, <3>1, <3>2
  <2>4. f = [n \in 0..N |-> f[n]]
    BY <2>1 DEF Iteration
  <2>5. Chosen(f)
    BY <2>3, <2>4
  <2> QED
    BY <2>5
<1>7. PICK g : Chosen(g) /\ Beyond(p) = g[N]
  BY <1>5, <1>6
<1> HIDE DEF N
<1>8. /\ \A n \in 0..N : g[n] = IF n = 0 THEN base ELSE Further(p, g[n - 1])
      /\ g = [n \in 0..N |-> g[n]]
  BY <1>7
<1> DEFINE T == {n \in 0..N : g[n] \in SUBSET Switches}
<1>9. ASSUME NEW n \in 0..N, n < N PROVE n + 1 \in 0..N /\ g[n + 1] = Further(p, g[n])
  <2>1. n + 1 \in 0..N /\ n + 1 # 0 /\ (n + 1) - 1 = n
    BY <1>1, <1>9
  <2> QED
    BY <1>8, <2>1
<1>10. \A n \in 0..N : n \in T
  <2>1. 0 \in T
    BY <1>1, <1>8
  <2>2. \A n \in 0..N : n \in T /\ n < N => n + 1 \in T
    BY <1>2, <1>9
  <2> HIDE DEF T
  <2> QED
    BY <1>1, <2>1, <2>2, UpTo
<1>11. ASSUME NEW n \in 0..N PROVE g[n] = IF n = 0 THEN base ELSE step[g[n - 1]]
  <2>1. n # 0 => n - 1 \in 0..N
    BY <1>1
  <2>2. n # 0 => step[g[n - 1]] = Further(p, g[n - 1])
    BY <1>3, <1>10, <2>1
  <2> QED
    BY <1>8, <2>2
<1>12. Iteration(g, base, step, N)
  <2>1. g = [n \in 0..N |-> IF n = 0 THEN base ELSE step[g[n - 1]]]
    BY <1>8, <1>11
  <2> QED
    BY <2>1 DEF Iteration
<1>13. g[N] \in SUBSET Switches /\ base \subseteq g[N] /\ step[g[N]] = g[N]
  <2>1. N \in 0..N
    BY <1>1
  <2> QED
    BY <1>1, <1>4, <1>12, <2>1, ClosesIn DEF N
<1>14. ASSUME NEW S \in SUBSET Switches, base \subseteq S, Further(p, S) = S PROVE g[N] \subseteq S
  <2>1. ASSUME NEW B \in SUBSET S PROVE step[B] \in SUBSET S
    <3>1. Further(p, B) \subseteq Further(p, S) /\ B \in SUBSET Switches
      BY DEF Further
    <3> QED
      BY <1>3, <1>14, <3>1
  <2> QED
    BY <1>1, <1>12, <1>14, <2>1, ClosedLeast
<1> QED
  BY <1>3, <1>7, <1>13, <1>14 DEF base

-----------------------------------------------------------------------------
(***************************************************************************)
(* What is said of the root is true, and who has told a switch that is      *)
(* farther from the root keeps its port open.                               *)
(***************************************************************************)
Truthful(m) == m.root = RootSwitch => m.switch \in Within[Cap(m.cost)]

Told(q, m)     == \E k \in 1..Len(link[q]) : m = link[q][k]
Kept(q, m)     == ~Designated(config, q) /\ m = config[q]
Reaching(q, m) == Told(q, m) \/ Kept(q, m)

TruthInv == \A q \in PortSet : \A m \in Config : Reaching(q, m) => Truthful(m)

\* A designated port says what its switch believes.
SpokenInv ==
  \A p \in PortSet : Designated(config, p) =>
    config[p].root = designated_root[p[1]] /\ config[p].cost = root_path_cost[p[1]]

\* No port that is not designated has heard better than the root port.
BestInv ==
  \A p \in PortSet : ~Designated(config, p) => ~Better(config[p], config[<<p[1], root_port[p[1]]>>])

OpenInv ==
  \A q \in PortSet : \A m \in Config :
    Reaching(q, m) /\ m.root = RootSwitch /\ q[1] \notin Within[Cap(m.cost)] => Designated(config, Peer[q])

\* What one step may do to what is said and heard.
NewSaid(q, m) ==
  /\ Peer[q] \in PortSet /\ ~Alternate(config', root_port', Peer[q])
  /\ m = [root |-> designated_root'[Peer[q][1]], cost |-> root_path_cost'[Peer[q][1]],
          switch |-> Peer[q][1], port |-> Peer[q][2]]

StepFacts ==
  /\ \A q \in PortSet : \A m \in Config : Told(q, m)' => Told(q, m) \/ NewSaid(q, m)
  /\ \A q \in PortSet : \A m \in Config : Kept(q, m)' => Reaching(q, m)
  /\ \A q \in PortSet : Designated(config, q) /\ ~Designated(config', q) =>
       link[q] # <<>> /\ Better(Head(link[q]), config[q])
  /\ SpokenInv' /\ BestInv'

LEMMA SendingSaid ==
  ASSUME NEW taken \in [PortSet -> Seq(Config)], NEW s \in Switches,
         NEW from \in SUBSET PortSet, \A p \in from : p[1] = s,
         \A q \in PortSet : \A k \in 1..Len(taken[q]) : Told(q, taken[q][k]),
         link' = Sending(taken, s, from)
  PROVE  \A q \in PortSet : \A m : Told(q, m)' => Told(q, m) \/ NewSaid(q, m)
<1> DEFINE n(q) == [root |-> designated_root'[s], cost |-> root_path_cost'[s],
                    switch |-> s, port |-> Peer[q][2]]
<1>1. ASSUME NEW q \in PortSet
      PROVE  \/ link'[q] = taken[q]
             \/ Peer[q] \in from /\ ~Alternate(config', root_port', Peer[q]) /\ link'[q] = Append(taken[q], n(q))
  BY DEF Sending, Enqueue
<1>2. ASSUME NEW q \in PortSet, Peer[q] \in from, ~Alternate(config', root_port', Peer[q])
      PROVE  NewSaid(q, n(q))
  <2>1. Peer[q] \in PortSet /\ Peer[q][1] = s
    BY <1>2
  <2> QED
    BY <1>2, <2>1 DEF NewSaid
<1> HIDE DEF n
<1>3. ASSUME NEW q \in PortSet, NEW k \in 1..Len(link'[q])
      PROVE  Told(q, link'[q][k]) \/ NewSaid(q, link'[q][k])
  <2>1. taken[q] \in Seq(Config)
    OBVIOUS
  <2>2. CASE link'[q] = taken[q]
    BY <1>3, <2>2
  <2>3. CASE Peer[q] \in from /\ ~Alternate(config', root_port', Peer[q]) /\ link'[q] = Append(taken[q], n(q))
    <3>1. (k \in 1..Len(taken[q]) /\ link'[q][k] = taken[q][k]) \/ link'[q][k] = n(q)
      BY <1>3, <2>1, <2>3
    <3> QED
      BY <1>2, <2>3, <3>1
  <2> QED
    BY <1>1, <2>2, <2>3
<1>4. ASSUME NEW q \in PortSet, NEW m, Told(q, m)' PROVE Told(q, m) \/ NewSaid(q, m)
  <2>1. PICK k \in 1..Len(link'[q]) : m = link'[q][k]
    BY <1>4 DEF Told
  <2> QED
    BY <1>3, <2>1
<1> QED
  BY <1>4

LEMMA TakenTold ==
  ASSUME Types, NEW p \in PortSet, link[p] # <<>>
  PROVE  /\ Told(p, Head(link[p])) /\ Head(link[p]) \in Config
         /\ Taken(p) \in [PortSet -> Seq(Config)]
         /\ \A q \in PortSet : \A k \in 1..Len(Taken(p)[q]) : Told(q, Taken(p)[q][k])
<1>1. link \in [PortSet -> Seq(Config)] /\ link[p] \in Seq(Config)
  BY DEF Types
<1>2. Len(link[p]) \in Nat \ {0} /\ Head(link[p]) = link[p][1] /\ link[p][1] \in Config
  BY <1>1
<1>3. /\ Tail(link[p]) \in Seq(Config) /\ Len(Tail(link[p])) = Len(link[p]) - 1
      /\ \A k \in 1..(Len(link[p]) - 1) : Tail(link[p])[k] = link[p][k + 1] /\ k + 1 \in 1..Len(link[p])
  BY <1>1, <1>2
<1>4. /\ Taken(p)[p] = Tail(link[p])
      /\ \A q \in PortSet \ {p} : Taken(p)[q] = link[q]
      /\ Taken(p) \in [PortSet -> Seq(Config)]
  BY <1>1, <1>3 DEF Taken
<1>5. ASSUME NEW q \in PortSet, NEW k \in 1..Len(Taken(p)[q]) PROVE Told(q, Taken(p)[q][k])
  <2>1. CASE q = p
    <3>1. k \in 1..(Len(link[p]) - 1) /\ Taken(p)[q] = Tail(link[p])
      BY <1>3, <1>4, <2>1
    <3> QED
      BY <1>3, <2>1, <3>1 DEF Told
  <2>2. CASE q # p
    BY <1>4, <2>2 DEF Told
  <2> QED
    BY <2>1, <2>2
<1>6. Told(p, Head(link[p]))
  <2>1. 1 \in 1..Len(link[p])
    BY <1>2
  <2> QED
    BY <1>2, <2>1 DEF Told
<1> QED
  BY <1>2, <1>4, <1>5, <1>6

\* Two configs neither of which is better than the other come from one port.
LEMMA NoTie ==
  ASSUME NEW c \in Config, NEW d \in Config, ~Better(c, d), ~Better(d, c)
  PROVE  c.root = d.root /\ c.cost = d.cost /\ c.switch = d.switch /\ c.port = d.port
<1>1. /\ c.root \in Nat /\ c.cost \in Nat /\ c.switch \in Nat /\ c.port \in Nat
      /\ d.root \in Nat /\ d.cost \in Nat /\ d.switch \in Nat /\ d.port \in Nat
  BY StpConstants DEF Config
<1> QED
  BY <1>1 DEF Better

\* update_port_config makes no port designated that was not: its last case would take two
\* ports that hear the same port.
LEMMA AcceptFacts ==
  ASSUME StpInv, SpokenInv, BestInv, NEW p \in PortSet, AcceptConfig(p)
  PROVE  StepFacts
<1> DEFINE s == p[1]
           m == Head(link[p])
           heard == [config EXCEPT ![p] = m]
           rp == BestPort(heard, s)
           b == <<s, rp>>
<1>1. Types /\ LinkInv /\ HeardInv /\ link[p] # <<>> /\ Better(m, config[p])
  BY DEF StpInv, AcceptConfig, Superior
<1>2. /\ m \in Config /\ Good(p, m, designated_root, root_path_cost) /\ Told(p, m)
      /\ Taken(p) \in [PortSet -> Seq(Config)]
      /\ \A q \in PortSet : \A k \in 1..Len(Taken(p)[q]) : Told(q, Taken(p)[q][k])
  BY <1>1, AtHand, TakenTold
<1>3. /\ s \in Switches /\ heard \in [PortSet -> Config]
      /\ rp \in 1..nports[s] /\ rp # 0 /\ ~Designated(heard, b)
      /\ root_port' = [root_port EXCEPT ![s] = rp]
      /\ designated_root' = [designated_root EXCEPT ![s] = heard[b].root]
      /\ root_path_cost' = [root_path_cost EXCEPT ![s] = heard[b].cost + 1]
      /\ config' = UpdatePorts(heard, s, rp, designated_root'[s], root_path_cost'[s])
      /\ NoWorse(heard[b].root, heard[b].cost + 1, designated_root[s], root_path_cost[s])
  BY NewBelief
<1>4. link' = Sending(Taken(p), s, DesignatedPorts(s))
  BY DEF AcceptConfig
<1>5. heard[p] = m /\ \A q \in PortSet \ {p} : heard[q] = config[q]
  BY <1>1 DEF Types
<1>6. p = <<s, p[2]>> /\ p[2] \in 1..nports[s] /\ b \in PortSet
  BY <1>3, Ports
<1>7. ~Designated(heard, p)
  <2>1. m.switch = Peer[p][1] /\ Peer[p] \in PortSet
    BY <1>2 DEF Good, FromPeer
  <2> HIDE DEF m, heard
  <2>2. heard[p].switch # p[1]
    BY <1>5, <2>1, StpConstants
  <2> QED
    BY <2>2 DEF Designated
<1>8. \A j \in 1..nports[s] : ~Designated(heard, <<s, j>>) => ~Better(heard[<<s, j>>], heard[b])
  BY <1>3, <1>6, <1>7, BestIs
<1> HIDE DEF s, m, heard, rp
<1>9. ASSUME NEW q \in PortSet, ~Designated(heard, q) PROVE FromPeer(q, heard[q])
  <2>1. CASE q = p
    BY <1>2, <1>5, <2>1 DEF Good
  <2>2. CASE q # p
    BY <1>1, <1>5, <1>9, <2>2 DEF HeardInv, Good, Designated
  <2> QED
    BY <2>1, <2>2
<1>10. ASSUME NEW q \in PortSet, q[1] = s, ~Designated(heard, q), ~Better(heard[b], heard[q])
       PROVE  q[2] = rp
  <2>1. q = <<s, q[2]>> /\ q[2] \in 1..nports[s] /\ heard[q] \in Config /\ heard[b] \in Config
    BY <1>3, <1>6, <1>10, Ports
  <2>2. ~Better(heard[q], heard[b])
    BY <1>8, <1>10, <2>1
  <2>3. heard[q].switch = heard[b].switch /\ heard[q].port = heard[b].port
    BY <1>10, <2>1, <2>2, NoTie
  <2>4. Peer[q] = Peer[b] /\ Peer[q] \in PortSet
    BY <1>3, <1>6, <1>9, <1>10, <2>3 DEF FromPeer
  <2>5. q = b
    BY <1>6, <2>4, StpConstants
  <2> QED
    BY <2>5
<1>11. ASSUME NEW q \in PortSet, q[1] = s, Designated(heard, q)
       PROVE  config'[q] = [heard[q] EXCEPT !.root = designated_root'[s], !.cost = root_path_cost'[s]]
  BY <1>3, <1>11 DEF UpdatePorts
<1>12. ASSUME NEW q \in PortSet, q[1] # s \/ ~Designated(heard, q)
       PROVE  config'[q] = heard[q]
  BY <1>3, <1>10, <1>12 DEF UpdatePorts
<1>13. designated_root'[s] = heard[b].root /\ root_path_cost'[s] = heard[b].cost + 1
       /\ \A t \in Switches \ {s} : designated_root'[t] = designated_root[t] /\ root_path_cost'[t] = root_path_cost[t]
  BY <1>1, <1>3 DEF Types
<1>14. ASSUME NEW q \in PortSet, q[1] = s, Designated(heard, q)
       PROVE  Designated(config', q) /\ config'[q].root = designated_root'[s] /\ config'[q].cost = root_path_cost'[s]
  <2>1. heard[q] \in Config
    BY <1>3
  <2>2. /\ config'[q].switch = heard[q].switch /\ config'[q].port = heard[q].port
        /\ config'[q].root = designated_root'[s] /\ config'[q].cost = root_path_cost'[s]
    BY <1>11, <1>14, <2>1 DEF Config
  <2> QED
    BY <1>14, <2>2 DEF Designated
<1>15. \A q \in PortSet : Designated(config', q) <=> Designated(heard, q)
  <2>1. ASSUME NEW q \in PortSet PROVE Designated(config', q) <=> Designated(heard, q)
    <3>1. CASE q[1] = s /\ Designated(heard, q)
      BY <1>14, <3>1
    <3>2. CASE q[1] # s \/ ~Designated(heard, q)
      BY <1>12, <3>2 DEF Designated
    <3> QED
      BY <3>1, <3>2
  <2> QED
    BY <2>1
<1>16. \A q \in PortSet : \A c \in Config : Told(q, c)' => Told(q, c) \/ NewSaid(q, c)
  <2>1. DesignatedPorts(s) \in SUBSET PortSet /\ \A q \in DesignatedPorts(s) : q[1] = s
    BY <1>3, Ports DEF DesignatedPorts
  <2> QED
    BY <1>2, <1>3, <1>4, <2>1, SendingSaid
<1>17. ASSUME NEW q \in PortSet, NEW c \in Config, Kept(q, c)' PROVE Reaching(q, c)
  <2>1. ~Designated(config', q) /\ c = config'[q]
    BY <1>17 DEF Kept
  <2>2. ~Designated(heard, q) /\ c = heard[q]
    BY <1>12, <1>15, <2>1
  <2>3. CASE q = p
    BY <1>2, <1>5, <2>2, <2>3 DEF Reaching
  <2>4. CASE q # p
    BY <1>5, <2>2, <2>4 DEF Reaching, Kept, Designated
  <2> QED
    BY <2>3, <2>4
<1>18. ASSUME NEW q \in PortSet, Designated(config, q), ~Designated(config', q)
       PROVE  link[q] # <<>> /\ Better(Head(link[q]), config[q])
  <2>1. q = p
    BY <1>5, <1>15, <1>18 DEF Designated
  <2> QED
    BY <1>1, <2>1 DEF m
<1>19. ASSUME NEW q \in PortSet, Designated(config', q)
       PROVE  config'[q].root = designated_root'[q[1]] /\ config'[q].cost = root_path_cost'[q[1]]
  <2>1. Designated(heard, q)
    BY <1>15, <1>19
  <2>2. CASE q[1] = s
    BY <1>14, <2>1, <2>2
  <2>3. CASE q[1] # s
    <3>1. q # p /\ q[1] \in Switches \ {s}
      BY <2>3, Ports DEF s
    <3>2. heard[q] = config[q] /\ config'[q] = config[q] /\ Designated(config, q)
      BY <1>5, <1>12, <2>1, <2>3, <3>1 DEF Designated
    <3> QED
      BY <1>13, <3>1, <3>2 DEF SpokenInv
  <2> QED
    BY <2>2, <2>3
<1>20. ASSUME NEW q \in PortSet, ~Designated(config', q)
       PROVE  ~Better(config'[q], config'[<<q[1], root_port'[q[1]]>>])
  <2>1. ~Designated(heard, q) /\ config'[q] = heard[q] /\ q[1] \in Switches /\ q = <<q[1], q[2]>>
        /\ q[2] \in 1..nports[q[1]]
    BY <1>12, <1>15, <1>20, Ports
  <2>2. CASE q[1] = s
    <3>1. root_port'[s] = rp /\ config'[b] = heard[b]
      BY <1>1, <1>3, <1>6, <1>12 DEF Types
    <3> QED
      BY <1>8, <2>1, <2>2, <3>1
  <2>3. CASE q[1] # s
    <3> DEFINE r == <<q[1], root_port[q[1]]>>
    <3>1. q # p /\ root_port'[q[1]] = root_port[q[1]]
      BY <1>1, <1>3, <2>1, <2>3 DEF Types, s
    <3>2. ~Designated(config, q) /\ config'[q] = config[q]
      BY <1>5, <2>1, <3>1 DEF Designated
    <3>3. ASSUME root_port[q[1]] = 0 PROVE FALSE
      <4>1. AloneInv(q[1])
        BY <2>1, <3>3 DEF StpInv, SwitchInv
      <4>2. config[q] = OwnConfig(q[1], q[2])
        BY <2>1, <4>1 DEF AloneInv
      <4> QED
        BY <3>2, <4>2 DEF Designated, OwnConfig
    <3>4. r \in PortSet
      BY <1>1, <2>1, <3>3, Ports, StpConstants DEF Types
    <3>5. config'[r] = config[r]
      <4>1. r # p /\ r[1] # s
        BY <2>3 DEF s
      <4> QED
        BY <1>5, <1>12, <3>4, <4>1
    <3> QED
      BY <3>1, <3>2, <3>5 DEF BestInv
  <2> QED
    BY <2>2, <2>3
<1> QED
  BY <1>16, <1>17, <1>18, <1>19, <1>20 DEF StepFacts, SpokenInv, BestInv

LEMMA SpeechFacts ==
  ASSUME StpInv, SpokenInv, BestInv, NEW s \in Switches, NEW from \in SUBSET PortSet, \A p \in from : p[1] = s,
         NEW taken \in [PortSet -> Seq(Config)],
         \A q \in PortSet : \A k \in 1..Len(taken[q]) : Told(q, taken[q][k]),
         UNCHANGED swVars, link' = Sending(taken, s, from)
  PROVE  StepFacts
<1>1. /\ config' = config /\ designated_root' = designated_root /\ root_path_cost' = root_path_cost
      /\ root_port' = root_port
  BY DEF swVars
<1>2. \A q \in PortSet : \A m : Told(q, m)' => Told(q, m) \/ NewSaid(q, m)
  BY SendingSaid
<1>3. \A q \in PortSet : \A m : Kept(q, m)' => Reaching(q, m)
  BY <1>1 DEF Kept, Reaching
<1>4. SpokenInv' /\ BestInv'
  BY <1>1 DEF SpokenInv, BestInv
<1> QED
  BY <1>1, <1>2, <1>3, <1>4 DEF StepFacts

LEMMA StillFacts ==
  ASSUME SpokenInv, BestInv, UNCHANGED swVars, \A q \in PortSet : link'[q] = link[q] \/ link'[q] = <<>>
  PROVE  StepFacts
<1>1. /\ config' = config /\ designated_root' = designated_root /\ root_path_cost' = root_path_cost
      /\ root_port' = root_port
  BY DEF swVars
<1>2. ASSUME NEW q \in PortSet, NEW m, Told(q, m)' PROVE Told(q, m)
  BY <1>2 DEF Told
<1>3. \A q \in PortSet : \A m : Kept(q, m)' => Reaching(q, m)
  BY <1>1 DEF Kept, Reaching
<1>4. SpokenInv' /\ BestInv'
  BY <1>1 DEF SpokenInv, BestInv
<1> QED
  BY <1>1, <1>2, <1>3, <1>4 DEF StepFacts

LEMMA EveryStep ==
  ASSUME StpInv, SpokenInv, BestInv, [Next]_vars
  PROVE  StepFacts
<1>1. CASE \E s \in Switches : Hello(s)
  <2>1. PICK s \in Switches : Hello(s)
    BY <1>1
  <2>2. DesignatedPorts(s) \in SUBSET PortSet /\ \A p \in DesignatedPorts(s) : p[1] = s
    BY Ports DEF DesignatedPorts
  <2>3. UNCHANGED swVars /\ link' = Sending(link, s, DesignatedPorts(s))
    BY <2>1 DEF Hello
  <2>4. link \in [PortSet -> Seq(Config)] /\ \A q \in PortSet : \A k \in 1..Len(link[q]) : Told(q, link[q][k])
    BY DEF StpInv, Types, Told
  <2> QED
    BY <2>2, <2>3, <2>4, SpeechFacts
<1>2. CASE \E p \in PortSet : AcceptConfig(p)
  BY <1>2, AcceptFacts
<1>3. CASE \E p \in PortSet : ReplyConfig(p)
  <2>1. PICK p \in PortSet : ReplyConfig(p)
    BY <1>3
  <2>2. p[1] \in Switches /\ {p} \in SUBSET PortSet /\ \A q \in {p} : q[1] = p[1]
    BY Ports
  <2>3. UNCHANGED swVars /\ link' = Sending(Taken(p), p[1], {p}) /\ link[p] # <<>>
    BY <2>1 DEF ReplyConfig
  <2>4. /\ Taken(p) \in [PortSet -> Seq(Config)]
        /\ \A q \in PortSet : \A k \in 1..Len(Taken(p)[q]) : Told(q, Taken(p)[q][k])
    BY <2>3, TakenTold DEF StpInv
  <2> QED
    BY <2>2, <2>3, <2>4, SpeechFacts
<1>4. CASE UNCHANGED stpVars
  <2>1. UNCHANGED swVars /\ link' = link
    BY <1>4 DEF stpVars
  <2> QED
    BY <2>1, StillFacts
<1>5. CASE \E h, d \in Hosts : HostSends(h, d)
  <2>1. UNCHANGED swVars /\ link' = [p \in PortSet |-> <<>>]
    BY <1>5 DEF HostSends
  <2>2. \A q \in PortSet : link'[q] = <<>>
    BY <2>1
  <2> QED
    BY <2>1, <2>2, StillFacts
<1> QED
  BY <1>1, <1>2, <1>3, <1>4, <1>5 DEF Next, StpNext, HandleFrame, SweepAged, vars

-----------------------------------------------------------------------------
\* What a switch believes is true when what its ports have kept is.
LEMMA TrueBelief ==
  ASSUME StpInv, \A q \in PortSet : \A m \in Config : Kept(q, m) => Truthful(m), NEW s \in Switches,
         designated_root[s] = RootSwitch
  PROVE  s \in Within[Cap(root_path_cost[s])]
<1>1. Types /\ HeardInv /\ SwitchInv
  BY DEF StpInv
<1>2. CASE root_port[s] = 0
  <2>1. s = RootSwitch /\ root_path_cost[s] = 0
    BY <1>1, <1>2 DEF SwitchInv, AloneInv
  <2>2. Cap(0) = 0
    BY Size DEF Cap
  <2> QED
    BY <2>1, <2>2, WithinIs
<1>3. CASE root_port[s] # 0
  <2> DEFINE p == <<s, root_port[s]>>
             m == config[p]
  <2>1. p \in PortSet
    BY <1>1, <1>3, Ports, StpConstants DEF Types
  <2>2. ~Designated(config, p) /\ m.root = RootSwitch /\ root_path_cost[s] = m.cost + 1
    BY <1>1, <1>3 DEF SwitchInv, RootedInv
  <2>3. m \in Config /\ Kept(p, m) /\ FromPeer(p, m)
    BY <1>1, <2>1, <2>2 DEF Types, Kept, HeardInv, Good
  <2> HIDE DEF m
  <2>4. m.switch \in Within[Cap(m.cost)] /\ m.cost \in Nat /\ m.switch \in Switches
    BY <2>1, <2>2, <2>3 DEF Truthful, Config
  <2>5. Peer[p] \in PortSet /\ Peer[p][1] = m.switch /\ p[1] = s
    BY <2>3 DEF FromPeer
  <2>6. s \in Neighbours(m.switch)
    BY <2>1, <2>5, CableEnds
  <2> QED
    BY <2>2, <2>4, <2>6, WithinStep
<1> QED
  BY <1>2, <1>3

KeptTrue == \A q \in PortSet : \A m \in Config : Kept(q, m) => Truthful(m)

BeliefsTrue ==
  \A s \in Switches : designated_root[s] = RootSwitch => s \in Within[Cap(root_path_cost[s])]

LEMMA TrueBeliefs == StpInv /\ KeptTrue => BeliefsTrue
BY TrueBelief DEF KeptTrue, BeliefsTrue

LEMMA ReachingGood ==
  ASSUME StpInv, NEW q \in PortSet, NEW m \in Config, Reaching(q, m)
  PROVE  Good(q, m, designated_root, root_path_cost)
BY DEF StpInv, LinkInv, HeardInv, Reaching, Told, Kept

LEMMA TruthKeeps ==
  ASSUME StpInv', TruthInv, StepFacts
  PROVE  TruthInv'
<1>1. ASSUME NEW q \in PortSet, NEW m \in Config, Kept(q, m)' PROVE Truthful(m)
  BY <1>1 DEF StepFacts, TruthInv
<1>3. BeliefsTrue'
  <2>1. KeptTrue'
    BY <1>1 DEF KeptTrue, Truthful
  <2>2. (StpInv /\ KeptTrue => BeliefsTrue)'
    BY TrueBeliefs, PTL
  <2> QED
    BY <2>1, <2>2
<1>2. ASSUME NEW q \in PortSet, NEW m \in Config, NewSaid(q, m) PROVE Truthful(m)
  <2> DEFINE t == Peer[q][1]
  <2>1. t \in Switches /\ m.root = designated_root'[t] /\ m.cost = root_path_cost'[t] /\ m.switch = t
    BY <1>2, CableEnds DEF NewSaid
  <2> HIDE DEF t
  <2> QED
    BY <1>3, <2>1 DEF Truthful, BeliefsTrue
<1> QED
  BY <1>1, <1>2 DEF StepFacts, TruthInv, Reaching, Truthful

-----------------------------------------------------------------------------
AllGood == \A q \in PortSet : \A m \in Config : Reaching(q, m) => Good(q, m, designated_root, root_path_cost)

LEMMA AllAreGood == StpInv => AllGood
BY ReachingGood DEF AllGood

LEMMA OpenKeeps ==
  ASSUME StpInv, StpInv', TruthInv, TruthInv', SpokenInv, OpenInv, StepFacts
  PROVE  OpenInv'
<1> SUFFICES ASSUME NEW q \in PortSet, NEW m \in Config, Reaching(q, m)', m.root = RootSwitch,
                    q[1] \notin Within[Cap(m.cost)], ~Designated(config', Peer[q])
             PROVE  FALSE
  BY DEF OpenInv
<1> DEFINE d == Peer[q]
           t == m.switch
<1>1. AllGood
  BY AllAreGood
<1>2. AllGood'
  <2>1. (StpInv => AllGood)'
    BY AllAreGood, PTL
  <2> QED
    BY <2>1
<1>3. /\ FromPeer(q, m) /\ d \in PortSet /\ t = d[1] /\ t \in Switches /\ Peer[d] = q
      /\ m.cost \in Nat /\ q[1] \in Switches /\ d = <<t, d[2]>> /\ d[2] \in 1..nports[t]
  <2>1. FromPeer(q, m)
    BY <1>2 DEF AllGood, Good
  <2>2. d \in PortSet /\ t = d[1]
    BY <2>1 DEF FromPeer
  <2> QED
    BY <2>1, <2>2, CableEnds, Ports DEF Config
<1> HIDE DEF d, t
<1>4. ~Designated(config', d)
  BY DEF d
<1>5. ASSUME Reaching(q, m) PROVE FALSE
  <2>1. Good(q, m, designated_root, root_path_cost) /\ Designated(config, d)
    BY <1>1, <1>5 DEF AllGood, OpenInv, d
  <2> DEFINE h == Head(link[d])
  <2>2. link[d] # <<>> /\ Better(h, config[d])
    BY <1>3, <1>4, <2>1 DEF StepFacts
  <2>3. h \in Config /\ Told(d, h)
    BY <1>3, <2>2, TakenTold DEF StpInv
  <2> HIDE DEF h
  <2>4. FromPeer(d, h) /\ Truthful(h)
    BY <1>1, <1>3, <2>3 DEF AllGood, Good, Reaching, TruthInv
  <2>5. h.switch = q[1]
    BY <1>3, <2>4 DEF FromPeer
  <2>6. /\ config[d].root = designated_root[t] /\ config[d].cost = root_path_cost[t] /\ config[d] \in Config
        /\ designated_root[t] \in Switches /\ root_path_cost[t] \in Nat
    BY <1>3, <2>1 DEF SpokenInv, StpInv, Types
  <2>7. NoWorse(designated_root[t], root_path_cost[t], RootSwitch, m.cost)
    BY <2>1 DEF Good, Believed, t
  <2>8. NoWorse(h.root, h.cost, designated_root[t], root_path_cost[t])
    BY <2>2, <2>3, <2>6, BetterFacts
  <2>9. h.root \in Switches /\ h.cost \in Nat /\ \A s \in Switches : s \in Nat /\ RootSwitch <= s
    BY <2>3, RootIs, StpConstants DEF Config
  <2>10. h.root = RootSwitch /\ h.cost <= m.cost
    BY <1>3, <2>6, <2>7, <2>8, <2>9, RootIs DEF NoWorse
  <2>11. q[1] \in Within[Cap(h.cost)]
    BY <2>4, <2>5, <2>10 DEF Truthful
  <2> QED
    BY <1>3, <2>9, <2>10, <2>11, WithinGrows
<1>6. ASSUME NewSaid(q, m) PROVE FALSE
  <2>1. ~Alternate(config', root_port', d) /\ m.root = designated_root'[t] /\ m.cost = root_path_cost'[t]
    BY <1>3, <1>6 DEF NewSaid, d
  <2>2. root_port'[t] = d[2] /\ d[2] # 0
    BY <1>3, <1>4, <2>1, StpConstants DEF Alternate
  <2>3. designated_root'[t] = config'[d].root /\ root_path_cost'[t] = config'[d].cost + 1 /\ config'[d] \in Config
    BY <1>3, <2>2 DEF StpInv, SwitchInv, RootedInv, Types
  <2>4. PICK h \in Config : h = config'[d]
    BY <2>3
  <2>5. Reaching(d, h)'
    BY <1>4, <2>4 DEF Reaching, Kept
  <2>6. FromPeer(d, h) /\ Truthful(h)
    BY <1>2, <1>3, <2>5 DEF AllGood, Good, TruthInv, Truthful
  <2>7. h.switch = q[1] /\ h.root = RootSwitch /\ m.cost = h.cost + 1 /\ h.cost \in Nat
    BY <1>3, <2>1, <2>3, <2>4, <2>6 DEF FromPeer, Config
  <2>8. q[1] \in Within[Cap(h.cost)] /\ h.cost <= m.cost
    BY <2>6, <2>7 DEF Truthful
  <2> QED
    BY <1>3, <2>7, <2>8, WithinGrows
<1> QED
  BY <1>5, <1>6 DEF StepFacts, Reaching

-----------------------------------------------------------------------------
\* The least switch believes in itself for ever.
RootInv == designated_root[RootSwitch] = RootSwitch /\ root_path_cost[RootSwitch] = 0

TreeInv == IInv /\ TruthInv /\ SpokenInv /\ OpenInv /\ BestInv /\ RootInv

LEMMA InitTree == Init => TreeInv
<1> SUFFICES ASSUME Init PROVE TreeInv
  OBVIOUS
<1>1. IInv
  BY InitInv
<1>2. \A p \in PortSet : Designated(config, p) /\ link[p] = <<>>
  BY DEF Init, StpInit, Designated
<1>3. \A q \in PortSet : \A m : ~Reaching(q, m)
  BY <1>2 DEF Reaching, Told, Kept
<1>4. SpokenInv
  BY Ports DEF SpokenInv, Init, StpInit
<1>5. RootInv
  BY RootIs DEF RootInv, Init, StpInit
<1> QED
  BY <1>1, <1>2, <1>3, <1>4, <1>5 DEF TreeInv, TruthInv, OpenInv, BestInv

LEMMA TreeStep == TreeInv /\ [Next]_vars => TreeInv'
<1> SUFFICES ASSUME TreeInv, [Next]_vars PROVE TreeInv'
  OBVIOUS
<1>1. IInv' /\ StpInv /\ StpInv' /\ Improves
  BY Step DEF TreeInv, IInv
<1>2. StepFacts
  BY <1>1, EveryStep DEF TreeInv
<1>3. TruthInv'
  BY <1>1, <1>2, TruthKeeps DEF TreeInv
<1>4. OpenInv'
  BY <1>1, <1>2, <1>3, OpenKeeps DEF TreeInv
<1>5. RootInv'
  <2>1. NoWorse(designated_root'[RootSwitch], root_path_cost'[RootSwitch], RootSwitch, 0)
    BY <1>1, RootIs DEF Improves, TreeInv, RootInv
  <2>2. /\ designated_root'[RootSwitch] \in Switches /\ root_path_cost'[RootSwitch] \in Nat
        /\ RootSwitch \in Switches /\ \A t \in Switches : t \in Nat /\ RootSwitch <= t
    BY <1>1, RootIs, StpConstants DEF StpInv, Types
  <2> QED
    BY <2>1, <2>2 DEF NoWorse, RootInv
<1> QED
  BY <1>1, <1>2, <1>3, <1>4, <1>5 DEF TreeInv, StepFacts

THEOREM TreeInductive == Spec => []TreeInv
BY InitTree, TreeStep, PTL DEF Spec

-----------------------------------------------------------------------------
(***************************************************************************)
(* The cables in use hang every switch from the one its root port leads to. *)
(***************************************************************************)
RootPort(b) == <<b, root_port[b]>>
Up(b)       == Peer[RootPort(b)][1]
Hangs(b)    == root_port[b] # 0 /\ Active(RootPort(b))

Ahead(a, b) ==
  \/ designated_root[a] < designated_root[b]
  \/ designated_root[a] = designated_root[b] /\ root_path_cost[a] < root_path_cost[b]

LEMMA UpIs ==
  ASSUME TreeInv, NEW b \in Switches, root_port[b] # 0
  PROVE  /\ RootPort(b) \in PortSet /\ Up(b) \in Switches /\ Ahead(Up(b), b)
         /\ Peer[RootPort(b)] \in PortSet /\ Peer[Peer[RootPort(b)]] = RootPort(b)
<1> DEFINE p == RootPort(b)
           t == config[p].switch
<1>1. /\ Peer[p] = <<t, config[p].port>> /\ Ahead(t, b)
  BY Descends DEF TreeInv, RootPathsDescend, Ahead, RootPort
<1>2. p \in PortSet
  BY Ports, StpConstants DEF TreeInv, IInv, StpInv, Types, RootPort
<1>3. ~Designated(config, p)
  BY DEF TreeInv, IInv, StpInv, SwitchInv, RootedInv, RootPort
<1>4. Peer[p] \in PortSet
  BY <1>2, <1>3 DEF TreeInv, IInv, StpInv, HeardInv, Good, FromPeer
<1>5. Up(b) = t
  BY <1>1 DEF Up
<1> QED
  BY <1>1, <1>2, <1>4, <1>5, CableEnds DEF Up

LEMMA Beliefs ==
  ASSUME TreeInv, NEW s \in Switches
  PROVE  /\ designated_root[s] \in Nat /\ root_path_cost[s] \in Nat /\ designated_root[s] \in Switches
BY StpConstants DEF TreeInv, IInv, StpInv, Types

LEMMA Turned ==
  ASSUME NEW p \in PortSet, Active(p)
  PROVE  Peer[p] \in PortSet /\ Active(Peer[p]) /\ Peer[Peer[p]] = p
BY CableEnds DEF Active

LEMMA Hanging ==
  ASSUME TreeInv, Settled, NEW q \in PortSet, Active(q)
  PROVE  \/ q = RootPort(q[1]) /\ Hangs(q[1]) /\ Up(q[1]) = Peer[q][1]
         \/ Peer[q] = RootPort(Peer[q][1]) /\ Hangs(Peer[q][1]) /\ Up(Peer[q][1]) = q[1]
<1> DEFINE p == Peer[q]
<1>1. p \in PortSet /\ Active(p) /\ Peer[p] = q
  BY Turned
<1>2. /\ q = <<q[1], q[2]>> /\ p = <<p[1], p[2]>> /\ q[2] # 0 /\ p[2] # 0
      /\ q[1] \in Switches /\ p[1] \in Switches /\ q[1] # p[1]
  BY <1>1, Ports, StpConstants
<1> HIDE DEF p
<1>3. CASE root_port[q[1]] = q[2]
  <2>1. q = RootPort(q[1])
    BY <1>2, <1>3 DEF RootPort
  <2> QED
    BY <1>2, <1>3, <2>1 DEF Hangs, Up
<1>4. CASE root_port[p[1]] = p[2]
  <2>1. p = RootPort(p[1])
    BY <1>2, <1>4 DEF RootPort
  <2> QED
    BY <1>1, <1>2, <1>4, <2>1 DEF Hangs, Up, p
<1>5. CASE root_port[q[1]] # q[2] /\ root_port[p[1]] # p[2]
  <2>1. /\ ~Alternate(config, root_port, q) /\ ~Alternate(config, root_port, p)
    BY <1>1 DEF Active
  <2>2. Designated(config, q) /\ Designated(config, p)
    BY <1>5, <2>1 DEF Alternate
  <2>3. config[q] \in Config /\ config[p] \in Config
    BY <1>1 DEF TreeInv, IInv, StpInv, Types
  <2>4. config[q] = Spoken(q) /\ config[p] = Spoken(p)
    BY <1>1, <2>2, <2>3 DEF TreeInv, SpokenInv, Designated, Config, Spoken
  <2>5. ~Better(config[p], config[q]) /\ ~Better(config[q], config[p])
    BY <1>1, <2>1, <2>4 DEF Settled, p
  <2>6. config[q].switch = config[p].switch
    BY <2>3, <2>5, NoTie
  <2> QED
    BY <1>2, <2>2, <2>6 DEF Designated
<1> QED
  BY <1>3, <1>4, <1>5

ClosedDown(S) == \A b \in Switches : Hangs(b) /\ Up(b) \in S => b \in S

Below(s) == {b \in Switches : \A S \in SUBSET Switches : s \in S /\ ClosedDown(S) => b \in S}

LEMMA BelowIs ==
  ASSUME TreeInv, NEW s \in Switches
  PROVE  /\ s \in Below(s) /\ ClosedDown(Below(s)) /\ Below(s) \in SUBSET Switches
         /\ \A b \in Below(s) : b # s => Hangs(b) /\ Up(b) \in Below(s)
         /\ \A b \in Below(s) : ~Ahead(b, s)
<1>1. s \in Below(s) /\ Below(s) \in SUBSET Switches
  BY DEF Below
<1>2. ASSUME NEW b \in Switches, Hangs(b), Up(b) \in Below(s) PROVE b \in Below(s)
  <2>1. ASSUME NEW S \in SUBSET Switches, s \in S, ClosedDown(S) PROVE b \in S
    <3>1. Up(b) \in S
      BY <1>2, <2>1 DEF Below
    <3> QED
      BY <1>2, <2>1, <3>1 DEF ClosedDown
  <2> QED
    BY <2>1 DEF Below
<1>3. ASSUME NEW b \in Below(s), b # s, ~(Hangs(b) /\ Up(b) \in Below(s)) PROVE FALSE
  <2> DEFINE S == Below(s) \ {b}
  <2>1. S \in SUBSET Switches /\ s \in S
    BY <1>1, <1>3
  <2>2. ASSUME NEW c \in Switches, Hangs(c), Up(c) \in S PROVE c \in S
    <3>1. c \in Below(s)
      BY <1>2, <2>2
    <3>2. c # b
      BY <1>3, <2>2
    <3> QED
      BY <3>1, <3>2
  <2>3. ClosedDown(S)
    BY <2>2 DEF ClosedDown
  <2> HIDE DEF S
  <2>4. b \in S
    BY <1>3, <2>1, <2>3 DEF Below
  <2> QED
    BY <2>4 DEF S
<1>4. ASSUME NEW b \in Below(s) PROVE ~Ahead(b, s)
  <2> DEFINE S == {c \in Switches : ~Ahead(c, s)}
  <2>1. S \in SUBSET Switches /\ s \in S
    BY Beliefs DEF Ahead
  <2>2. ASSUME NEW c \in Switches, Hangs(c), Up(c) \in S PROVE c \in S
    <3>1. Up(c) \in Switches /\ Ahead(Up(c), c) /\ ~Ahead(Up(c), s)
      BY <2>2, UpIs DEF Hangs
    <3>2. PICK a \in Switches : a = Up(c)
      BY <3>1
    <3>3. Ahead(a, c) /\ ~Ahead(a, s)
      BY <3>1, <3>2
    <3>4. /\ designated_root[a] \in Nat /\ root_path_cost[a] \in Nat
          /\ designated_root[c] \in Nat /\ root_path_cost[c] \in Nat
          /\ designated_root[s] \in Nat /\ root_path_cost[s] \in Nat
      BY Beliefs
    <3>5. ~Ahead(c, s)
      BY <3>3, <3>4 DEF Ahead
    <3> QED
      BY <3>5
  <2>3. ClosedDown(S)
    BY <2>2 DEF ClosedDown
  <2> HIDE DEF S
  <2>4. b \in S
    BY <1>4, <2>1, <2>3 DEF Below
  <2> QED
    BY <2>4 DEF S
<1> QED
  BY <1>1, <1>2, <1>3, <1>4 DEF ClosedDown

LEMMA SettledNoCircle == TreeInv /\ Settled => NoCircle
<1> SUFFICES ASSUME TreeInv, Settled, NEW p \in PortSet, Active(p) PROVE p[1] \notin Beyond(p)
  BY DEF NoCircle
<1>1. /\ Peer[p] \in PortSet /\ Peer[Peer[p]] = p /\ p[1] \in Switches /\ Peer[p][1] \in Switches
      /\ First(p) = {Peer[p][1]}
  BY Turned, CableEnds DEF First
<1>2. CASE p = RootPort(p[1]) /\ Hangs(p[1]) /\ Up(p[1]) = Peer[p][1]
  <2> DEFINE s == p[1]
             S == Switches \ Below(s)
  <2>1. Ahead(Peer[p][1], s)
    BY <1>1, <1>2, UpIs DEF Hangs
  <2>2. First(p) \subseteq S /\ S \in SUBSET Switches
    BY <1>1, <2>1, BelowIs
  <2>3. ASSUME NEW q \in PortSet, q[1] \in S, Active(q), Peer[q] # p PROVE Peer[q][1] \in S
    <3>1. q[1] \in Switches /\ Peer[q][1] \in Switches
      BY <2>3, Turned, CableEnds
    <3>2. CASE q = RootPort(q[1]) /\ Hangs(q[1]) /\ Up(q[1]) = Peer[q][1]
      BY <1>1, <2>3, <3>1, <3>2, BelowIs DEF ClosedDown
    <3>3. CASE Peer[q] = RootPort(Peer[q][1]) /\ Hangs(Peer[q][1]) /\ Up(Peer[q][1]) = q[1]
      <4>1. Peer[q][1] # s
        BY <1>2, <2>3, <3>3
      <4> QED
        BY <1>1, <2>3, <3>1, <3>3, <4>1, BelowIs
    <3> QED
      BY <2>3, <3>2, <3>3, Hanging
  <2>4. Further(p, S) = S
    BY <2>3 DEF Further
  <2>5. s \notin S
    BY <1>1, BelowIs
  <2> HIDE DEF s, S
  <2>6. Beyond(p) \subseteq S
    BY <2>2, <2>4, BeyondIs
  <2> QED
    BY <2>5, <2>6 DEF s
<1>3. CASE Peer[p] = RootPort(Peer[p][1]) /\ Hangs(Peer[p][1]) /\ Up(Peer[p][1]) = p[1]
  <2> DEFINE t == Peer[p][1]
             S == Below(t)
  <2>1. Ahead(p[1], t)
    BY <1>1, <1>3, UpIs DEF Hangs
  <2>2. First(p) \subseteq S /\ S \in SUBSET Switches /\ p[1] \notin S
    BY <1>1, <2>1, BelowIs
  <2>3. ASSUME NEW q \in PortSet, q[1] \in S, Active(q), Peer[q] # p PROVE Peer[q][1] \in S
    <3>1. q[1] \in Switches /\ Peer[q][1] \in Switches /\ Peer[q] \in PortSet
      BY <2>3, Turned, CableEnds
    <3>2. CASE q = RootPort(q[1]) /\ Hangs(q[1]) /\ Up(q[1]) = Peer[q][1]
      <4>1. q[1] # t
        BY <1>1, <1>3, <2>3, <3>2
      <4> QED
        BY <1>1, <2>3, <3>1, <3>2, <4>1, BelowIs
    <3>3. CASE Peer[q] = RootPort(Peer[q][1]) /\ Hangs(Peer[q][1]) /\ Up(Peer[q][1]) = q[1]
      BY <1>1, <2>3, <3>1, <3>3, BelowIs DEF ClosedDown
    <3> QED
      BY <2>3, <3>2, <3>3, Hanging
  <2>4. Further(p, S) = S
    BY <2>3 DEF Further
  <2> HIDE DEF S
  <2>5. Beyond(p) \subseteq S
    BY <2>2, <2>4, BeyondIs
  <2> QED
    BY <2>2, <2>5
<1> QED
  BY <1>2, <1>3, Hanging

-----------------------------------------------------------------------------
\* Once every switch knows its distance, its root port's cable is in use.
LEMMA AllHang ==
  ASSUME TreeInv, Computed, NEW t \in Switches, t # RootSwitch
  PROVE  Hangs(t) /\ Up(t) \in Switches /\ root_path_cost[Up(t)] < root_path_cost[t]
<1> DEFINE p == RootPort(t)
           m == config[p]
<1>1. designated_root[t] = RootSwitch /\ root_path_cost[t] = RootDistance[t] /\ root_path_cost[t] \in Nat
  BY Beliefs DEF Computed
<1>2. root_port[t] # 0
  BY <1>1 DEF TreeInv, IInv, StpInv, SwitchInv, AloneInv
<1>3. p \in PortSet /\ Up(t) \in Switches /\ Ahead(Up(t), t) /\ Peer[p] \in PortSet /\ Peer[Peer[p]] = p
  BY <1>2, UpIs
<1>4. root_path_cost[Up(t)] < root_path_cost[t]
  <2>1. designated_root[Up(t)] = RootSwitch
    BY <1>3 DEF Computed
  <2> QED
    BY <1>1, <1>3, <2>1, RootIs, StpConstants DEF Ahead
<1>5. ~Designated(config, p) /\ m.root = RootSwitch /\ root_path_cost[t] = m.cost + 1
  BY <1>1, <1>2 DEF TreeInv, IInv, StpInv, SwitchInv, RootedInv, RootPort
<1>6. m \in Config /\ m.cost \in Nat
  BY <1>3 DEF TreeInv, IInv, StpInv, Types, Config
<1>7. Reaching(p, m)
  BY <1>5 DEF Reaching, Kept
<1>8. t \notin Within[Cap(m.cost)]
  <2>1. KeptTrue
    BY DEF TreeInv, TruthInv, KeptTrue, Reaching
  <2>2. t \in Within[Cap(root_path_cost[t])]
    BY <1>1, <2>1, TrueBelief DEF TreeInv, IInv, KeptTrue
  <2> HIDE DEF m
  <2>3. m.cost < RootDistance[t]
    BY <1>1, <1>5, <1>6
  <2> QED
    BY <1>1, <1>6, <2>2, <2>3, DistanceIs
<1>9. Designated(config, Peer[p])
  <2>1. p[1] = t
    BY DEF RootPort
  <2> QED
    BY <1>3, <1>5, <1>6, <1>7, <1>8, <2>1 DEF TreeInv, OpenInv
<1>10. Active(p)
  BY <1>3, <1>9 DEF Active, Alternate, RootPort
<1> QED
  BY <1>2, <1>3, <1>4, <1>10 DEF Hangs

\* A set of switches that no cable in use leaves holds the root, if any switch.
LEMMA HoldsRoot ==
  ASSUME TreeInv, Computed, NEW S \in SUBSET Switches, S # {},
         \A t \in S : Hangs(t) => Up(t) \in S
  PROVE  RootSwitch \in S
<1> DEFINE g == [t \in S |-> root_path_cost[t]]
<1>1. g \in [S -> Nat]
  BY Beliefs
<1>2. PICK t \in S : \A u \in S : g[t] <= g[u]
  <2> HIDE DEF g
  <2> QED
    BY <1>1, LeastBy
<1>3. ASSUME t # RootSwitch PROVE FALSE
  <2>1. Up(t) \in S /\ root_path_cost[Up(t)] < root_path_cost[t]
    BY <1>3, AllHang
  <2>2. root_path_cost[t] <= root_path_cost[Up(t)]
    BY <1>2, <2>1
  <2>3. root_path_cost[t] \in Nat /\ root_path_cost[Up(t)] \in Nat
    BY <2>1, Beliefs
  <2> QED
    BY <2>1, <2>2, <2>3
<1> QED
  BY <1>3

LEMMA ComputedJoined == TreeInv /\ Computed => AllJoined
<1> SUFFICES ASSUME TreeInv, Computed, NEW s \in Switches
             PROVE  {s} \cup UNION {Beyond(<<s, i>>) : i \in 1..nports[s]} = Switches
  BY DEF AllJoined
<1> DEFINE S == {s} \cup UNION {Beyond(<<s, i>>) : i \in 1..nports[s]}
           T == Switches \ S
<1>1. S \in SUBSET Switches /\ s \in S
  BY BeyondIs, Ports
<1>2. ASSUME NEW q \in PortSet, Active(q), q[1] \in S PROVE Peer[q][1] \in S
  <2>1. CASE q[1] = s
    <3>1. q[2] \in 1..nports[s] /\ q = <<s, q[2]>>
      BY <2>1, Ports
    <3>2. Peer[q][1] \in Beyond(q)
      BY <1>2, BeyondIs DEF First
    <3> QED
      BY <3>1, <3>2
  <2>2. CASE q[1] # s
    <3>1. PICK i \in 1..nports[s] : q[1] \in Beyond(<<s, i>>)
      BY <1>2, <2>2
    <3>2. PICK p \in PortSet : p = <<s, i>>
      BY Ports
    <3>3. CASE Peer[q] = p
      BY <1>1, <3>2, <3>3
    <3>4. CASE Peer[q] # p
      <4>1. Further(p, Beyond(p)) = Beyond(p) /\ q[1] \in Beyond(p)
        BY <3>1, <3>2, BeyondIs
      <4>2. Peer[q][1] \in Further(p, Beyond(p))
        BY <1>2, <3>4, <4>1 DEF Further
      <4> QED
        BY <3>2, <4>1, <4>2
    <3> QED
      BY <3>3, <3>4
  <2> QED
    BY <2>1, <2>2
<1> HIDE DEF S
<1>3. ASSUME NEW t \in Switches, Hangs(t) PROVE t \in S <=> Up(t) \in S
  <2> DEFINE p == RootPort(t)
  <2>1. p \in PortSet /\ Active(p) /\ Peer[p] \in PortSet /\ Peer[Peer[p]] = p
    BY <1>3, UpIs DEF Hangs
  <2>2. Active(Peer[p]) /\ p[1] = t /\ Peer[p][1] = Up(t)
    BY <2>1, Turned DEF RootPort, Up
  <2> HIDE DEF p
  <2>3. Peer[Peer[p]][1] = t
    BY <2>1, <2>2
  <2> QED
    BY <1>2, <2>1, <2>2, <2>3
<1>4. RootSwitch \in S
  BY <1>1, <1>3, HoldsRoot
<1>5. ASSUME T # {} PROVE FALSE
  <2>1. T \in SUBSET Switches /\ RootSwitch \notin T
    BY <1>4
  <2>2. \A t \in T : Hangs(t) => Up(t) \in T
    BY <1>3, UpIs DEF Hangs
  <2> HIDE DEF T
  <2> QED
    BY <1>5, <2>1, <2>2, HoldsRoot
<1> QED
  BY <1>1, <1>5 DEF S

-----------------------------------------------------------------------------
Connected == Within[Cardinality(Switches)] = Switches

KnowsWithin(n) == \A t \in Within[n] : designated_root[t] = RootSwitch /\ root_path_cost[t] <= n

\* One cable of a settled network carries the root's distance one switch further.
LEMMA OneFurther ==
  ASSUME TreeInv, Settled, NothingWithheld, NEW q \in PortSet, Peer[q] \in PortSet,
         NEW n \in Nat, designated_root[q[1]] = RootSwitch, root_path_cost[q[1]] <= n
  PROVE  designated_root[Peer[q][1]] = RootSwitch /\ root_path_cost[Peer[q][1]] <= n + 1
<1> DEFINE p == Peer[q]
           u == q[1]
           t == p[1]
<1>1. /\ p \in PortSet /\ Peer[p] = q /\ u \in Switches /\ t \in Switches
      /\ config[p] \in Config /\ config[q] \in Config
  BY CableEnds DEF TreeInv, IInv, StpInv, Types
<1> HIDE DEF p, t
<1>2. /\ root_path_cost[u] \in Nat /\ root_path_cost[t] \in Nat /\ designated_root[t] \in Switches
      /\ RootSwitch \in Switches /\ \A s \in Switches : s \in Nat /\ RootSwitch <= s
  BY <1>1, Beliefs, RootIs, StpConstants
<1>3. Spoken(q) \in Config /\ Spoken(q).root = RootSwitch /\ Spoken(q).cost = root_path_cost[u]
  BY <1>1, <1>2, Ports, StpConstants DEF Spoken, Config
<1>4. ASSUME NEW c \in Config, ~Better(Spoken(q), c) PROVE c.root = RootSwitch /\ c.cost <= n /\ c.cost \in Nat
  <2>1. NoWorse(c.root, c.cost, Spoken(q).root, Spoken(q).cost)
    BY <1>3, <1>4, BetterFacts
  <2>2. c.root \in Switches /\ c.cost \in Nat
    BY DEF Config
  <2> QED
    BY <1>2, <1>3, <2>1, <2>2 DEF NoWorse
<1>5. CASE Alternate(config, root_port, q)
  <2>1. \/ designated_root[t] < RootSwitch
        \/ designated_root[t] = RootSwitch /\ root_path_cost[t] <= root_path_cost[u] + 1
    BY <1>1, <1>5 DEF NothingWithheld, t, p
  <2>2. designated_root[t] = RootSwitch /\ root_path_cost[t] <= n + 1
    BY <1>1, <1>2, <2>1
  <2> QED
    BY <2>2 DEF t, p
<1>6. CASE ~Alternate(config, root_port, q)
  <2>4. ~Better(Spoken(q), config[p])
    BY <1>1, <1>6 DEF Settled, p
  <2>1. config[p].root = RootSwitch /\ config[p].cost <= n /\ config[p].cost \in Nat
    BY <1>1, <1>4, <2>4
  <2>2. CASE Designated(config, p)
    <3>1. designated_root[t] = RootSwitch /\ root_path_cost[t] <= n + 1
      BY <1>1, <1>2, <2>1, <2>2 DEF TreeInv, SpokenInv, t
    <3> QED
      BY <3>1 DEF t, p
  <2>3. CASE ~Designated(config, p)
    <3> DEFINE r == <<t, root_port[t]>>
    <3>1. p = <<t, p[2]>> /\ p[2] \in 1..nports[t]
      BY <1>1, Ports DEF t
    <3>2. ASSUME root_port[t] = 0 PROVE FALSE
      <4>1. config[p] = OwnConfig(t, p[2])
        BY <1>1, <3>1, <3>2 DEF TreeInv, IInv, StpInv, SwitchInv, AloneInv
      <4> QED
        BY <2>3, <4>1 DEF Designated, OwnConfig, t
    <3>3. /\ r \in PortSet /\ config[r] \in Config
          /\ designated_root[t] = config[r].root /\ root_path_cost[t] = config[r].cost + 1
      <4>1. root_port[t] \in 1..nports[t]
        BY <1>1, <3>2, StpConstants DEF TreeInv, IInv, StpInv, Types
      <4> QED
        BY <1>1, <3>2, <4>1, Ports DEF TreeInv, IInv, StpInv, Types, SwitchInv, RootedInv
    <3>4. ~Better(config[p], config[r])
      BY <1>1, <2>3 DEF TreeInv, BestInv, t
    <3>5. NoWorse(config[r].root, config[r].cost, RootSwitch, config[p].cost)
      BY <1>1, <2>1, <3>3, <3>4, BetterFacts
    <3>6. config[r].root \in Switches /\ config[r].cost \in Nat
      BY <3>3 DEF Config
    <3> HIDE DEF r
    <3>7. designated_root[t] = RootSwitch /\ root_path_cost[t] <= n + 1
      BY <1>2, <2>1, <3>3, <3>5, <3>6 DEF NoWorse
    <3> QED
      BY <3>7 DEF t, p
  <2> QED
    BY <2>2, <2>3
<1> QED
  BY <1>5, <1>6

LEMMA SettledComputed ==
  ASSUME Connected, TreeInv, Settled, NothingWithheld
  PROVE  Computed
<1> DEFINE N == Cardinality(Switches)
           T == {n \in 0..N : KnowsWithin(n)}
<1>1. N \in Nat
  BY Size
<1>2. 0 \in T
  BY <1>1, WithinIs DEF TreeInv, RootInv, KnowsWithin
<1>3. ASSUME NEW n \in 0..N, n \in T, n < N PROVE n + 1 \in T
  <2>1. ASSUME NEW t \in Within[n + 1] PROVE designated_root[t] = RootSwitch /\ root_path_cost[t] <= n + 1
    <3>1. Within[n + 1] = Spread(Within[n]) /\ Within[n] \in SUBSET Switches
      BY <1>3, WithinIs
    <3>2. CASE t \in Within[n]
      <4>1. designated_root[t] = RootSwitch /\ root_path_cost[t] <= n /\ root_path_cost[t] \in Nat /\ n \in Nat
        BY <1>1, <1>3, <3>1, <3>2, Beliefs DEF KnowsWithin
      <4> QED
        BY <4>1
    <3>3. CASE t \notin Within[n]
      <4>1. PICK s \in Within[n] : t \in Neighbours(s)
        BY <3>1, <3>3 DEF Spread
      <4>2. PICK i \in 1..nports[s] : Peer[<<s, i>>] \in PortSet /\ t = Peer[<<s, i>>][1]
        BY <4>1 DEF Neighbours
      <4>3. PICK q \in PortSet : q = <<s, i>>
        BY <3>1, <4>1, <4>2, Ports
      <4>4. /\ designated_root[q[1]] = RootSwitch /\ root_path_cost[q[1]] <= n /\ n \in Nat
            /\ Peer[q] \in PortSet /\ t = Peer[q][1]
        BY <1>1, <1>3, <4>1, <4>2, <4>3 DEF KnowsWithin
      <4> QED
        BY <4>4, OneFurther
    <3> QED
      BY <3>2, <3>3
  <2>2. n + 1 \in 0..N
    BY <1>1, <1>3
  <2> QED
    BY <2>1, <2>2 DEF KnowsWithin
<1> HIDE DEF T
<1>4. \A n \in 0..N : n \in T
  <2> HIDE DEF N
  <2> QED
    BY <1>1, <1>2, <1>3, UpTo
<1>5. ASSUME NEW s \in Switches
      PROVE  designated_root[s] = RootSwitch /\ root_path_cost[s] = RootDistance[s]
  <2>1. s \in Within[Cap(N)] /\ Cap(N) = N
    BY <1>1 DEF Connected, Cap
  <2>2. RootDistance[s] \in 0..N /\ s \in Within[RootDistance[s]]
    BY <1>1, <2>1, DistanceIs
  <2>3. designated_root[s] = RootSwitch /\ root_path_cost[s] <= RootDistance[s]
    BY <1>4, <2>2 DEF T, KnowsWithin
  <2>4. KeptTrue
    BY DEF TreeInv, TruthInv, KeptTrue, Reaching
  <2>5. s \in Within[Cap(root_path_cost[s])]
    BY <2>3, <2>4, TrueBelief DEF TreeInv, IInv, KeptTrue
  <2>6. root_path_cost[s] \in Nat /\ RootDistance[s] <= root_path_cost[s]
    BY <2>5, Beliefs, DistanceIs
  <2> QED
    BY <1>1, <2>2, <2>3, <2>6
<1> QED
  BY <1>5 DEF Computed

LEMMA ComputedTells ==
  ASSUME TreeInv, Computed
  PROVE  NothingWithheld
<1> SUFFICES ASSUME NEW p \in PortSet, Peer[p] \in PortSet
             PROVE  root_path_cost[Peer[p][1]] <= root_path_cost[p[1]] + 1
  BY CableEnds DEF NothingWithheld, Computed
<1>1. PICK s \in Switches, t \in Switches : s = p[1] /\ t = Peer[p][1] /\ t \in Neighbours(s)
  <2>1. Peer[Peer[p]] = p /\ Peer[p][1] \in Switches /\ p[1] \in Switches
    BY CableEnds
  <2>2. Peer[p][1] \in Neighbours(p[1])
    BY <2>1, CableEnds
  <2> QED
    BY <2>1, <2>2
<1>2. KeptTrue
  BY DEF TreeInv, TruthInv, KeptTrue, Reaching
<1>3. s \in Within[Cap(root_path_cost[s])] /\ root_path_cost[s] \in Nat
  BY <1>2, TrueBelief, Beliefs DEF TreeInv, IInv, KeptTrue, Computed
<1>4. t \in Within[Cap(root_path_cost[s] + 1)] /\ root_path_cost[s] + 1 \in Nat
  BY <1>1, <1>3, WithinStep
<1>5. RootDistance[t] <= root_path_cost[s] + 1
  BY <1>4, DistanceIs
<1> QED
  BY <1>1, <1>5 DEF Computed

\* The report's rule would be enough.
LEMMA RuleTells ==
  ASSUME TreeInv, BetterPortDesignated
  PROVE  NothingWithheld
<1> SUFFICES ASSUME NEW p \in PortSet, Peer[p] \in PortSet, Alternate(config, root_port, p)
             PROVE  LET s == p[1]
                        t == Peer[p][1]
                    IN  \/ designated_root[t] < designated_root[s]
                        \/ designated_root[t] = designated_root[s] /\ root_path_cost[t] <= root_path_cost[s] + 1
  BY DEF NothingWithheld
<1> DEFINE c == config[p]
<1>1. PICK s \in Switches, t \in Switches : s = p[1] /\ t = Peer[p][1]
  BY CableEnds
<1>2. /\ designated_root[s] \in Nat /\ root_path_cost[s] \in Nat
      /\ designated_root[t] \in Nat /\ root_path_cost[t] \in Nat /\ designated_root[s] \in Switches
  BY Beliefs
<1>3. Spoken(p) \in Config /\ Spoken(p).root = designated_root[s] /\ Spoken(p).cost = root_path_cost[s]
  BY <1>1, <1>2, Ports, StpConstants DEF Spoken, Config
<1>4. c \in Config /\ c.root \in Nat /\ c.cost \in Nat
  BY StpConstants DEF TreeInv, IInv, StpInv, Types, Config
<1>5. ~Better(Spoken(p), c)
  BY DEF BetterPortDesignated
<1>6. Good(p, c, designated_root, root_path_cost)
  BY DEF Alternate, TreeInv, IInv, StpInv, HeardInv
<1>7. NoWorse(designated_root[t], root_path_cost[t], c.root, c.cost)
  BY <1>1, <1>6 DEF Good, FromPeer, Believed
<1>8. NoWorse(c.root, c.cost, designated_root[s], root_path_cost[s])
  BY <1>3, <1>4, <1>5, BetterFacts
<1> HIDE DEF c
<1>9. \/ designated_root[t] < designated_root[s]
      \/ designated_root[t] = designated_root[s] /\ root_path_cost[t] <= root_path_cost[s] + 1
  BY <1>2, <1>4, <1>7, <1>8 DEF NoWorse
<1> QED
  BY <1>1, <1>9

-----------------------------------------------------------------------------
\* On whatever network, a frame that leaves a switch of a settled network does not
\* come back by another way.
THEOREM SettledWithoutCircle == Spec => [](Settled => NoCircle)
BY TreeInductive, SettledNoCircle, PTL

\* On whatever connected network the protocol can fail in one way only: a settled network
\* knows the root and the distances exactly when no ALTERNATE port keeps back what the
\* switch at the other end lacks, and then its cables in use form a tree.  A port that
\* keeps to the report's rule keeps nothing back.
THEOREM TreeUnlessWithheld ==
  ASSUME Connected
  PROVE  Spec => [](/\ NothingWithheld => TreeSpans
                    /\ Settled => (NothingWithheld <=> Computed)
                    /\ BetterPortDesignated => NothingWithheld)
<1>1. TreeInv => /\ NothingWithheld => TreeSpans
                 /\ Settled => (NothingWithheld <=> Computed)
                 /\ BetterPortDesignated => NothingWithheld
  BY SettledComputed, SettledNoCircle, ComputedJoined, ComputedTells, RuleTells DEF TreeSpans
<1> QED
  BY <1>1, TreeInductive, PTL
=============================================================================
