-------------------------------- MODULE Stp --------------------------------
(***************************************************************************)
(* The spanning tree protocol of Lab5 (06-stp/stp.c).  A port is a pair of  *)
(* a switch and a number.  Two threads run in a switch, the IP thread       *)
(* (stp_port_handle_packet) and the timer thread (hello); stp->lock makes   *)
(* each handler one step.                                                   *)
(*                                                                          *)
(* iface_send_packet drops whatever leaves through an ALTERNATE port, the   *)
(* protocol's own configs too.                                              *)
(***************************************************************************)
EXTENDS Integers, Sequences

CONSTANTS
  Switches,      \* switch_id of every switch
  nports,        \* ports of every switch
  Hosts,
  Peer,          \* what the other end of a port's cable is: a port or a host
  MaxHellos      \* bound: times the hello timer of a switch expires

PortSet == UNION {{<<s, i>> : i \in 1..nports[s]} : s \in Switches}

ASSUME StpConstants ==
  /\ Switches \subseteq Nat /\ Switches # {}
  /\ nports \in [Switches -> Nat \ {0}]
  /\ Peer \in [PortSet -> PortSet \cup Hosts]
  /\ MaxHellos \in Nat
  /\ \A p \in PortSet : Peer[p] \in PortSet => Peer[p][1] # p[1] /\ Peer[Peer[p]] = p

VARIABLES
  config,        \* designated_root, _cost, _switch and _port of every port
  designated_root, root_path_cost,
  root_port,     \* number of the root port, 0 for NULL
  hello_timer,   \* hello_timer.active
  hellos,        \* times it has expired
  link           \* configs on their way to a port

swVars  == <<config, designated_root, root_path_cost, root_port>>
stpVars == <<swVars, hello_timer, hellos, link>>

Config == [root : Switches, cost : Nat, switch : Switches, port : Nat]

----------------------------------------------------------------------------
\* config_packet_priority_cmp and port_priority_cmp: c has higher priority than d.
Better(c, d) ==
  \/ c.root < d.root
  \/ c.root = d.root /\ c.cost < d.cost
  \/ c.root = d.root /\ c.cost = d.cost /\ c.switch < d.switch
  \/ c.root = d.root /\ c.cost = d.cost /\ c.switch = d.switch /\ c.port < d.port

\* stp_port_is_designated
Designated(cfg, p) == cfg[p].switch = p[1] /\ cfg[p].port = p[2]

\* Slip: a switch with a root port sends through any port.
AlternateNone(cfg, rp, p) == rp[p[1]] = 0 /\ ~Designated(cfg, p)

\* stp_port_state is "ALTERNATE"
Alternate(cfg, rp, p) == rp[p[1]] # p[2] /\ ~Designated(cfg, p)

\* update_stp_status: the first of the best ports that are not designated, if any.
BestPort(cfg, s) ==
  LET heard == {i \in 1..nports[s] : ~Designated(cfg, <<s, i>>)}
      best  == {i \in heard : \A j \in heard : ~Better(cfg[<<s, j>>], cfg[<<s, i>>])}
  IN  IF heard = {} THEN 0 ELSE CHOOSE i \in best : \A j \in best : i <= j

RootBy(cfg, s, rp) == IF rp = 0 THEN s ELSE cfg[<<s, rp>>].root

\* Slip: path_cost is not added.
CostByPeer(cfg, s, rp) == IF rp = 0 THEN 0 ELSE cfg[<<s, rp>>].cost

\* Every port's path_cost is 1.
CostBy(cfg, s, rp) == IF rp = 0 THEN 0 ELSE cfg[<<s, rp>>].cost + 1

\* Slip: the ports keep the root and the cost they had.
UpdatePortsNot(cfg, s, rp, root, cost) == cfg

\* update_port_config: a designated port takes the switch's new root and cost.  Of
\* the others only one that ties with the root port has no better one beside it:
\* that port becomes designated.
UpdatePorts(cfg, s, rp, root, cost) ==
  [p \in PortSet |->
     IF p[1] # s THEN cfg[p]
     ELSE IF Designated(cfg, p) THEN [cfg[p] EXCEPT !.root = root, !.cost = cost]
     ELSE IF p[2] # rp /\ ~Better(cfg[<<s, rp>>], cfg[p])
          THEN [cfg[p] EXCEPT !.switch = s, !.port = p[2]]
     ELSE cfg[p]]

\* A config equal to the last one under way is that one: the receiver would do the
\* same again.  (Bound; see README.)
Enqueue(q, m) == IF q # <<>> /\ q[Len(q)] = m THEN q ELSE Append(q, m)

\* stp_port_send_config through the ports in from, with the state the switch has
\* after the step; taken is link with the config at hand removed.
Sending(taken, s, from) ==
  LET out == {p \in from : /\ designated_root'[s] = s \/ root_port'[s] # 0
                           /\ ~Alternate(config', root_port', p)}
  IN  [q \in PortSet |->
         IF Peer[q] \in out
         THEN Enqueue(taken[q], [root |-> designated_root'[s], cost |-> root_path_cost'[s],
                                 switch |-> s, port |-> Peer[q][2]])
         ELSE taken[q]]

\* stp_send_config goes through the designated ports.
DesignatedPorts(s) == {p \in {s} \X (1..nports[s]) : Designated(config', p)}

Taken(p) == [link EXCEPT ![p] = Tail(@)]

\* Slip: any config of a root that is no worse.
SuperiorRoot(p) == Head(link[p]).root <= config[p].root

\* The config at hand replaces the port's own.
Superior(p) == Better(Head(link[p]), config[p])

----------------------------------------------------------------------------
StpInit ==
  /\ config = [p \in PortSet |-> [root |-> p[1], cost |-> 0, switch |-> p[1], port |-> p[2]]]
  /\ designated_root = [s \in Switches |-> s]
  /\ root_path_cost = [s \in Switches |-> 0]
  /\ root_port = [s \in Switches |-> 0]
  /\ hello_timer = [s \in Switches |-> TRUE]
  /\ hellos = [s \in Switches |-> 0]
  /\ link = [p \in PortSet |-> <<>>]

\* stp_handle_hello_timeout; the timer is started again.
Hello(s) ==
  /\ hello_timer[s] /\ hellos[s] < MaxHellos
  /\ hellos' = [hellos EXCEPT ![s] = @ + 1]
  /\ UNCHANGED <<swVars, hello_timer>>
  /\ link' = Sending(link, s, DesignatedPorts(s))

\* stp_handle_config_packet with a better config than the port's
AcceptConfig(p) ==
  /\ link[p] # <<>>
  /\ Superior(p)
  /\ LET s     == p[1]
         heard == [config EXCEPT ![p] = Head(link[p])]
         rp    == BestPort(heard, s)
     IN  /\ root_port' = [root_port EXCEPT ![s] = rp]
         /\ designated_root' = [designated_root EXCEPT ![s] = RootBy(heard, s, rp)]
         /\ root_path_cost' = [root_path_cost EXCEPT ![s] = CostBy(heard, s, rp)]
         /\ config' = UpdatePorts(heard, s, rp, designated_root'[s], root_path_cost'[s])
         /\ hello_timer' = [hello_timer EXCEPT ![s] = @ /\ designated_root'[s] = s]
         /\ UNCHANGED hellos
         /\ link' = Sending(Taken(p), s, DesignatedPorts(s))

\* ... and with any other: the port's own switch answers, designated or not.
ReplyConfig(p) ==
  /\ link[p] # <<>>
  /\ ~Superior(p)
  /\ UNCHANGED <<swVars, hello_timer, hellos>>
  /\ link' = Sending(Taken(p), p[1], {p})

StpNext ==
  \/ \E s \in Switches : Hello(s)
  \/ \E p \in PortSet : AcceptConfig(p) \/ ReplyConfig(p)
=============================================================================
