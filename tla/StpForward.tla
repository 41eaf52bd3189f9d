----------------------------- MODULE StpForward -----------------------------
(***************************************************************************)
(* Lab5 with the learning switch of Lab4 merged in (06-stp/main.c, mac.c):  *)
(* the switches build the tree (Stp), then carry frames between the hosts.  *)
(* A frame is known by its number, its place by the port it travels to or   *)
(* the host it has reached.                                                 *)
(***************************************************************************)
EXTENDS Stp, FiniteSets

CONSTANTS MaxFrames,      \* bound: frames the hosts send
          MaxAged,        \* bound: times a host's entries time out
          Staggered       \* TRUE: each switch sweeps at its own time

VARIABLES mac_port_map,   \* port number of a host's address in a switch, 0 for none
          frames,         \* copies under way
          sent,           \* frames sent so far
          arrived,        \* numbers of the frames a host took, with the taker
          aged

ASSUME ForwardConstants ==
  /\ IsFiniteSet(Switches) /\ MaxFrames \in Nat
  /\ \A h \in Hosts : \E p \in PortSet : Peer[p] = h

fwdVars == <<mac_port_map, frames, sent, arrived, aged>>
vars    == <<stpVars, fwdVars>>

Frame == [src : Hosts, dst : Hosts, no : 1..MaxFrames, to : PortSet]

----------------------------------------------------------------------------
\* What the protocol has to compute, from the cables alone.
Neighbours(s) == {q[1] : q \in {Peer[<<s, i>>] : i \in 1..nports[s]} \cap PortSet}

RootSwitch == CHOOSE r \in Switches : \A s \in Switches : r <= s

\* Switches at most n cables from the root.
Within[n \in 0..Cardinality(Switches)] ==
  IF n = 0 THEN {RootSwitch} ELSE Within[n - 1] \cup UNION {Neighbours(s) : s \in Within[n - 1]}

RootDistance ==
  [s \in Switches |-> CHOOSE n \in DOMAIN Within :
                        s \in Within[n] /\ (n > 0 => s \notin Within[n - 1])]

\* Every switch knows the root and how far it is.
Computed ==
  \A s \in Switches :
    /\ designated_root[s] = RootSwitch
    /\ root_path_cost[s] = RootDistance[s]

\* stp_port_send_config: what p says next.
Spoken(p) == [root |-> designated_root[p[1]], cost |-> root_path_cost[p[1]],
              switch |-> p[1], port |-> p[2]]

\* No config will change a port any more: neither one under way nor one that the
\* port at the other end may send next.
Settled ==
  \A p \in PortSet :
    /\ \A k \in 1..Len(link[p]) : ~Better(link[p][k], config[p])
    /\ Peer[p] \in PortSet /\ ~Alternate(config, root_port, Peer[p])
         => ~Better(Spoken(Peer[p]), config[p])

\* What an ALTERNATE port keeps back would not change the root or the cost of the switch
\* at the other end.
NothingWithheld ==
  \A p \in PortSet : Alternate(config, root_port, p) /\ Peer[p] \in PortSet =>
    LET s == p[1]
        t == Peer[p][1]
    IN  \/ designated_root[t] < designated_root[s]
        \/ designated_root[t] = designated_root[s] /\ root_path_cost[t] <= root_path_cost[s] + 1

\* The cables that carry frames.
Active(p) ==
  /\ Peer[p] \in PortSet
  /\ ~Alternate(config, root_port, p) /\ ~Alternate(config, root_port, Peer[p])

\* Switches a frame leaving through p can come to.
Beyond(p) ==
  LET Step(S) == S \cup {Peer[q][1] : q \in {q \in PortSet :
                   q[1] \in S /\ Active(q) /\ Peer[q] # p}}
      reach[n \in 0..Cardinality(Switches)] ==
        IF n = 0 THEN (IF Active(p) THEN {Peer[p][1]} ELSE {}) ELSE Step(reach[n - 1])
  IN  reach[Cardinality(Switches)]

PortOf(h) == CHOOSE p \in PortSet : Peer[p] = h

----------------------------------------------------------------------------
\* iface_send_packet of frame f through the ports in out: an ALTERNATE one drops
\* it, a host at the other end takes it if it is meant for it.
Copies(f, out) ==
  {[f EXCEPT !.to = Peer[p]] : p \in {p \in out :
      ~Alternate(config, root_port, p) /\ Peer[p] \in PortSet}}

Delivered(f, out) ==
  {<<f.no, Peer[p]>> : p \in {p \in out :
      ~Alternate(config, root_port, p) /\ Peer[p] = f.dst}}

LookupPort(s, h) == mac_port_map[s][h]

InsertMacPort(s, h, i) == mac_port_map' = [mac_port_map EXCEPT ![s][h] = i]

\* Slip: no interface is spared.
BroadcastAll(p) == {<<p[1], i>> : i \in 1..nports[p[1]]}

\* broadcast_packet: the interfaces but the one the frame came in by.
Broadcast(p) == {<<p[1], i>> : i \in (1..nports[p[1]]) \ {p[2]}}

OutPorts(p, h) ==
  IF LookupPort(p[1], h) # 0 THEN {<<p[1], LookupPort(p[1], h)>>} ELSE Broadcast(p)

\* handle_packet of a frame that is not a config: it is sent on, then its source
\* learnt; one that comes in through an ALTERNATE port is dropped.
HandleFrame(f) ==
  LET p == f.to
  IN  /\ f \in frames
      /\ IF Alternate(config, root_port, p)
         THEN /\ frames' = frames \ {f}
              /\ UNCHANGED <<arrived, mac_port_map>>
         ELSE LET out == OutPorts(p, f.dst)
              IN  /\ frames' = (frames \ {f}) \cup Copies(f, out)
                  /\ arrived' = arrived \cup Delivered(f, out)
                  /\ InsertMacPort(p[1], f.src, p[2])
      /\ UNCHANGED <<stpVars, sent, aged>>

\* A host sends once the tree is built (the hosts are started by hand after the
\* switches have settled).  Bound: configs, which change no switch from then on
\* (TreeFound), are left aside once frames are sent.
HostSends(h, d) ==
  /\ h # d /\ sent < MaxFrames
  /\ Settled
  /\ frames' = frames \cup {[src |-> h, dst |-> d, no |-> sent + 1, to |-> PortOf(h)]}
  /\ sent' = sent + 1
  /\ link' = [p \in PortSet |-> <<>>]
  /\ hellos' = [s \in Switches |-> MaxHellos]
  /\ UNCHANGED <<swVars, hello_timer, mac_port_map, arrived, aged>>

\* sweep_aged_mac_port_entry, 30 s after h's last frame.  The sweeps of the switches
\* are up to a second apart: with Staggered they are steps of their own, without it
\* no frame travels between them.
SweepAged(h) ==
  LET known == {s \in Switches : mac_port_map[s][h] # 0}
  IN  /\ aged < MaxAged /\ frames = {} /\ known # {}
      /\ aged' = aged + 1
      /\ \E S \in IF Staggered THEN {{s} : s \in known} ELSE {known} :
           mac_port_map' = [s \in Switches |-> IF s \in S THEN [mac_port_map[s] EXCEPT ![h] = 0]
                                              ELSE mac_port_map[s]]
      /\ UNCHANGED <<stpVars, frames, sent, arrived>>

Init ==
  /\ StpInit
  /\ mac_port_map = [s \in Switches |-> [h \in Hosts |-> 0]]
  /\ frames = {} /\ sent = 0 /\ arrived = {} /\ aged = 0

Next ==
  \/ sent = 0 /\ StpNext /\ UNCHANGED fwdVars
  \/ \E f \in frames : HandleFrame(f)
  \/ \E h, d \in Hosts : HostSends(h, d)
  \/ \E h \in Hosts : SweepAged(h)

\* The timer thread looks at its timer every 100 microseconds, the IP thread polls
\* the ports in turn and takes every frame off them.
Fairness ==
  /\ \A s \in Switches : WF_vars(sent = 0 /\ Hello(s) /\ UNCHANGED fwdVars)
  /\ \A p \in {q \in PortSet : Peer[q] \in PortSet} :
       WF_vars(sent = 0 /\ (AcceptConfig(p) \/ ReplyConfig(p)) /\ UNCHANGED fwdVars)
  /\ WF_vars(\E f \in frames : HandleFrame(f))

Spec == Init /\ [][Next]_vars /\ Fairness

----------------------------------------------------------------------------
TypeOK ==
  /\ config \in [PortSet -> Config]
  /\ designated_root \in [Switches -> Switches]
  /\ root_path_cost \in [Switches -> Nat]
  /\ \A s \in Switches : root_port[s] \in 0..nports[s]
  /\ hello_timer \in [Switches -> BOOLEAN]
  /\ hellos \in [Switches -> 0..MaxHellos]
  /\ \A p \in PortSet : \A k \in 1..Len(link[p]) : link[p][k] \in Config
  /\ \A s \in Switches : \A h \in Hosts : mac_port_map[s][h] \in 0..nports[s]
  /\ frames \subseteq Frame

\* A switch speaks for its root: the port it calls root port has heard of that root
\* at one hop less, and following root ports from switch to switch never returns (a
\* neighbour's present belief is at least as good as what this switch once heard of
\* it), so no two switches ever wait on each other for the way to the root.
RootPathsDescend ==
  /\ TypeOK
  /\ \A s \in Switches :
       IF root_port[s] = 0 THEN designated_root[s] = s /\ root_path_cost[s] = 0
       ELSE LET p == <<s, root_port[s]>>
                t == config[p].switch
            IN  /\ Peer[p] = <<t, config[p].port>>
                /\ config[p].root = designated_root[s] /\ config[p].cost + 1 = root_path_cost[s]
                /\ \/ designated_root[t] < designated_root[s]
                   \/ designated_root[t] = designated_root[s] /\ root_path_cost[t] < root_path_cost[s]

\* What a switch believes of the root only gets better, whatever the order in which
\* configs arrive and however old they are (update_stp_status starts from all ports).
BeliefImproves ==
  [][\A s \in Switches :
       \/ designated_root'[s] < designated_root[s]
       \/ designated_root'[s] = designated_root[s] /\ root_path_cost'[s] <= root_path_cost[s]]_stpVars

\* The report's rule for update_port_config: a port that is not designated becomes it when
\* its switch has better to say on the cable.  (The code asks whether the port has heard the
\* best config of the switch's ports, which only the root port has.)
BetterPortDesignated ==
  \A p \in PortSet : Alternate(config, root_port, p) => ~Better(Spoken(p), config[p])

\* No frame that leaves a switch comes back by another way.
NoCircle == \A p \in PortSet : Active(p) => p[1] \notin Beyond(p)

AllJoined ==
  \A s \in Switches : {s} \cup UNION {Beyond(<<s, i>>) : i \in 1..nports[s]} = Switches

\* Once configs change nothing any more, the cables in use form a tree: every pair of
\* switches is joined, and by one way.
TreeSpans == Settled => NoCircle /\ AllJoined

\* The protocol settles, for ever, on the least switch and the distances to it.
TreeFound == <>[](Settled /\ Computed)

\* Every frame sent reaches the host it is for, whether the switches know the host,
\* have forgotten it or flood.
FramesArrive == []<>(\A n \in 1..sent : \E h \in Hosts : <<n, h>> \in arrived)

\* No storm: the frames of the hosts come to an end.  (Staggered sweeps break it: a
\* switch that has just forgotten a host floods a frame for it, the neighbour that has
\* not sends it back, and each learns the source on the other's side.)
FramesLeave == <>[](frames = {})
=============================================================================
