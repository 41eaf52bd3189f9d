-------------------------------- MODULE Nat --------------------------------
(***************************************************************************)
(* The address translation of Lab10 (12-nat/nat.c).  The IP thread          *)
(* translates one packet at a time (do_translation), the timeout thread     *)
(* sweeps the mappings once a second; nat.lock keeps them apart.  An        *)
(* endpoint is an address with a port.                                      *)
(*                                                                          *)
(* Of a connection's numbers only the two comparisons of is_flow_finished   *)
(* are kept: whether each side has acknowledged what the other sent.        *)
(***************************************************************************)
EXTENDS Integers, Sequences, FiniteSets

CONSTANTS
  Inside, Remote,      \* endpoints of the private and of the public network
  Buckets, Bucket,     \* hash8 of a remote endpoint
  PortMin, PortMax,    \* NAT_PORT_MIN and NAT_PORT_MAX
  Rules,               \* dnat_rules: the inside endpoint behind an external port
  Packets,             \* bound: the kinds of packets that are sent
  MaxMappings          \* bound: mappings at a time

Pool == PortMin .. PortMax - 1

\* Flags as the code tells them apart (tcph->flags == TCP_FIN, == TCP_ACK); a segment
\* is new when its sequence number is beyond what the other side has acknowledged,
\* and acks when its acknowledgement covers what the other side sent.
Packet == [flags : {"FIN", "ACK", "other"}, new : BOOLEAN, acks : BOOLEAN]

ASSUME NatConstants ==
  /\ PortMin \in Nat \ {0} /\ PortMax \in Nat
  /\ Bucket \in [Remote -> Buckets]
  /\ DOMAIN Rules \subseteq Nat \ (Pool \cup {0})
  /\ \A e \in DOMAIN Rules : Rules[e] \in Inside
  /\ Packets \subseteq Packet

VARIABLES
  nat_mapping_list,    \* the mappings of a bucket
  assigned_ports,
  sweeping             \* the timeout thread holds nat.lock

vars == <<nat_mapping_list, assigned_ports, sweeping>>

Ports == Pool \cup DOMAIN Rules \cup {0}

Mapping == [internal : Inside, external_port : Ports,
            old : BOOLEAN,                    \* made more than 60 s ago
            internal_fin : BOOLEAN, external_fin : BOOLEAN,
            internal_acked : BOOLEAN,         \* external_ack >= internal_seq_end
            external_acked : BOOLEAN]         \* internal_ack >= external_seq_end

----------------------------------------------------------------------------
NewMapping(i, e) ==
  [internal |-> i, external_port |-> e, old |-> FALSE,
   internal_fin |-> FALSE, external_fin |-> FALSE,
   internal_acked |-> TRUE, external_acked |-> TRUE]

\* The first entries of list that match, or 0: the loops of do_translation.
FirstIn(list, e) ==
  LET hits == {k \in 1..Len(list) : list[k].external_port = e}
  IN  IF hits = {} THEN 0 ELSE CHOOSE k \in hits : \A j \in hits : k <= j

FirstOut(list, i) ==
  LET hits == {k \in 1..Len(list) : list[k].internal = i}
  IN  IF hits = {} THEN 0 ELSE CHOOSE k \in hits : \A j \in hits : k <= j

\* Slip: a port is handed out without a look at assigned_ports.
AllocPortAny(ports) == IF Pool = {} THEN 0 ELSE PortMin

\* alloc_port: the first free port, 0 when there is none.
AllocPort(ports) ==
  IF Pool \subseteq ports THEN 0
  ELSE CHOOSE e \in Pool \ ports : \A f \in Pool \ ports : e <= f

\* The statistics do_translation keeps.  external_fin is set or cleared by every
\* packet, internal_fin only set.
SeenIn(m, p) ==
  [m EXCEPT !.external_fin = p.flags = "FIN",
            !.external_acked = @ /\ ~p.new,
            !.internal_acked = @ \/ (p.flags = "ACK" /\ p.acks)]

SeenOut(m, p) ==
  [m EXCEPT !.internal_fin = @ \/ p.flags = "FIN",
            !.internal_acked = @ /\ ~p.new,
            !.external_acked = @ \/ (p.flags = "ACK" /\ p.acks)]

Entries == UNION {{<<b, k>> : k \in 1..Len(nat_mapping_list[b])} : b \in Buckets}

\* Slip: list_add_head
AddHead(b, m) ==
  /\ Cardinality(Entries) < MaxMappings
  /\ nat_mapping_list' = [nat_mapping_list EXCEPT ![b] = <<m>> \o @]

\* list_add_tail of a new mapping.
Add(b, m) ==
  /\ Cardinality(Entries) < MaxMappings
  /\ nat_mapping_list' = [nat_mapping_list EXCEPT ![b] = Append(@, m)]

----------------------------------------------------------------------------
Init ==
  /\ nat_mapping_list = [b \in Buckets |-> <<>>]
  /\ assigned_ports = {}
  /\ sweeping = FALSE

\* do_translation, DIR_IN, from r to port e of the router: by a mapping of the bucket,
TranslateIn(r, e, p) ==
  LET b == Bucket[r]
      k == FirstIn(nat_mapping_list[b], e)
  IN  /\ ~sweeping /\ k # 0
      /\ nat_mapping_list' = [nat_mapping_list EXCEPT ![b][k] = SeenIn(@, p)]
      /\ UNCHANGED <<assigned_ports, sweeping>>

\* or by a dnat_rule, which makes a mapping.  Any other packet is dropped.
TranslateByRule(r, e, p) ==
  LET b == Bucket[r]
  IN  /\ ~sweeping /\ FirstIn(nat_mapping_list[b], e) = 0 /\ e \in DOMAIN Rules
      /\ Add(b, SeenIn(NewMapping(Rules[e], e), p))
      /\ UNCHANGED <<assigned_ports, sweeping>>

\* DIR_OUT, from i to r: by a mapping of the bucket,
TranslateOut(i, r, p) ==
  LET b == Bucket[r]
      k == FirstOut(nat_mapping_list[b], i)
  IN  /\ ~sweeping /\ k # 0
      /\ nat_mapping_list' = [nat_mapping_list EXCEPT ![b][k] = SeenOut(@, p)]
      /\ UNCHANGED <<assigned_ports, sweeping>>

\* or by a new one with a port of the pool.
TranslateNew(i, r, p) ==
  LET b == Bucket[r]
      e == AllocPort(assigned_ports)
  IN  /\ ~sweeping /\ FirstOut(nat_mapping_list[b], i) = 0
      /\ Add(b, SeenOut(NewMapping(i, e), p))
      /\ assigned_ports' = IF e = 0 THEN assigned_ports ELSE assigned_ports \cup {e}
      /\ UNCHANGED sweeping

\* A minute passes (bound: time goes by in minutes).
Minute ==
  /\ nat_mapping_list' =
       [b \in Buckets |-> [k \in 1..Len(nat_mapping_list[b]) |->
          [nat_mapping_list[b][k] EXCEPT !.old = TRUE]]]
  /\ UNCHANGED <<assigned_ports, sweeping>>

\* is_flow_finished
Finished(m) ==
  /\ m.internal_fin /\ m.external_fin
  /\ m.external_acked /\ m.internal_acked

\* update_time is the time the mapping was made: no packet refreshes it.
Swept(m) == m.old \/ Finished(m)

\* nat_timeout takes the lock,
SweepBegins ==
  /\ ~sweeping /\ sweeping' = TRUE
  /\ UNCHANGED <<nat_mapping_list, assigned_ports>>

Without(list, k) == [j \in 1..Len(list) - 1 |-> IF j < k THEN list[j] ELSE list[j + 1]]

\* Slip: a mapping that timed out keeps its port.
SweepOneKeepsPort(b, k) ==
  /\ sweeping /\ Swept(nat_mapping_list[b][k])
  /\ nat_mapping_list' = [nat_mapping_list EXCEPT ![b] = Without(@, k)]
  /\ assigned_ports' = IF nat_mapping_list[b][k].old THEN assigned_ports
                       ELSE assigned_ports \ {nat_mapping_list[b][k].external_port}
  /\ UNCHANGED sweeping

\* frees the mappings that are old or finished and their ports, whoever gave them,
SweepOne(b, k) ==
  /\ sweeping /\ Swept(nat_mapping_list[b][k])
  /\ nat_mapping_list' = [nat_mapping_list EXCEPT ![b] = Without(@, k)]
  /\ assigned_ports' = assigned_ports \ {nat_mapping_list[b][k].external_port}
  /\ UNCHANGED sweeping

\* and gives the lock back once none is left.
SweepEnds ==
  /\ sweeping /\ sweeping' = FALSE
  /\ \A b \in Buckets : \A k \in 1..Len(nat_mapping_list[b]) : ~Swept(nat_mapping_list[b][k])
  /\ UNCHANGED <<nat_mapping_list, assigned_ports>>

Sweep ==
  \/ SweepBegins
  \/ \E b \in Buckets : \E k \in 1..Len(nat_mapping_list[b]) : SweepOne(b, k)
  \/ SweepEnds

Next ==
  \/ \E r \in Remote, p \in Packets, e \in Ports : TranslateIn(r, e, p) \/ TranslateByRule(r, e, p)
  \/ \E r \in Remote, p \in Packets, i \in Inside : TranslateOut(i, r, p) \/ TranslateNew(i, r, p)
  \/ Minute
  \/ Sweep

\* Time goes by, and the timeout thread sweeps once a second.
Spec == Init /\ [][Next]_vars /\ WF_vars(Minute) /\ WF_vars(Sweep)

----------------------------------------------------------------------------
TypeOK ==
  /\ nat_mapping_list \in [Buckets -> Seq(Mapping)]
  /\ assigned_ports \subseteq Pool
  /\ sweeping \in BOOLEAN

\* Of lists of mappings and ports taken.
Exact(lists, ports) ==
  /\ \A e \in ports : \E b \in Buckets : \E k \in 1..Len(lists[b]) : lists[b][k].external_port = e
  /\ \A b \in Buckets : \A k \in 1..Len(lists[b]) :
       lists[b][k].external_port \in Pool => lists[b][k].external_port \in ports
  /\ \A b, c \in Buckets : \A k \in 1..Len(lists[b]) : \A j \in 1..Len(lists[c]) :
       /\ <<b, k>> # <<c, j>> /\ lists[b][k].external_port = lists[c][j].external_port
       => \/ lists[b][k].external_port = 0
          \/ lists[b][k].external_port \in DOMAIN Rules /\ b # c
  /\ \A b \in Buckets : \A k \in 1..Len(lists[b]) :
       lists[b][k].external_port \in DOMAIN Rules
         => lists[b][k].internal = Rules[lists[b][k].external_port]

\* assigned_ports is exact: a port of the pool is taken if a mapping has it, and then
\* one mapping only, in whatever bucket; the sweep gives back neither too few nor, for
\* a port that has a new owner, too many.  A port made by a rule leads where the rule
\* says and has one mapping in a bucket.
PortsExact == TypeOK /\ Exact(nat_mapping_list, assigned_ports)

\* The outside port by which an inside endpoint is seen behind a bucket.
SeenAs(list, i) == IF FirstOut(list, i) = 0 THEN 0 ELSE list[FirstOut(list, i)].external_port

\* No packet, of whatever connection, changes the port under which an inside endpoint
\* is seen while its mapping lives, not even when a rule made a second mapping for it:
\* only the sweep does.
AddressStable ==
  [][~sweeping => \A b \in Buckets, i \in Inside :
       FirstOut(nat_mapping_list[b], i) # 0
         => SeenAs(nat_mapping_list'[b], i) = SeenAs(nat_mapping_list[b], i)]_vars

\* No connection keeps a port for good, whatever its ends do or fail to do.
PortsReturned == \A e \in Pool : []<>(e \notin assigned_ports)
=============================================================================
