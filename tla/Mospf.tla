------------------------------- MODULE Mospf -------------------------------
(***************************************************************************)
(* Link-state routing of Lab9 (11-mopsf/mospf_daemon.c): neighbours found   *)
(* by hellos, LSUs flooded with 16-bit sequence numbers, a database whose   *)
(* entries age, and the routes Dijkstra's algorithm makes of it.            *)
(*                                                                          *)
(* The five threads and the IP thread share mospf_lock: a step is one hold  *)
(* of it.  The forwarding loop of handle_mospf_lsu runs after the unlock in *)
(* the IP thread; only checking_nbr_thread can come between, for a          *)
(* neighbour whose link is down, so it is part of the same step.            *)
(***************************************************************************)
EXTENDS Integers, Sequences, FiniteSets, SequencesExt, FiniteSetsExt

CONSTANTS
  Routers,
  Links,         \* pairs {a, b} of routers
  SeqRange,      \* 2^16, the width of the sequence number
  Refreshing,    \* bound: the routers that reach the end of an LSU interval
  MaxFloods,     \* bound: routers whose LSUs are spreading at one time
  MaxFaults      \* bound: cuts, restarts and lost LSUs

Far == 127     \* INT8_MAX

\* The arrays of the daemon have room for four routers; its distances are right for
\* fewer than Far.
ASSUME MospfConstants ==
  /\ IsFiniteSet(Routers) /\ Cardinality(Routers) < Far
  /\ Links \subseteq SUBSET Routers /\ \A l \in Links : Cardinality(l) = 2
  /\ Refreshing \subseteq Routers /\ SeqRange \in Nat \ {0, 1} /\ MaxFloods \in Nat \ {0} /\ MaxFaults \in Nat

VARIABLES
  nbr_list,      \* the neighbours of every router, over all interfaces
  sequence_num,  \* of the last LSU sent
  mospf_db,      \* what a router keeps of each other router
  chan,          \* LSUs under way on a link, in one direction
  up,            \* links that carry packets
  faults

vars == <<nbr_list, sequence_num, mospf_db, chan, up, faults>>

Wires == {w \in Routers \X Routers : {w[1], w[2]} \in Links}
Peers(r, links) == {n \in Routers : {r, n} \in links}

\* A database entry; missed once a refresh of its router has been due since it was
\* accepted: alive is then past 30 s, and 40 s is the end of it.
None == [seq |-> -1, adv |-> {}, missed |-> FALSE]

----------------------------------------------------------------------------
\* A router's packet to each of tos: a link that is down takes none.
Sent(ch, a, tos, m) ==
  [w \in Wires |-> IF w[1] = a /\ w[2] \in tos /\ {a, w[2]} \in up
                   THEN Append(ch[w], m) ELSE ch[w]]

\* sending_mospf_lsu: one LSU, to every neighbour, of what r has as neighbours.
Advertise(r, nbrs, ch) ==
  LET n == (sequence_num[r] + 1) % SeqRange
  IN  /\ sequence_num' = [sequence_num EXCEPT ![r] = n]
      /\ chan' = Sent(ch, r, nbrs, [rid |-> r, seq |-> n, adv |-> nbrs])

Init ==
  /\ nbr_list = [r \in Routers |-> Peers(r, Links)]
  /\ sequence_num = [r \in Routers |-> 1]
  /\ mospf_db = [r \in Routers |-> [o \in Routers |->
       IF o = r THEN None ELSE [seq |-> 1, adv |-> Peers(o, Links), missed |-> FALSE]]]
  /\ chan = [w \in Wires |-> <<>>]
  /\ up = Links /\ faults = 0

UnderWay(o) == \E w \in Wires : \E m \in Range(chan[w]) : m.rid = o

\* The bound on floods: those of r make no more than MaxFloods that have not ended,
\* the entries that missed one included.
Settled(o)  == ~UnderWay(o) /\ \A r \in Routers : ~mospf_db[r][o].missed
MayFlood(r) == Cardinality({r} \cup {o \in Routers : ~Settled(o)}) <= MaxFloods

\* handle_mospf_hello: hellos carry nothing that changes, so that sending and handling
\* are one step and only those that find a new neighbour are steps at all.
HandleHello(r, n) ==
  /\ {r, n} \in up /\ n \notin nbr_list[r] /\ MayFlood(r)
  /\ nbr_list' = [nbr_list EXCEPT ![r] = @ \cup {n}]
  /\ Advertise(r, nbr_list[r] \cup {n}, chan)
  /\ UNCHANGED <<mospf_db, up, faults>>

\* checking_nbr_thread: three hellos have failed to come.
CheckNbr(r, n) ==
  /\ n \in nbr_list[r] /\ {r, n} \notin up /\ MayFlood(r)
  /\ nbr_list' = [nbr_list EXCEPT ![r] = @ \ {n}]
  /\ Advertise(r, nbr_list[r] \ {n}, chan)
  /\ UNCHANGED <<mospf_db, up, faults>>

\* sending_mospf_lsu_thread, every 30 s.  The LSUs of the last time have arrived, and
\* the entries that missed it have ended: they last 40 s.
SendLsu(o) ==
  /\ Settled(o) /\ MayFlood(o)
  /\ mospf_db' = [r \in Routers |->
       [mospf_db[r] EXCEPT ![o].missed = mospf_db[r][o] # None]]
  /\ Advertise(o, nbr_list[o], chan)
  /\ UNCHANGED <<nbr_list, up, faults>>

\* Slip: a router without an entry is not taken in.
NewerKnown(r, m) == mospf_db[r][m.rid] # None /\ mospf_db[r][m.rid].seq < m.seq

\* Slip: an equal number counts as newer.
NewerOrSame(r, m) == mospf_db[r][m.rid].seq <= m.seq

\* An LSU of a router that r knows nothing of, or with a higher number than it has.
Newer(r, m) == mospf_db[r][m.rid].seq < m.seq

\* handle_mospf_lsu: a newer LSU replaces the entry and goes on to every neighbour but
\* its originator, the one it came from included; the others are dropped.
HandleLsu(a, r) ==
  LET m    == Head(chan[<<a, r>>])
      rest == [chan EXCEPT ![<<a, r>>] = Tail(@)]
  IN  /\ chan[<<a, r>>] # <<>>
      /\ IF Newer(r, m)
         THEN /\ mospf_db' = [mospf_db EXCEPT ![r][m.rid] =
                                [seq |-> m.seq, adv |-> m.adv, missed |-> FALSE]]
              /\ chan' = Sent(rest, r, nbr_list[r] \ {m.rid}, m)
         ELSE chan' = rest /\ UNCHANGED mospf_db
      /\ UNCHANGED <<nbr_list, sequence_num, up, faults>>

\* 40 s without a newer LSU: one refresh was missed, and is not on its way.
Aged(r, o) == mospf_db[r][o].missed /\ ~UnderWay(o)

\* checking_database_thread
CheckDatabase(r, o) ==
  /\ Aged(r, o)
  /\ mospf_db' = [mospf_db EXCEPT ![r][o] = None]
  /\ UNCHANGED <<nbr_list, sequence_num, chan, up, faults>>

----------------------------------------------------------------------------
\* Faults.  A link breaks with what is on it, and may come back at any time;
Cut(l) ==
  /\ faults < MaxFaults /\ faults' = faults + 1
  /\ up' = up \ {l}
  /\ chan' = [w \in Wires |-> IF {w[1], w[2]} = l THEN <<>> ELSE chan[w]]
  /\ UNCHANGED <<nbr_list, sequence_num, mospf_db>>

Mend(l) ==
  /\ l \notin up
  /\ up' = up \cup {l}
  /\ UNCHANGED <<nbr_list, sequence_num, mospf_db, chan, faults>>

\* a router starts again, before its neighbours miss it (mospf_init);
Restart(r) ==
  /\ faults < MaxFaults /\ faults' = faults + 1
  /\ nbr_list' = [nbr_list EXCEPT ![r] = {}]
  /\ sequence_num' = [sequence_num EXCEPT ![r] = 0]
  /\ mospf_db' = [mospf_db EXCEPT ![r] = [o \in Routers |-> None]]
  /\ chan' = [w \in Wires |-> IF w[2] = r THEN <<>> ELSE chan[w]]
  /\ UNCHANGED up

\* an LSU is lost.
Lose(w) ==
  /\ faults < MaxFaults /\ faults' = faults + 1
  /\ chan[w] # <<>> /\ chan' = [chan EXCEPT ![w] = Tail(@)]
  /\ UNCHANGED <<nbr_list, sequence_num, mospf_db, up>>

Next ==
  \/ \E r, n \in Routers : HandleHello(r, n) \/ CheckNbr(r, n) \/ CheckDatabase(r, n)
  \/ \E r \in Refreshing : SendLsu(r)
  \/ \E r \in Routers : Restart(r)
  \/ \E w \in Wires : HandleLsu(w[1], w[2]) \/ Lose(w)
  \/ \E l \in Links : Cut(l) \/ Mend(l)

\* The threads run and what the links carry is handled.  A router floods by its own clock
\* and hellos: only MaxFloods makes it wait for others, so that it cannot be put off.
Fairness ==
  /\ \A r \in Refreshing : SF_vars(SendLsu(r))
  /\ SF_vars(\E r, n \in Routers : HandleHello(r, n) \/ CheckNbr(r, n))
  /\ WF_vars(\E w \in Wires : HandleLsu(w[1], w[2]))
  /\ WF_vars(\E r, o \in Routers : CheckDatabase(r, o))

Spec == Init /\ [][Next]_vars /\ Fairness

----------------------------------------------------------------------------
\* init_graph: the edges the entries of r name.  Its own neighbours are not looked at.
\* A neighbour without an entry has index -1: the store lands in a cell of the row
\* before, or in front of the graph, that nothing reads.
Listed(r)   == {o \in Routers : mospf_db[r][o] # None} \cup {r}
Edges(r)    == {e \in Listed(r) \X Listed(r) :
                  e[2] \in mospf_db[r][e[1]].adv \/ e[1] \in mospf_db[r][e[2]].adv}

\* Slip: the first router not visited.
MinDistFirst(list, st) ==
  CHOOSE i \in 1..Len(list) :
    /\ list[i] \notin st.visited
    /\ \A j \in 1..(i - 1) : list[j] \in st.visited

\* min_dist: of the routers not visited the nearest, the first of them in router_list.
MinDist(list, st) ==
  CHOOSE i \in 1..Len(list) :
    /\ list[i] \notin st.visited
    /\ \A j \in 1..Len(list) : list[j] \notin st.visited =>
         \/ st.dist[list[i]] < st.dist[list[j]]
         \/ st.dist[list[i]] = st.dist[list[j]] /\ i <= j

\* One round of Dijkstra.
Visit(list, edges, st) ==
  LET u      == list[MinDist(list, st)]
      closer == {v \in Range(list) \ (st.visited \cup {u}) :
                   <<u, v>> \in edges /\ st.dist[u] + 1 < st.dist[v]}
  IN  [visited |-> st.visited \cup {u},
       dist |-> [v \in Range(list) |-> IF v \in closer THEN st.dist[u] + 1 ELSE st.dist[v]],
       prev |-> [v \in Range(list) |-> IF v \in closer THEN u ELSE st.prev[v]]]

\* Dijkstra over router_list: r, then the database in the order of its list.
Dijkstra(r, list) ==
  LET rounds[k \in 0..Len(list)] ==
        IF k = 0 THEN [visited |-> {},
                       dist |-> [v \in Range(list) |-> IF v = r THEN 0 ELSE Far],
                       prev |-> [v \in Range(list) |-> v]]
        ELSE Visit(list, Edges(r), rounds[k - 1])
  IN  rounds[Len(list)]

\* generate_rtable_thread: back along prev to the router next to r, which is the gateway
\* of the networks of o if it is a neighbour.
NextHop(r, o, tree) ==
  LET back[k \in 0..Cardinality(Routers)] ==
        IF k = 0 THEN o
        ELSE LET t == back[k - 1] IN IF tree.prev[t] = r THEN t ELSE tree.prev[t]
      last == back[Cardinality(Routers)]
  IN  IF tree.prev[last] = r THEN {last} \cap nbr_list[r] ELSE {}

----------------------------------------------------------------------------
TypeOK ==
  /\ nbr_list \in [Routers -> SUBSET Routers]
  /\ sequence_num \in [Routers -> 0..(SeqRange - 1)]
  /\ \A r, o \in Routers : LET e == mospf_db[r][o] IN
       e = None \/ (e.seq \in 0..(SeqRange - 1) /\ e.adv \subseteq Routers)
  /\ \A w \in Wires : \A m \in Range(chan[w]) : m.rid # w[2] /\ m.rid \in Routers

\* The routers within k links of o.
Within(o) ==
  LET ball[k \in Nat] ==
        IF k = 0 THEN {o} ELSE LET near == ball[k - 1]
                               IN  near \cup UNION {Peers(u, up) : u \in near}
  IN  ball

Connected(r, o) == o \in Within(r)[Cardinality(Routers)]
Distance(r, o)  == CHOOSE k \in 0..Cardinality(Routers) :
                     r \in Within(o)[k] /\ \A j \in 0..(k - 1) : r \notin Within(o)[j]

\* What r keeps of o is what is true of o now, and nothing if o cannot be reached.
EntryRight(r, o) ==
  IF Connected(r, o) THEN mospf_db[r][o] # None /\ mospf_db[r][o].adv = Peers(o, up)
                     ELSE mospf_db[r][o] = None

Agreed == \A r \in Routers : /\ nbr_list[r] = Peers(r, up)
                             /\ \A o \in Routers \ {r} : EntryRight(r, o)

\* With databases that are right, every route leads one step nearer to its end by the
\* links that are up, in whatever order the entries came into the lists: packets
\* go round no loop, although routers break ties by lists of their own.
RoutesShortest ==
  /\ TypeOK
  /\ Agreed => \A r \in Routers : \A order \in SetToSeqs(Listed(r) \ {r}) :
       LET tree == Dijkstra(r, <<r>> \o order)
       IN  \A o \in Listed(r) \ {r} : \E h \in NextHop(r, o, tree) :
             Distance(h, o) = Distance(r, o) - 1

\* A flood ends: in a ring of links an LSU comes back to routers that have it, and
\* is not sent round again, unless the router has started again in between.  No link
\* carries it twice.
FloodOnce ==
  \A w \in Wires : \A m \in Range(chan[w]) :
    Cardinality({k \in 1..Len(chan[w]) : chan[w][k] = m}) <= 1 + faults

\* When the faults are over every entry becomes right again and again: a restarted
\* router's low numbers, a lost LSU and the numbers' wrap are healed by age.
EntriesHeal == \A o \in Refreshing : \A r \in Routers \ {o} : []<>EntryRight(r, o)
=============================================================================
