----------------------------- MODULE NatProofs -----------------------------
(***************************************************************************)
(* Proofs about Nat, for every pool, every set of rules, endpoints, buckets *)
(* and packets, and every number of mappings.                               *)
(***************************************************************************)
EXTENDS Nat, WellFoundedInduction, TLAPS

\* What a list of mappings is to Exact.
SameEnds(m, n) == m.external_port = n.external_port /\ m.internal = n.internal

NoneHas(list, e) == \A k \in 1..Len(list) : list[k].external_port # e

-----------------------------------------------------------------------------
\* Statistics and ages do not matter.
LEMMA KeptExact ==
  ASSUME NEW L1 \in [Buckets -> Seq(Mapping)], NEW L2 \in [Buckets -> Seq(Mapping)],
         NEW ports, Exact(L1, ports),
         \A b \in Buckets : Len(L2[b]) = Len(L1[b]),
         \A b \in Buckets : \A k \in 1..Len(L1[b]) : SameEnds(L1[b][k], L2[b][k])
  PROVE  Exact(L2, ports)
<1>1. \A b \in Buckets : 1..Len(L2[b]) = 1..Len(L1[b])
  OBVIOUS
<1>2. \A b \in Buckets : \A k \in 1..Len(L1[b]) :
        /\ L2[b][k].external_port = L1[b][k].external_port
        /\ L2[b][k].internal = L1[b][k].internal
  BY DEF SameEnds
<1>3. \A e \in ports : \E b \in Buckets : \E k \in 1..Len(L2[b]) : L2[b][k].external_port = e
  BY <1>1, <1>2 DEF Exact
<1>4. \A b, c \in Buckets : \A k \in 1..Len(L2[b]) : \A j \in 1..Len(L2[c]) :
        /\ <<b, k>> # <<c, j>> /\ L2[b][k].external_port = L2[c][j].external_port
        => \/ L2[b][k].external_port = 0
           \/ L2[b][k].external_port \in DOMAIN Rules /\ b # c
  BY <1>1, <1>2 DEF Exact
<1>5. \A b \in Buckets : \A k \in 1..Len(L2[b]) :
        /\ L2[b][k].external_port \in Pool => L2[b][k].external_port \in ports
        /\ L2[b][k].external_port \in DOMAIN Rules
             => L2[b][k].internal = Rules[L2[b][k].external_port]
  BY <1>1, <1>2 DEF Exact
<1>6. QED
  BY <1>3, <1>4, <1>5 DEF Exact

\* A mapping may be appended with port 0, with a free port of the pool, which is then
\* taken, or with a rule's port that the bucket does not have.
LEMMA AddedExact ==
  ASSUME NatConstants,
         NEW L1 \in [Buckets -> Seq(Mapping)], NEW ports \in SUBSET Pool, Exact(L1, ports),
         NEW c \in Buckets, NEW m \in Mapping, NEW taken,
         \/ m.external_port = 0 /\ taken = ports
         \/ m.external_port \in Pool \ ports /\ taken = ports \cup {m.external_port}
         \/ /\ m.external_port \in DOMAIN Rules /\ taken = ports
            /\ m.internal = Rules[m.external_port]
            /\ NoneHas(L1[c], m.external_port)
  PROVE  Exact([L1 EXCEPT ![c] = Append(@, m)], taken)
<1> DEFINE L2 == [L1 EXCEPT ![c] = Append(@, m)]
           e  == m.external_port
           last == Len(L1[c]) + 1
<1>1. /\ \A b \in Buckets : Len(L1[b]) \in Nat
      /\ \A b \in Buckets \ {c} : L2[b] = L1[b]
      /\ Len(L2[c]) = last
      /\ \A k \in 1..Len(L1[c]) : L2[c][k] = L1[c][k]
      /\ L2[c][last] = m
  <2>1. \A b \in Buckets : L1[b] \in Seq(Mapping)
    OBVIOUS
  <2>2. L2[c] = Append(L1[c], m) /\ \A b \in Buckets \ {c} : L2[b] = L1[b]
    OBVIOUS
  <2>3. L1[c] \in Seq(Mapping) /\ Len(L1[c]) \in Nat
    BY <2>1
  <2>4. QED
    BY <2>1, <2>2, <2>3
<1>2. 0 \notin Pool /\ 0 \notin DOMAIN Rules /\ \A f \in DOMAIN Rules : f \notin Pool
  BY DEF NatConstants, Pool
<1> HIDE DEF L2
<1>3. ASSUME NEW b \in Buckets, NEW k \in 1..Len(L2[b])
      PROVE  \/ k \in 1..Len(L1[b]) /\ L2[b][k] = L1[b][k]
             \/ b = c /\ k = last /\ L2[b][k] = m
  <2>1. CASE b = c
    <3>1. k \in 1..Len(L1[c]) \/ k = last
      BY <1>1, <2>1
    <3>2. QED
      BY <1>1, <2>1, <3>1
  <2>2. CASE b # c
    BY <1>1, <2>2
  <2>3. QED
    BY <2>1, <2>2
<1>4. ASSUME NEW b \in Buckets, NEW k \in 1..Len(L1[b])
      PROVE  k \in 1..Len(L2[b]) /\ L2[b][k] = L1[b][k]
  <2>1. CASE b = c
    BY <1>1, <2>1
  <2>2. CASE b # c
    BY <1>1, <2>2
  <2>3. QED
    BY <2>1, <2>2
<1>5. last \in 1..Len(L2[c])
  BY <1>1
<1> HIDE DEF last
<1>6. ASSUME NEW f \in taken
      PROVE  \E b \in Buckets : \E k \in 1..Len(L2[b]) : L2[b][k].external_port = f
  <2>1. CASE f \in ports
    <3>1. PICK b \in Buckets : \E k \in 1..Len(L1[b]) : L1[b][k].external_port = f
      BY <2>1 DEF Exact
    <3>2. PICK k \in 1..Len(L1[b]) : L1[b][k].external_port = f
      BY <3>1
    <3>3. QED
      BY <1>4, <3>2
  <2>2. CASE f = e
    BY <1>1, <1>5, <2>2
  <2>3. QED
    BY <1>6, <2>1, <2>2
<1>7. ASSUME NEW b \in Buckets, NEW k \in 1..Len(L2[b])
      PROVE  /\ L2[b][k].external_port \in Pool => L2[b][k].external_port \in taken
             /\ L2[b][k].external_port \in DOMAIN Rules
                  => L2[b][k].internal = Rules[L2[b][k].external_port]
  <2>1. CASE k \in 1..Len(L1[b]) /\ L2[b][k] = L1[b][k]
    <3>1. ports \subseteq taken
      OBVIOUS
    <3>2. QED
      BY <2>1, <3>1 DEF Exact
  <2>2. CASE L2[b][k] = m
    BY <1>2, <2>2
  <2>3. QED
    BY <1>3, <2>1, <2>2
\* A mapping with the port of m in the same bucket, or in any if it is m's own.
<1>8. ASSUME NEW b \in Buckets, NEW k \in 1..Len(L1[b]), L1[b][k].external_port = e
      PROVE  e = 0 \/ (e \in DOMAIN Rules /\ b # c)
  <2>1. e \in Pool => e \in ports
    BY <1>8 DEF Exact
  <2>2. CASE e \in Pool \ ports
    BY <2>1, <2>2
  <2>3. CASE e \in DOMAIN Rules /\ NoneHas(L1[c], e)
    BY <1>8, <2>3 DEF NoneHas
  <2>4. QED
    BY <2>2, <2>3
<1>9. \A b, d \in Buckets : \A k \in 1..Len(L2[b]) : \A j \in 1..Len(L2[d]) :
        /\ <<b, k>> # <<d, j>> /\ L2[b][k].external_port = L2[d][j].external_port
        => \/ L2[b][k].external_port = 0
           \/ L2[b][k].external_port \in DOMAIN Rules /\ b # d
  <2> TAKE b, d \in Buckets
  <2> TAKE k \in 1..Len(L2[b])
  <2> TAKE j \in 1..Len(L2[d])
  <2>0. HAVE <<b, k>> # <<d, j>> /\ L2[b][k].external_port = L2[d][j].external_port
  <2>1. CASE k \in 1..Len(L1[b]) /\ L2[b][k] = L1[b][k] /\ j \in 1..Len(L1[d]) /\ L2[d][j] = L1[d][j]
    <3>1. L1[b][k].external_port = L1[d][j].external_port
      BY <2>0, <2>1
    <3>2. \/ L1[b][k].external_port = 0
          \/ L1[b][k].external_port \in DOMAIN Rules /\ b # d
      BY <2>0, <2>1, <3>1 DEF Exact
    <3>3. QED
      BY <2>1, <3>2
  <2>2. CASE b = c /\ k = last /\ L2[b][k] = m /\ j \in 1..Len(L1[d]) /\ L2[d][j] = L1[d][j]
    BY <1>8, <2>0, <2>2
  <2>3. CASE k \in 1..Len(L1[b]) /\ L2[b][k] = L1[b][k] /\ d = c /\ j = last /\ L2[d][j] = m
    BY <1>8, <2>0, <2>3
  <2>4. QED
    BY <1>3, <2>0, <2>1, <2>2, <2>3
<1>10. Exact(L2, taken)
  <2>1. \A f \in taken : \E b \in Buckets : \E k \in 1..Len(L2[b]) : L2[b][k].external_port = f
    BY <1>6
  <2>2. QED
    BY <1>7, <1>9, <2>1 DEF Exact
<1>11. QED
  BY <1>10 DEF L2

\* A mapping may be taken out with its port.
LEMMA RemovedExact ==
  ASSUME NatConstants,
         NEW L1 \in [Buckets -> Seq(Mapping)], NEW ports \in SUBSET Pool, Exact(L1, ports),
         NEW c \in Buckets, NEW i \in 1..Len(L1[c])
  PROVE  Exact([L1 EXCEPT ![c] = Without(@, i)], ports \ {L1[c][i].external_port})
<1> DEFINE L2 == [L1 EXCEPT ![c] = Without(@, i)]
           e  == L1[c][i].external_port
           old(b, k) == IF b = c /\ k >= i THEN k + 1 ELSE k
           new(b, k) == IF b = c /\ k > i THEN k - 1 ELSE k
<1>1. /\ \A b \in Buckets : Len(L1[b]) \in Nat
      /\ \A b \in Buckets \ {c} : L2[b] = L1[b]
      /\ Len(L2[c]) = Len(L1[c]) - 1
      /\ \A k \in 1..(Len(L1[c]) - 1) : L2[c][k] = L1[c][IF k < i THEN k ELSE k + 1]
  BY DEF Without
<1> HIDE DEF L2
<1>2. ASSUME NEW b \in Buckets, NEW k \in 1..Len(L2[b])
      PROVE  /\ old(b, k) \in 1..Len(L1[b]) /\ L2[b][k] = L1[b][old(b, k)]
             /\ <<b, old(b, k)>> # <<c, i>>
  <2>1. CASE b = c
    BY <1>1, <2>1
  <2>2. CASE b # c
    BY <1>1, <2>2
  <2>3. QED
    BY <2>1, <2>2
<1>3. ASSUME NEW b \in Buckets, NEW k \in 1..Len(L2[b]), NEW j \in 1..Len(L2[b]), k # j
      PROVE  old(b, k) # old(b, j)
  BY <1>1, <1>3
<1>4. ASSUME NEW b \in Buckets, NEW k \in 1..Len(L1[b]), <<b, k>> # <<c, i>>
      PROVE  new(b, k) \in 1..Len(L2[b]) /\ L2[b][new(b, k)] = L1[b][k]
  <2>1. CASE b = c /\ k < i
    BY <1>1, <2>1
  <2>2. CASE b = c /\ k > i
    <3>1. k - 1 \in 1..(Len(L1[c]) - 1) /\ ~(k - 1 < i) /\ k - 1 + 1 = k
      BY <1>1, <2>2
    <3>2. QED
      BY <1>1, <2>2, <3>1
  <2>3. CASE b # c
    BY <1>1, <2>3
  <2>4. QED
    BY <1>1, <1>4, <2>1, <2>2, <2>3
<1> HIDE DEF old, new
<1>5. ASSUME NEW f \in ports \ {e}
      PROVE  \E b \in Buckets : \E k \in 1..Len(L2[b]) : L2[b][k].external_port = f
  <2>1. PICK b \in Buckets : \E k \in 1..Len(L1[b]) : L1[b][k].external_port = f
    BY DEF Exact
  <2>2. PICK k \in 1..Len(L1[b]) : L1[b][k].external_port = f
    BY <2>1
  <2>3. <<b, k>> # <<c, i>>
    BY <2>2
  <2>4. QED
    BY <1>4, <2>2, <2>3
<1>6. ASSUME NEW b \in Buckets, NEW k \in 1..Len(L2[b])
      PROVE  /\ L2[b][k].external_port \in Pool => L2[b][k].external_port \in ports \ {e}
             /\ L2[b][k].external_port \in DOMAIN Rules
                  => L2[b][k].internal = Rules[L2[b][k].external_port]
  <2> DEFINE j == old(b, k)
  <2>1. j \in 1..Len(L1[b]) /\ L2[b][k] = L1[b][j] /\ <<b, j>> # <<c, i>>
    BY <1>2
  <2> HIDE DEF j
  <2>2. ASSUME L1[b][j].external_port \in Pool
        PROVE  L1[b][j].external_port \in ports /\ L1[b][j].external_port # e
    <3>1. L1[b][j].external_port # 0 /\ L1[b][j].external_port \notin DOMAIN Rules
      BY <2>2 DEF NatConstants, Pool
    <3>2. QED
      BY <2>1, <2>2, <3>1 DEF Exact
  <2>3. L1[b][j].external_port \in DOMAIN Rules => L1[b][j].internal = Rules[L1[b][j].external_port]
    BY <2>1 DEF Exact
  <2>4. QED
    BY <2>1, <2>2, <2>3
<1>7. ASSUME NEW b \in Buckets, NEW d \in Buckets,
             NEW k \in 1..Len(L2[b]), NEW j \in 1..Len(L2[d]),
             <<b, k>> # <<d, j>>, L2[b][k].external_port = L2[d][j].external_port
      PROVE  \/ L2[b][k].external_port = 0
             \/ L2[b][k].external_port \in DOMAIN Rules /\ b # d
  <2>1. /\ old(b, k) \in 1..Len(L1[b]) /\ L2[b][k] = L1[b][old(b, k)]
        /\ old(d, j) \in 1..Len(L1[d]) /\ L2[d][j] = L1[d][old(d, j)]
    BY <1>2
  <2>2. <<b, old(b, k)>> # <<d, old(d, j)>>
    BY <1>3, <1>7
  <2>3. QED
    BY <1>7, <2>1, <2>2 DEF Exact
<1>8. Exact(L2, ports \ {e})
  BY <1>5, <1>6, <1>7 DEF Exact
<1>9. QED
  BY <1>8 DEF L2

-----------------------------------------------------------------------------
\* Nothing is mapped at first.
LEMMA InitExact == Init => PortsExact
<1> SUFFICES ASSUME Init PROVE PortsExact
  OBVIOUS
<1>1. nat_mapping_list \in [Buckets -> Seq(Mapping)]
  BY DEF Init
<1>2. TypeOK
  BY <1>1 DEF Init, TypeOK
<1>3. QED
  BY <1>2 DEF Init, PortsExact, Exact

\* Every set of numbers has a least one.
LEMMA LeastNumber ==
  ASSUME NEW S \in SUBSET Nat, S # {}
  PROVE  \E n \in S : \A m \in S : n <= m
<1>1. PICK n \in S : \A m \in S : ~(<<m, n>> \in OpToRel(<, Nat))
  BY NatLessThanWellFounded, WFMin
<1>2. \A m \in S : n <= m
  <2>1. SUFFICES ASSUME NEW m \in S PROVE n <= m
    OBVIOUS
  <2>2. ~(m < n)
    BY <1>1 DEF OpToRel
  <2>3. QED
    BY <2>2
<1>3. QED
  BY <1>2

\* What the loops of do_translation return.
LEMMA FoundIn ==
  ASSUME NEW list \in Seq(Mapping), NEW e
  PROVE  /\ FirstIn(list, e) # 0 => FirstIn(list, e) \in 1..Len(list)
         /\ FirstIn(list, e) = 0 => \A k \in 1..Len(list) : list[k].external_port # e
<1> DEFINE hits == {k \in 1..Len(list) : list[k].external_port = e}
<1>1. CASE hits = {}
  BY <1>1 DEF FirstIn
<1>2. CASE hits # {}
  <2>1. \E k \in hits : \A j \in hits : k <= j
    <3>1. hits \in SUBSET Nat
      OBVIOUS
    <3> HIDE DEF hits
    <3>2. QED
      BY <1>2, <3>1, LeastNumber
  <2>2. FirstIn(list, e) = CHOOSE k \in hits : \A j \in hits : k <= j
    BY <1>2 DEF FirstIn
  <2>3. FirstIn(list, e) \in hits
    BY <2>1, <2>2
  <2>4. QED
    BY <2>3
<1>3. QED
  BY <1>1, <1>2

LEMMA FoundOut ==
  ASSUME NEW list \in Seq(Mapping), NEW i, FirstOut(list, i) # 0
  PROVE  FirstOut(list, i) \in 1..Len(list)
<1> DEFINE hits == {k \in 1..Len(list) : list[k].internal = i}
<1>1. hits # {}
  BY DEF FirstOut
<1>2. \E k \in hits : \A j \in hits : k <= j
  <2>1. hits \in SUBSET Nat
    OBVIOUS
  <2> HIDE DEF hits
  <2>2. QED
    BY <1>1, <2>1, LeastNumber
<1>3. FirstOut(list, i) = CHOOSE k \in hits : \A j \in hits : k <= j
  BY <1>1 DEF FirstOut
<1>4. FirstOut(list, i) \in hits
  BY <1>2, <1>3
<1>5. QED
  BY <1>4

\* alloc_port gives a free port or none.
LEMMA Allocated ==
  ASSUME NatConstants, NEW ports \in SUBSET Pool
  PROVE  AllocPort(ports) = 0 \/ AllocPort(ports) \in Pool \ ports
<1>1. CASE Pool \subseteq ports
  BY <1>1 DEF AllocPort
<1>2. CASE ~(Pool \subseteq ports)
  <2>1. Pool \ ports # {} /\ Pool \ ports \in SUBSET Nat
    BY <1>2 DEF NatConstants, Pool
  <2>2. \E e \in Pool \ ports : \A f \in Pool \ ports : e <= f
    BY <2>1, LeastNumber
  <2>3. QED
    BY <1>2, <2>2 DEF AllocPort
<1>3. QED
  BY <1>1, <1>2

-----------------------------------------------------------------------------
\* A translation by a mapping there is changes its statistics only.
LEMMA SeenExact ==
  ASSUME PortsExact, NEW b \in Buckets, NEW k \in 1..Len(nat_mapping_list[b]),
         NEW m \in Mapping, SameEnds(m, nat_mapping_list[b][k]),
         nat_mapping_list' = [nat_mapping_list EXCEPT ![b][k] = m],
         UNCHANGED <<assigned_ports, sweeping>>
  PROVE  PortsExact'
<1> DEFINE L1 == nat_mapping_list
           L2 == nat_mapping_list'
<1>1. L1 \in [Buckets -> Seq(Mapping)] /\ Exact(L1, assigned_ports)
  BY DEF PortsExact, TypeOK
<1>2. /\ L2[b] = [L1[b] EXCEPT ![k] = m]
      /\ \A c \in Buckets \ {b} : L2[c] = L1[c]
      /\ DOMAIN L2 = Buckets /\ L2 = [c \in Buckets |-> L2[c]]
  BY <1>1
<1>3. L1[b] \in Seq(Mapping)
  BY <1>1
<1>4. L2[b] \in Seq(Mapping) /\ Len(L2[b]) = Len(L1[b])
  BY <1>2, <1>3
<1>5. L2[b][k] = m /\ \A j \in 1..Len(L1[b]) \ {k} : L2[b][j] = L1[b][j]
  BY <1>2, <1>3
<1> HIDE DEF L1, L2
<1>6. L2 \in [Buckets -> Seq(Mapping)]
  <2>1. \A c \in Buckets : L2[c] \in Seq(Mapping)
    BY <1>1, <1>2, <1>4
  <2>2. QED
    BY <1>2, <2>1
<1>7. \A c \in Buckets : Len(L2[c]) = Len(L1[c])
  BY <1>2, <1>4
<1>8. \A c \in Buckets : \A j \in 1..Len(L1[c]) : SameEnds(L1[c][j], L2[c][j])
  BY <1>2, <1>5 DEF SameEnds, L1
<1>9. Exact(L2, assigned_ports)
  BY <1>1, <1>6, <1>7, <1>8, KeptExact
<1>10. QED
  BY <1>6, <1>9 DEF PortsExact, TypeOK, L2

LEMMA TranslateInExact ==
  ASSUME NatConstants, PortsExact, NEW r \in Remote, NEW e \in Ports, NEW p \in Packets,
         TranslateIn(r, e, p)
  PROVE  PortsExact'
<1> DEFINE b == Bucket[r]
           list == nat_mapping_list[b]
           k == FirstIn(list, e)
           m == SeenIn(list[k], p)
<1>1. b \in Buckets /\ list \in Seq(Mapping) /\ p \in Packet
  BY DEF NatConstants, PortsExact, TypeOK
<1>2. k # 0 /\ UNCHANGED <<assigned_ports, sweeping>>
  BY DEF TranslateIn
<1>3. k \in 1..Len(list) /\ list[k] \in Mapping
  <2> HIDE DEF list
  <2>1. k \in 1..Len(list)
    BY <1>1, <1>2, FoundIn
  <2>2. QED
    BY <1>1, <2>1
<1>4. nat_mapping_list' = [nat_mapping_list EXCEPT ![b][k] = m]
  BY DEF TranslateIn
<1>5. m \in Mapping /\ SameEnds(m, list[k])
  <2> HIDE DEF list, k
  <2> QED
    BY <1>1, <1>3 DEF SeenIn, Mapping, Packet, SameEnds
<1> HIDE DEF m, k, b
<1>6. QED
  BY <1>1, <1>2, <1>3, <1>4, <1>5, SeenExact

LEMMA TranslateOutExact ==
  ASSUME NatConstants, PortsExact, NEW r \in Remote, NEW i \in Inside, NEW p \in Packets,
         TranslateOut(i, r, p)
  PROVE  PortsExact'
<1> DEFINE b == Bucket[r]
           list == nat_mapping_list[b]
           k == FirstOut(list, i)
           m == SeenOut(list[k], p)
<1>1. b \in Buckets /\ list \in Seq(Mapping) /\ p \in Packet
  BY DEF NatConstants, PortsExact, TypeOK
<1>2. k # 0 /\ UNCHANGED <<assigned_ports, sweeping>>
  BY DEF TranslateOut
<1>3. k \in 1..Len(list) /\ list[k] \in Mapping
  <2> HIDE DEF list
  <2>1. k \in 1..Len(list)
    BY <1>1, <1>2, FoundOut
  <2>2. QED
    BY <1>1, <2>1
<1>4. nat_mapping_list' = [nat_mapping_list EXCEPT ![b][k] = m]
  BY DEF TranslateOut
<1>5. m \in Mapping /\ SameEnds(m, list[k])
  <2> HIDE DEF list, k
  <2> QED
    BY <1>1, <1>3 DEF SeenOut, Mapping, Packet, SameEnds
<1> HIDE DEF m, k, b
<1>6. QED
  BY <1>1, <1>2, <1>3, <1>4, <1>5, SeenExact

\* A mapping of a bucket is appended; its statistics are those of its first packet.
LEMMA AddKeepsType ==
  ASSUME NEW L1 \in [Buckets -> Seq(Mapping)], NEW b \in Buckets, NEW m \in Mapping
  PROVE  [L1 EXCEPT ![b] = Append(@, m)] \in [Buckets -> Seq(Mapping)]
<1>1. Append(L1[b], m) \in Seq(Mapping)
  OBVIOUS
<1>2. QED
  BY <1>1

LEMMA FirstPacket ==
  ASSUME NEW i \in Inside, NEW e \in Ports, NEW p \in Packet
  PROVE  /\ SeenIn(NewMapping(i, e), p) \in Mapping /\ SeenOut(NewMapping(i, e), p) \in Mapping
         /\ SeenIn(NewMapping(i, e), p).external_port = e
         /\ SeenIn(NewMapping(i, e), p).internal = i
         /\ SeenOut(NewMapping(i, e), p).external_port = e
  BY DEF SeenIn, SeenOut, NewMapping, Mapping, Packet

LEMMA TranslateByRuleExact ==
  ASSUME NatConstants, PortsExact, NEW r \in Remote, NEW e \in Ports, NEW p \in Packets,
         TranslateByRule(r, e, p)
  PROVE  PortsExact'
<1> DEFINE b == Bucket[r]
           m == SeenIn(NewMapping(Rules[e], e), p)
           L2 == [nat_mapping_list EXCEPT ![b] = Append(@, m)]
<1>1. /\ b \in Buckets /\ p \in Packet /\ e \in DOMAIN Rules /\ Rules[e] \in Inside
      /\ FirstIn(nat_mapping_list[b], e) = 0
  BY DEF NatConstants, TranslateByRule
<1>2. /\ nat_mapping_list \in [Buckets -> Seq(Mapping)] /\ nat_mapping_list[b] \in Seq(Mapping)
      /\ assigned_ports \in SUBSET Pool
      /\ Exact(nat_mapping_list, assigned_ports)
  BY <1>1 DEF PortsExact, TypeOK
<1>3. m \in Mapping /\ m.external_port = e /\ m.internal = Rules[e]
  BY <1>1, FirstPacket
<1>4. nat_mapping_list' = L2 /\ UNCHANGED <<assigned_ports, sweeping>>
  BY DEF TranslateByRule, Add
<1> HIDE DEF m
<1>5. NoneHas(nat_mapping_list[b], m.external_port)
  BY <1>1, <1>2, <1>3, FoundIn DEF NoneHas
<1>6. L2 \in [Buckets -> Seq(Mapping)]
  BY <1>1, <1>2, <1>3, AddKeepsType
<1>7. Exact(L2, assigned_ports)
  BY <1>1, <1>2, <1>3, <1>5, AddedExact
<1> HIDE DEF L2
<1>8. QED
  BY <1>4, <1>6, <1>7 DEF PortsExact, TypeOK

LEMMA TranslateNewExact ==
  ASSUME NatConstants, PortsExact, NEW r \in Remote, NEW i \in Inside, NEW p \in Packets,
         TranslateNew(i, r, p)
  PROVE  PortsExact'
<1> DEFINE b == Bucket[r]
           e == AllocPort(assigned_ports)
           m == SeenOut(NewMapping(i, e), p)
           L2 == [nat_mapping_list EXCEPT ![b] = Append(@, m)]
           taken == IF e = 0 THEN assigned_ports ELSE assigned_ports \cup {e}
<1>1. /\ b \in Buckets /\ p \in Packet
      /\ nat_mapping_list \in [Buckets -> Seq(Mapping)]
      /\ assigned_ports \in SUBSET Pool
      /\ Exact(nat_mapping_list, assigned_ports)
  BY DEF NatConstants, PortsExact, TypeOK
<1>2. e = 0 \/ e \in Pool \ assigned_ports
  BY <1>1, Allocated
<1>3. /\ nat_mapping_list' = L2 /\ assigned_ports' = taken
      /\ UNCHANGED sweeping
  BY DEF TranslateNew, Add
<1> HIDE DEF e
<1>4. m \in Mapping /\ m.external_port = e
  BY <1>1, <1>2, FirstPacket DEF Ports
<1>5. 0 \notin Pool
  BY DEF NatConstants, Pool
<1> HIDE DEF m
<1>6. L2 \in [Buckets -> Seq(Mapping)]
  BY <1>1, <1>4, AddKeepsType
<1>7. Exact(L2, taken)
  BY <1>1, <1>2, <1>4, <1>5, AddedExact
<1>8. taken \subseteq Pool
  BY <1>1, <1>2
<1> HIDE DEF L2, taken
<1>9. QED
  BY <1>3, <1>6, <1>7, <1>8 DEF PortsExact, TypeOK

LEMMA MinuteExact ==
  ASSUME PortsExact, Minute
  PROVE  PortsExact'
<1> DEFINE L1 == nat_mapping_list
           L2 == nat_mapping_list'
<1>1. L1 \in [Buckets -> Seq(Mapping)] /\ Exact(L1, assigned_ports)
  BY DEF PortsExact, TypeOK
<1>2. L2 = [b \in Buckets |-> [k \in 1..Len(L1[b]) |-> [L1[b][k] EXCEPT !.old = TRUE]]]
  BY DEF Minute
<1> HIDE DEF L1, L2
<1>3. ASSUME NEW b \in Buckets
      PROVE  /\ L2[b] \in Seq(Mapping) /\ Len(L2[b]) = Len(L1[b])
             /\ \A k \in 1..Len(L1[b]) : SameEnds(L1[b][k], L2[b][k])
  <2>1. L2[b] = [k \in 1..Len(L1[b]) |-> [L1[b][k] EXCEPT !.old = TRUE]]
    BY <1>2
  <2>2. \A k \in 1..Len(L1[b]) : L1[b][k] \in Mapping
    BY <1>1
  <2>3. ASSUME NEW k \in 1..Len(L1[b])
        PROVE  /\ [L1[b][k] EXCEPT !.old = TRUE] \in Mapping
               /\ SameEnds(L1[b][k], [L1[b][k] EXCEPT !.old = TRUE])
    BY <2>2 DEF Mapping, SameEnds
  <2>4. Len(L1[b]) \in Nat
    BY <1>1
  <2>5. QED
    BY <2>1, <2>3, <2>4
<1>4. L2 \in [Buckets -> Seq(Mapping)]
  BY <1>2, <1>3
<1>5. Exact(L2, assigned_ports)
  BY <1>1, <1>3, <1>4, KeptExact
<1>6. QED
  BY <1>4, <1>5 DEF PortsExact, TypeOK, Minute, L2

LEMMA SweepOneExact ==
  ASSUME NatConstants, PortsExact, NEW b \in Buckets, NEW k \in 1..Len(nat_mapping_list[b]),
         SweepOne(b, k)
  PROVE  PortsExact'
<1> DEFINE L2 == [nat_mapping_list EXCEPT ![b] = Without(@, k)]
           left == assigned_ports \ {nat_mapping_list[b][k].external_port}
<1>1. /\ nat_mapping_list \in [Buckets -> Seq(Mapping)] /\ assigned_ports \in SUBSET Pool
      /\ Exact(nat_mapping_list, assigned_ports)
  BY DEF PortsExact, TypeOK
<1>2. nat_mapping_list' = L2 /\ assigned_ports' = left /\ UNCHANGED sweeping
  BY DEF SweepOne
<1>3. L2 \in [Buckets -> Seq(Mapping)]
  <2> DEFINE list == nat_mapping_list[b]
  <2>1. list \in Seq(Mapping) /\ Len(list) \in Nat /\ k \in 1..Len(list)
    BY <1>1
  <2> HIDE DEF list
  <2>2. \A j \in 1..Len(list) - 1 : (IF j < k THEN list[j] ELSE list[j + 1]) \in Mapping
    BY <2>1
  <2>3. Without(list, k) \in Seq(Mapping)
    BY <2>1, <2>2 DEF Without
  <2>4. QED
    BY <1>1, <2>3 DEF list
<1>4. Exact(L2, left)
  BY <1>1, RemovedExact
<1> HIDE DEF L2
<1>5. QED
  BY <1>1, <1>2, <1>3, <1>4 DEF PortsExact, TypeOK

LEMMA NextExact ==
  ASSUME NatConstants, PortsExact, [Next]_vars
  PROVE  PortsExact'
<1>1. CASE \E r \in Remote, p \in Packets, e \in Ports : TranslateIn(r, e, p) \/ TranslateByRule(r, e, p)
  BY <1>1, TranslateInExact, TranslateByRuleExact
<1>2. CASE \E r \in Remote, p \in Packets, i \in Inside : TranslateOut(i, r, p) \/ TranslateNew(i, r, p)
  BY <1>2, TranslateOutExact, TranslateNewExact
<1>3. CASE Minute
  BY <1>3, MinuteExact
<1>4. CASE \E b \in Buckets : \E k \in 1..Len(nat_mapping_list[b]) : SweepOne(b, k)
  BY <1>4, SweepOneExact
<1>5. CASE SweepBegins \/ SweepEnds
  <2>1. nat_mapping_list' = nat_mapping_list /\ assigned_ports' = assigned_ports /\ sweeping' \in BOOLEAN
    BY <1>5 DEF SweepBegins, SweepEnds
  <2>2. QED
    BY <2>1 DEF PortsExact, TypeOK
<1>6. CASE UNCHANGED vars
  BY <1>6 DEF vars, PortsExact, TypeOK
<1>7. QED
  BY <1>1, <1>2, <1>3, <1>4, <1>5, <1>6 DEF Next, Sweep

\* A pool port is taken if and only if one mapping, of whatever bucket, has it.
THEOREM PoolIsExact == Spec => []PortsExact
<1>1. Init => PortsExact
  BY InitExact
<1>2. PortsExact /\ [Next]_vars => PortsExact'
  BY NatConstants, NextExact
<1>3. QED
  BY <1>1, <1>2, PTL DEF Spec

-----------------------------------------------------------------------------
\* The first mapping of an inside endpoint, and where it stays when a list keeps its
\* ends and grows.
LEMMA LeastOut ==
  ASSUME NEW list \in Seq(Mapping), NEW i, NEW k \in 1..Len(list), list[k].internal = i
  PROVE  /\ FirstOut(list, i) \in 1..Len(list) /\ FirstOut(list, i) <= k
         /\ list[FirstOut(list, i)].internal = i
<1> DEFINE hits == {j \in 1..Len(list) : list[j].internal = i}
<1>1. k \in hits /\ hits \in SUBSET Nat
  OBVIOUS
<1>2. \E n \in hits : \A j \in hits : n <= j
  <2> HIDE DEF hits
  <2> QED
    BY <1>1, LeastNumber
<1>3. FirstOut(list, i) = CHOOSE n \in hits : \A j \in hits : n <= j
  BY <1>1 DEF FirstOut
<1>4. FirstOut(list, i) \in hits /\ \A j \in hits : FirstOut(list, i) <= j
  BY <1>2, <1>3
<1> QED
  BY <1>1, <1>4

LEMMA FirstOutHolds ==
  ASSUME NEW list \in Seq(Mapping), NEW i, FirstOut(list, i) # 0
  PROVE  \E k \in 1..Len(list) : list[k].internal = i
BY DEF FirstOut

LEMMA GrownStable ==
  ASSUME NEW l1 \in Seq(Mapping), NEW l2 \in Seq(Mapping), NEW i,
         Len(l1) <= Len(l2), \A k \in 1..Len(l1) : SameEnds(l1[k], l2[k]),
         FirstOut(l1, i) # 0
  PROVE  SeenAs(l2, i) = SeenAs(l1, i)
<1> DEFINE n1 == FirstOut(l1, i)
           n2 == FirstOut(l2, i)
<1>1. n1 \in 1..Len(l1) /\ l1[n1].internal = i
  BY FirstOutHolds, LeastOut
<1>2. n1 \in 1..Len(l2) /\ l2[n1].internal = i
  <2> HIDE DEF n1
  <2> QED
    BY <1>1 DEF SameEnds
<1>3. n2 \in 1..Len(l2) /\ n2 <= n1 /\ l2[n2].internal = i
  <2> HIDE DEF n1
  <2> QED
    BY <1>2, LeastOut
<1>4. n2 \in 1..Len(l1)
  BY <1>1, <1>3
<1>5. l1[n2].internal = i
  <2> HIDE DEF n1, n2
  <2> QED
    BY <1>3, <1>4 DEF SameEnds
<1>6. n1 <= n2
  <2> HIDE DEF n2
  <2> QED
    BY <1>4, <1>5, LeastOut
<1>7. n1 = n2
  BY <1>1, <1>3, <1>6
<1> QED
  BY <1>1, <1>3, <1>7 DEF SeenAs, SameEnds

\* While the timeout thread does not hold the lock, lists keep their ends and grow.
LEMMA ListsGrow ==
  ASSUME NatConstants, PortsExact, [Next]_vars, ~sweeping, NEW b \in Buckets
  PROVE  /\ Len(nat_mapping_list[b]) <= Len(nat_mapping_list'[b])
         /\ \A k \in 1..Len(nat_mapping_list[b]) :
              SameEnds(nat_mapping_list[b][k], nat_mapping_list'[b][k])
<1> DEFINE L1 == nat_mapping_list
           L2 == nat_mapping_list'
<1>1. L1 \in [Buckets -> Seq(Mapping)] /\ L1[b] \in Seq(Mapping) /\ Len(L1[b]) \in Nat
  BY DEF PortsExact, TypeOK
<1>2. ASSUME UNCHANGED nat_mapping_list
      PROVE  Len(L1[b]) <= Len(L2[b]) /\ \A k \in 1..Len(L1[b]) : SameEnds(L1[b][k], L2[b][k])
  BY <1>1, <1>2 DEF SameEnds
<1>3. ASSUME NEW c \in Buckets, NEW m, L2 = [L1 EXCEPT ![c] = Append(@, m)]
      PROVE  Len(L1[b]) <= Len(L2[b]) /\ \A k \in 1..Len(L1[b]) : SameEnds(L1[b][k], L2[b][k])
  <2>1. L2[b] = L1[b] \/ L2[b] = Append(L1[b], m)
    BY <1>1, <1>3
  <2> HIDE DEF L1, L2
  <2>2. CASE L2[b] = Append(L1[b], m)
    BY <1>1, <2>2 DEF SameEnds
  <2> QED
    BY <1>1, <2>1, <2>2 DEF SameEnds
<1>4. ASSUME NEW c \in Buckets, NEW k, NEW m, L2 = [L1 EXCEPT ![c][k] = m],
             k \in 1..Len(L1[c]), SameEnds(L1[c][k], m)
      PROVE  Len(L1[b]) <= Len(L2[b]) /\ \A j \in 1..Len(L1[b]) : SameEnds(L1[b][j], L2[b][j])
  <2>1. L2[b] = L1[b] \/ (b = c /\ L2[b] = [L1[b] EXCEPT ![k] = m])
    BY <1>1, <1>4
  <2> HIDE DEF L1, L2
  <2>2. CASE b = c /\ L2[b] = [L1[b] EXCEPT ![k] = m]
    BY <1>1, <1>4, <2>2 DEF SameEnds
  <2> QED
    BY <1>1, <2>1, <2>2 DEF SameEnds
<1>5. CASE \E r \in Remote, p \in Packets, e \in Ports : TranslateIn(r, e, p) \/ TranslateByRule(r, e, p)
  <2>1. PICK r \in Remote, p \in Packets, e \in Ports : TranslateIn(r, e, p) \/ TranslateByRule(r, e, p)
    BY <1>5
  <2>2. Bucket[r] \in Buckets /\ L1[Bucket[r]] \in Seq(Mapping)
    BY <1>1 DEF NatConstants
  <2>3. CASE TranslateIn(r, e, p)
    <3> DEFINE k == FirstIn(L1[Bucket[r]], e)
    <3>1. k # 0 /\ L2 = [L1 EXCEPT ![Bucket[r]][k] = SeenIn(L1[Bucket[r]][k], p)]
      BY <2>3 DEF TranslateIn
    <3>2. k \in 1..Len(L1[Bucket[r]])
      <4> HIDE DEF L1
      <4> QED
        BY <2>2, <3>1, FoundIn
    <3> HIDE DEF k
    <3>3. SameEnds(L1[Bucket[r]][k], SeenIn(L1[Bucket[r]][k], p))
      BY <2>2, <3>2 DEF SameEnds, SeenIn, Mapping
    <3> QED
      BY <1>4, <2>2, <3>1, <3>2, <3>3
  <2>4. CASE TranslateByRule(r, e, p)
    BY <1>3, <2>2, <2>4 DEF TranslateByRule, Add
  <2> QED
    BY <2>1, <2>3, <2>4
<1>6. CASE \E r \in Remote, p \in Packets, i \in Inside : TranslateOut(i, r, p) \/ TranslateNew(i, r, p)
  <2>1. PICK r \in Remote, p \in Packets, i \in Inside : TranslateOut(i, r, p) \/ TranslateNew(i, r, p)
    BY <1>6
  <2>2. Bucket[r] \in Buckets /\ L1[Bucket[r]] \in Seq(Mapping)
    BY <1>1 DEF NatConstants
  <2>3. CASE TranslateOut(i, r, p)
    <3> DEFINE k == FirstOut(L1[Bucket[r]], i)
    <3>1. k # 0 /\ L2 = [L1 EXCEPT ![Bucket[r]][k] = SeenOut(L1[Bucket[r]][k], p)]
      BY <2>3 DEF TranslateOut
    <3>2. k \in 1..Len(L1[Bucket[r]])
      <4> HIDE DEF L1
      <4> QED
        BY <2>2, <3>1, FoundOut
    <3> HIDE DEF k
    <3>3. SameEnds(L1[Bucket[r]][k], SeenOut(L1[Bucket[r]][k], p))
      BY <2>2, <3>2 DEF SameEnds, SeenOut, Mapping
    <3> QED
      BY <1>4, <2>2, <3>1, <3>2, <3>3
  <2>4. CASE TranslateNew(i, r, p)
    BY <1>3, <2>2, <2>4 DEF TranslateNew, Add
  <2> QED
    BY <2>1, <2>3, <2>4
<1>7. CASE Minute
  <2>1. L2[b] = [k \in 1..Len(L1[b]) |-> [L1[b][k] EXCEPT !.old = TRUE]]
    BY <1>7 DEF Minute
  <2>2. \A k \in 1..Len(L1[b]) : L1[b][k] \in Mapping
    BY <1>1
  <2> HIDE DEF L1, L2
  <2>3. Len(L2[b]) = Len(L1[b])
    BY <1>1, <2>1
  <2>4. ASSUME NEW k \in 1..Len(L1[b]) PROVE SameEnds(L1[b][k], L2[b][k])
    <3>1. L2[b][k] = [L1[b][k] EXCEPT !.old = TRUE] /\ L1[b][k] \in Mapping
      BY <2>1, <2>2
    <3> QED
      BY <3>1 DEF SameEnds, Mapping
  <2>5. Len(L1[b]) <= Len(L2[b]) /\ \A k \in 1..Len(L1[b]) : SameEnds(L1[b][k], L2[b][k])
    BY <1>1, <2>3, <2>4
  <2> QED
    BY <2>5 DEF L1, L2
<1>8. CASE Sweep
  BY <1>2, <1>8 DEF Sweep, SweepBegins, SweepOne, SweepEnds
<1>9. CASE UNCHANGED vars
  BY <1>2, <1>9 DEF vars
<1> QED
  BY <1>5, <1>6, <1>7, <1>8, <1>9 DEF Next

\* No packet changes the port under which an inside endpoint is seen while its mapping
\* lives: do_translation takes the first mapping, and adds behind it (nat.c:53-158).
THEOREM SeenUnderOnePort == Spec => AddressStable
<1>1. ASSUME PortsExact, PortsExact', [Next]_vars, ~sweeping,
             NEW b \in Buckets, NEW i \in Inside, FirstOut(nat_mapping_list[b], i) # 0
      PROVE  SeenAs(nat_mapping_list'[b], i) = SeenAs(nat_mapping_list[b], i)
  <2>1. nat_mapping_list[b] \in Seq(Mapping) /\ nat_mapping_list'[b] \in Seq(Mapping)
    BY <1>1 DEF PortsExact, TypeOK
  <2> QED
    BY <1>1, <2>1, NatConstants, ListsGrow, GrownStable
<1>2. PortsExact /\ PortsExact' /\ [Next]_vars
        => [~sweeping => \A b \in Buckets, i \in Inside :
              FirstOut(nat_mapping_list[b], i) # 0
                => SeenAs(nat_mapping_list'[b], i) = SeenAs(nat_mapping_list[b], i)]_vars
  BY <1>1
<1> QED
  BY <1>2, PoolIsExact, PTL DEF Spec, AddressStable
=============================================================================
