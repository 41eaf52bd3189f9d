---------------------------- MODULE PrefixTree ----------------------------
(***************************************************************************)
(* The forwarding-table lookups of Lab8 (10-lookup/main.c): a tree that     *)
(* takes one bit of an address at a time and one that takes two, filled     *)
(* line by line from the same table.                                        *)
(*                                                                          *)
(* A node is the string of bits that leads to it, a tree the ports of its   *)
(* nodes: a son is there when its string is in the tree's domain.           *)
(***************************************************************************)
EXTENDS Integers, Sequences, FiniteSets

CONSTANTS
  Width,         \* bits of an address, an even number: 32
  Ports,
  ParentsFirst,  \* the table has a prefix before those that extend it, and once
  MaxLines       \* bound: prefixes in the table

ASSUME TreeConstants ==
  Width \in Nat \ {0} /\ Width % 2 = 0 /\ 0 \notin Ports /\ ParentsFirst \in BOOLEAN /\ MaxLines \in Nat

VARIABLES
  table,         \* the port of every prefix inserted, the last one given to it
  root,          \* the tree of one bit
  root2          \* the tree of two bits

treeVars == <<table, root, root2>>

Bits    == {0, 1}
Address == [1..Width -> Bits]
Strings == UNION {[1..k -> Bits] : k \in 0..Width}

Take(s, k)    == [i \in 1..k |-> s[i]]
Extends(s, p) == Len(p) <= Len(s) /\ Take(s, Len(p)) = p

\* p is the longest member of S that leads to s.
Longest(S, s, p) ==
  /\ p \in S /\ Extends(s, p)
  /\ \A q \in S : Extends(s, q) => Len(q) <= Len(p)

\* The deepest node of a tree on the way to s.
Deepest(tree, s) == CHOOSE p \in DOMAIN tree : Longest(DOMAIN tree, s, p)

\* Slip: a node made on the way starts without a port.
GrownEmpty(tree, nodes) ==
  [n \in DOMAIN tree \cup nodes |-> IF n \in DOMAIN tree THEN tree[n] ELSE 0]

\* Nodes made on the way take the port of the node they are made under.
Grown(tree, nodes) ==
  [n \in DOMAIN tree \cup nodes |-> tree[Deepest(tree, n)]]

\* insert_info
InsertInfo(p, port) ==
  [Grown(root, {Take(p, k) : k \in 0..Len(p)}) EXCEPT ![p] = port]

\* Slip: an odd prefix gives its port to the last node before it.
InsertInfo2Above(p, port) ==
  [Grown(root2, {Take(p, 2 * k) : k \in 0..(Len(p) \div 2)})
     EXCEPT ![Take(p, (Len(p) \div 2) * 2)] = port]

\* insert_info_2bit: an odd prefix gives its port to the sons of its last node that
\* begin with its last bit, those that are made now only.
InsertInfo2(p, port) ==
  LET path == Grown(root2, {Take(p, 2 * k) : k \in 0..(Len(p) \div 2)})
      sons == {Append(p, b) : b \in Bits}
  IN  IF Len(p) % 2 = 0
      THEN [path EXCEPT ![p] = port]
      ELSE [n \in DOMAIN path \cup sons |-> IF n \in DOMAIN path THEN path[n] ELSE port]

\* lookup, lookup_2bit: down to the last node there is.
Lookup(address)     == root[Deepest(root, address)]
Lookup2Bit(address) == root2[Deepest(root2, address)]

----------------------------------------------------------------------------
\* init_tree, init_tree_2bit
TreeInit ==
  /\ table = [p \in {} |-> 0]
  /\ root = [p \in {<<>>} |-> 0]
  /\ root2 = [p \in {<<>>} |-> 0]

\* A line of the table.
Insert(p, port) ==
  /\ p \in DOMAIN table \/ Cardinality(DOMAIN table) < MaxLines
  /\ ParentsFirst => \A q \in DOMAIN table : ~Extends(q, p)
  /\ table' = [q \in DOMAIN table \cup {p} |-> IF q = p THEN port ELSE table[q]]
  /\ root' = InsertInfo(p, port)
  /\ root2' = InsertInfo2(p, port)

TreeNext == \E p \in Strings, port \in Ports : Insert(p, port)

TreeSpec == TreeInit /\ [][TreeNext]_treeVars

----------------------------------------------------------------------------
TreeTypes ==
  /\ DOMAIN table \subseteq DOMAIN root
  /\ <<>> \in DOMAIN root /\ <<>> \in DOMAIN root2

\* Longest-prefix match.
Match(address, port) ==
  IF \E p \in DOMAIN table : Extends(address, p)
  THEN \E p \in DOMAIN table : Longest(DOMAIN table, address, p) /\ port = table[p]
  ELSE port = 0

\* Whatever was inserted, in an order that puts parents first, the tree of one bit
\* gives the port of the longest prefix: a node made on the way by one line is as good
\* as the prefixes of the lines before it.
LookupLongest == \A a \in Address : Match(a, Lookup(a))

\* So does the tree of two bits, although an odd prefix has no node of its own.
Lookup2BitLongest == TreeTypes /\ \A a \in Address : Match(a, Lookup2Bit(a))
=============================================================================
