--------------------------- MODULE RoutingProofs ---------------------------
(***************************************************************************)
(* Finding the way: the lookup trees of Lab8 and the link-state routing of  *)
(* Lab9.                                                                    *)
(*                                                                          *)
(* Both trees find the longest prefix, for every width of even length and   *)
(* every table in which a prefix comes before those that extend it.  A      *)
(* lookup takes the port of the deepest node it comes to.  So each node     *)
(* must have the port the table gives to the node's own string, and no      *)
(* line of the table may lie between an address and that node.              *)
(*                                                                          *)
(* A flood ends: a router sends on only what is newer than its entry.  Once *)
(* it has sent an LSU the entry is as new, and only a restart, a fault,     *)
(* makes it older while the LSU is under way.  The originator sends one     *)
(* again only when it has the same neighbours and number as before, after   *)
(* it lost one and found it again, which takes a fault too.                 *)
(*                                                                          *)
(* Routes are shortest: what is visited has its distance, what is not has   *)
(* the best one by way of the visited, and the way back along prev is one   *)
(* link shorter with every step.                                            *)
(***************************************************************************)
EXTENDS Mospf, PrefixTree, WellFoundedInduction, SequenceTheorems, FiniteSetTheorems, TLAPS

----------------------------------------------------------------------------
(***************************************************************************)
(* Induction over the naturals, by sets, and what recursive functions are.  *)
(***************************************************************************)
LEMMA LeastNat ==
  ASSUME NEW S \in SUBSET Nat, S # {}
  PROVE  \E m \in S : \A k \in S : m <= k
<1> DEFINE R == OpToRel(<, Nat)
<1>1. IsWellFoundedOn(R, Nat)
  BY NatLessThanWellFounded
<1> HIDE DEF R
<1>2. PICK m \in S : \A k \in S : ~ (<<k, m>> \in R)
  BY <1>1, WFMin
<1>3. m \in Nat /\ \A k \in S : k \in Nat /\ ~ (k < m)
  BY <1>2 DEF R, OpToRel
<1> QED
  BY <1>2, <1>3

LEMMA AllNat ==
  ASSUME NEW S, 0 \in S, \A k \in Nat : k \in S => k + 1 \in S
  PROVE  \A k \in Nat : k \in S
<1> DEFINE fails == Nat \ S
<1>1. SUFFICES ASSUME fails # {} PROVE FALSE
  OBVIOUS
<1>2. PICK m \in fails : \A k \in fails : m <= k
  BY <1>1, LeastNat
<1>3. m \in Nat /\ m # 0
  BY <1>2
<1>4. m - 1 \in Nat /\ m = (m - 1) + 1 /\ ~(m <= m - 1)
  BY <1>3
<1>5. m - 1 \in S
  BY <1>2, <1>4
<1>6. (m - 1) + 1 \in S
  BY <1>4, <1>5
<1> QED
  BY <1>2, <1>4, <1>6

LEMMA UpTo ==
  ASSUME NEW n \in Nat, NEW S, 0 \in S, \A k \in 0..n : k \in S /\ k < n => k + 1 \in S
  PROVE  \A k \in 0..n : k \in S
<1> DEFINE T == {k \in Nat : k <= n => k \in S}
<1>1. 0 \in T
  OBVIOUS
<1>2. \A k \in Nat : k \in T => k + 1 \in T
  OBVIOUS
<1> HIDE DEF T
<1>3. \A k \in Nat : k \in T
  BY <1>1, <1>2, AllNat
<1> QED
  BY <1>3 DEF T

\* The first n values of a function that gives each value by the one before.
Iteration(f, base, step, n) == f = [k \in 0..n |-> IF k = 0 THEN base ELSE step[f[k - 1]]]

LEMMA IterationIs ==
  ASSUME NEW f, NEW base, NEW step, NEW n \in Nat, Iteration(f, base, step, n)
  PROVE  f[0] = base /\ \A k \in 0..n : k < n => f[k + 1] = step[f[k]]
<1>1. \A k \in 0..n : f[k] = IF k = 0 THEN base ELSE step[f[k - 1]]
  BY DEF Iteration
<1>2. 0 \in 0..n /\ \A k \in 0..n : k < n => k + 1 \in 0..n /\ k + 1 # 0 /\ (k + 1) - 1 = k
  OBVIOUS
<1>3. ASSUME NEW k \in 0..n, k < n PROVE f[k + 1] = step[f[k]]
  <2>1. f[k + 1] = IF k + 1 = 0 THEN base ELSE step[f[(k + 1) - 1]]
    BY <1>1, <1>2, <1>3
  <2> QED
    BY <1>2, <1>3, <2>1
<1> QED
  BY <1>1, <1>2, <1>3

LEMMA IterationExists ==
  ASSUME NEW base, NEW step
  PROVE  \A n \in Nat : \E f : Iteration(f, base, step, n)
<1> DEFINE S == {n \in Nat : \E f : Iteration(f, base, step, n)}
<1>1. 0 \in S
  <2> DEFINE f == [k \in 0..0 |-> base]
  <2>1. f = [k \in 0..0 |-> IF k = 0 THEN base ELSE step[f[k - 1]]]
    OBVIOUS
  <2> HIDE DEF f
  <2>2. Iteration(f, base, step, 0)
    BY <2>1 DEF Iteration
  <2> QED
    BY <2>2
<1>2. ASSUME NEW n \in Nat, n \in S PROVE n + 1 \in S
  <2>1. PICK f : Iteration(f, base, step, n)
    BY <1>2
  <2>2. f[0] = base /\ \A k \in 0..n : k < n => f[k + 1] = step[f[k]]
    BY <2>1, IterationIs
  <2> DEFINE g == [k \in 0..(n + 1) |-> IF k = n + 1 THEN step[f[n]] ELSE f[k]]
  <2>3. ASSUME NEW k \in 0..(n + 1) PROVE g[k] = IF k = 0 THEN base ELSE step[g[k - 1]]
    <3>1. CASE k = 0
      BY <2>2, <3>1
    <3>2. CASE k = n + 1
      <4>1. g[k] = step[f[n]] /\ g[k - 1] = f[n]
        BY <3>2
      <4> QED
        BY <3>2, <4>1
    <3>3. CASE k # 0 /\ k # n + 1
      <4>1. k - 1 \in 0..n /\ k - 1 < n /\ (k - 1) + 1 = k /\ k - 1 # n + 1 /\ k - 1 \in 0..(n + 1)
        BY <3>3
      <4>2. f[(k - 1) + 1] = step[f[k - 1]]
        BY <2>2, <4>1
      <4>3. g[k] = f[k] /\ g[k - 1] = f[k - 1]
        BY <3>3, <4>1
      <4> HIDE DEF g
      <4> QED
        BY <3>3, <4>1, <4>2, <4>3
    <3> QED
      BY <3>1, <3>2, <3>3
  <2>4. g = [k \in 0..(n + 1) |-> g[k]]
    OBVIOUS
  <2> HIDE DEF g
  <2>5. g = [k \in 0..(n + 1) |-> IF k = 0 THEN base ELSE step[g[k - 1]]]
    BY <2>3, <2>4
  <2>6. Iteration(g, base, step, n + 1)
    BY <2>5 DEF Iteration
  <2> QED
    BY <2>6
<1> HIDE DEF S
<1>3. \A n \in Nat : n \in S
  BY <1>1, <1>2, AllNat
<1> QED
  BY <1>3 DEF S

\* Two that begin alike go on alike.
LEMMA IterationAgrees ==
  ASSUME NEW base, NEW step, NEW n \in Nat, NEW m \in Nat, n <= m,
         NEW f, Iteration(f, base, step, n), NEW g, Iteration(g, base, step, m)
  PROVE  \A k \in 0..n : f[k] = g[k]
<1> DEFINE S == {k \in 0..n : f[k] = g[k]}
<1>1. f[0] = base /\ \A k \in 0..n : k < n => f[k + 1] = step[f[k]]
  BY IterationIs
<1>2. g[0] = base /\ \A k \in 0..m : k < m => g[k + 1] = step[g[k]]
  BY IterationIs
<1>3. 0 \in S
  BY <1>1, <1>2
<1>4. ASSUME NEW k \in 0..n, k \in S, k < n PROVE k + 1 \in S
  <2>1. k \in 0..m /\ k < m /\ k + 1 \in 0..n
    BY <1>4
  <2>2. f[k + 1] = step[f[k]] /\ g[k + 1] = step[g[k]] /\ f[k] = g[k]
    BY <1>1, <1>2, <1>4, <2>1
  <2> QED
    BY <2>1, <2>2
<1> HIDE DEF S
<1>5. \A k \in 0..n : k \in S
  BY <1>3, <1>4, UpTo
<1> QED
  BY <1>5 DEF S

\* The same without an end.
Endless(f, base, step) == f = [k \in Nat |-> IF k = 0 THEN base ELSE step[f[k - 1]]]

LEMMA EndlessExists ==
  ASSUME NEW base, NEW step
  PROVE  \E f : Endless(f, base, step)
<1> DEFINE g == [n \in Nat |-> CHOOSE f : Iteration(f, base, step, n)]
           f == [n \in Nat |-> g[n][n]]
<1>1. \A n \in Nat : Iteration(g[n], base, step, n)
  BY IterationExists
<1>2. \A n \in Nat : f[n] = g[n][n]
  OBVIOUS
<1>3. f = [n \in Nat |-> f[n]]
  OBVIOUS
<1> HIDE DEF f, g
<1>4. ASSUME NEW k \in Nat PROVE f[k] = IF k = 0 THEN base ELSE step[f[k - 1]]
  <2>1. g[k][0] = base /\ \A j \in 0..k : j < k => g[k][j + 1] = step[g[k][j]]
    BY <1>1, IterationIs
  <2>2. CASE k = 0
    BY <1>2, <2>1, <2>2
  <2>3. CASE k # 0
    <3>1. k - 1 \in Nat /\ k - 1 \in 0..k /\ k - 1 < k /\ k - 1 <= k /\ (k - 1) + 1 = k /\ k - 1 \in 0..(k - 1)
      BY <2>3
    <3>2. Iteration(g[k - 1], base, step, k - 1) /\ Iteration(g[k], base, step, k)
      BY <1>1, <3>1
    <3>3. \A j \in 0..(k - 1) : g[k - 1][j] = g[k][j]
      BY <3>1, <3>2, IterationAgrees
    <3>4. g[k][(k - 1) + 1] = step[g[k][k - 1]] /\ g[k - 1][k - 1] = g[k][k - 1]
      BY <2>1, <3>1, <3>3
    <3>5. f[k] = g[k][k] /\ f[k - 1] = g[k - 1][k - 1]
      BY <1>2, <3>1
    <3> QED
      BY <2>3, <3>1, <3>4, <3>5
  <2> QED
    BY <2>2, <2>3
<1>5. f = [k \in Nat |-> IF k = 0 THEN base ELSE step[f[k - 1]]]
  BY <1>3, <1>4
<1> QED
  BY <1>5 DEF Endless

----------------------------------------------------------------------------
(***************************************************************************)
(* Strings of bits, what they begin with, and the deepest node above one.   *)
(***************************************************************************)
\* A prefix is a sequence of bits, no longer than an address.
LEMMA IsString ==
  ASSUME NEW p \in Strings
  PROVE  /\ Len(p) \in 0..Width
         /\ p \in [1..Len(p) -> Bits]
  <1>1. PICK k \in 0..Width : p \in [1..k -> Bits]
    BY DEF Strings
  <1>2. Len(p) = k
    BY <1>1, TreeConstants
  <1> QED BY <1>1, <1>2

\* The root's string.
LEMMA EmptyString == <<>> \in Strings /\ Len(<<>>) = 0
<1>1. <<>> \in [1..0 -> Bits]
  OBVIOUS
<1> QED BY <1>1, TreeConstants DEF Strings

\* The first k bits of a string are one.
LEMMA TakeIsString ==
  ASSUME NEW p \in Strings, NEW k \in 0..Len(p)
  PROVE  /\ Take(p, k) \in Strings
         /\ Len(Take(p, k)) = k
         /\ \A i \in 1..k : Take(p, k)[i] = p[i]
<1>1. Len(p) \in 0..Width /\ p \in [1..Len(p) -> Bits]
  BY IsString
<1>2. k \in 0..Width /\ Take(p, k) \in [1..k -> Bits]
  BY <1>1, TreeConstants DEF Take
<1>3. Take(p, k) \in Strings
  BY <1>2 DEF Strings
<1>4. Len(Take(p, k)) = k
  BY <1>2
<1>5. \A i \in 1..k : Take(p, k)[i] = p[i]
  BY DEF Take
<1> QED
  BY <1>3, <1>4, <1>5

\* To extend a string is to agree with it on all its bits.
LEMMA ExtendsAgrees ==
  ASSUME NEW s \in Strings, NEW p \in Strings
  PROVE  Extends(s, p) <=> Len(p) <= Len(s) /\ \A i \in 1..Len(p) : s[i] = p[i]
<1>1. Len(p) \in 0..Width /\ p \in [1..Len(p) -> Bits]
  BY IsString
<1>2. CASE Len(p) <= Len(s)
  <2>1. Take(s, Len(p)) \in [1..Len(p) -> Bits]
    BY <1>1, <1>2, IsString DEF Take
  <2>2. Take(s, Len(p)) = p <=> \A i \in 1..Len(p) : Take(s, Len(p))[i] = p[i]
    BY <1>1, <2>1
  <2> QED
    BY <1>2, <2>2 DEF Extends, Take
<1>3. CASE ~ (Len(p) <= Len(s))
  BY <1>3 DEF Extends
<1> QED
  BY <1>2, <1>3

\* The strings above one string are a chain.
LEMMA OrderOfStrings ==
  ASSUME NEW s \in Strings, NEW p \in Strings, NEW q \in Strings
  PROVE  /\ Extends(s, s)
         /\ Extends(s, p) /\ Extends(p, q) => Extends(s, q)
         /\ Extends(s, p) /\ Extends(s, q) /\ Len(q) <= Len(p) => Extends(p, q)
         /\ Extends(p, q) /\ Len(p) <= Len(q) => p = q
<1>1. /\ Len(s) \in Nat /\ Len(p) \in Nat /\ Len(q) \in Nat
      /\ p \in [1..Len(p) -> Bits] /\ q \in [1..Len(q) -> Bits]
  BY IsString, TreeConstants
<1>2. Extends(s, s)
  BY <1>1, ExtendsAgrees
<1>3. Extends(s, p) /\ Extends(p, q) => Extends(s, q)
  BY <1>1, ExtendsAgrees
<1>4. Extends(s, p) /\ Extends(s, q) /\ Len(q) <= Len(p) => Extends(p, q)
  BY <1>1, ExtendsAgrees
<1>5. Extends(p, q) /\ Len(p) <= Len(q) => p = q
  <2> SUFFICES ASSUME Extends(p, q), Len(p) <= Len(q) PROVE p = q
    OBVIOUS
  <2>1. Len(q) <= Len(p) /\ \A i \in 1..Len(q) : p[i] = q[i]
    BY ExtendsAgrees
  <2>2. \A m, n \in Nat : m <= n /\ n <= m => m = n
    OBVIOUS
  <2>3. Len(p) = Len(q)
    BY <1>1, <2>1, <2>2, Zenon
  <2> QED
    BY <1>1, <2>1, <2>3
<1> QED
  BY <1>2, <1>3, <1>4, <1>5

\* There is a deepest node above every string: lookup's walk ends at one.
LEMMA DeepestIs ==
  ASSUME NEW tree, DOMAIN tree \subseteq Strings, <<>> \in DOMAIN tree, NEW s \in Strings
  PROVE  Longest(DOMAIN tree, s, Deepest(tree, s))
<1> DEFINE L == {Len(s) - Len(p) : p \in {q \in DOMAIN tree : Extends(s, q)}}
<1>1. L \subseteq Nat
  <2> SUFFICES ASSUME NEW p \in DOMAIN tree, Extends(s, p) PROVE Len(s) - Len(p) \in Nat
    OBVIOUS
  <2> QED
    BY IsString, TreeConstants DEF Extends
<1>2. Extends(s, <<>>)
  BY EmptyString, IsString, ExtendsAgrees
<1>3. L # {}
  BY <1>2
<1>4. PICK m \in L : \A k \in L : m <= k
  <2> HIDE DEF L
  <2> QED BY <1>1, <1>3, LeastNat
<1>5. PICK p \in DOMAIN tree : Extends(s, p) /\ m = Len(s) - Len(p)
  BY <1>4
<1>6. ASSUME NEW q \in DOMAIN tree, Extends(s, q)
      PROVE  Len(q) <= Len(p)
  <2>1. Len(s) - Len(p) <= Len(s) - Len(q)
    BY <1>4, <1>5, <1>6
  <2> QED
    BY <2>1, IsString, TreeConstants
<1>7. Longest(DOMAIN tree, s, p)
  BY <1>5, <1>6 DEF Longest
<1> QED
  BY <1>7 DEF Deepest

----------------------------------------------------------------------------
(***************************************************************************)
(* The answers of a table t, and trees whose nodes know them.               *)
(***************************************************************************)
\* x is the port of the longest prefix of t that leads to s (Match of any table).
Best(t, s, x) ==
  IF \E p \in DOMAIN t : Extends(s, p)
  THEN \E p \in DOMAIN t : Longest(DOMAIN t, s, p) /\ x = t[p]
  ELSE x = 0

\* t with a line for p.
With(t, p, port) == [q \in DOMAIN t \cup {p} |-> IF q = p THEN port ELSE t[q]]

\* Every node has the port the table gives to its string.
GoodTree(tree, t) ==
  /\ DOMAIN tree \subseteq Strings /\ <<>> \in DOMAIN tree
  /\ \A n \in DOMAIN tree : Best(t, n, tree[n])

\* Strings under the same prefixes have the same answer.
LEMMA SameBest ==
  ASSUME NEW t, NEW a, NEW b, NEW x,
         \A q \in DOMAIN t : Extends(a, q) <=> Extends(b, q),
         Best(t, a, x)
  PROVE  Best(t, b, x)
BY DEF Best, Longest

\* The deepest node has a string's answer when no prefix of the table lies between them.
LEMMA FollowsDeepest ==
  ASSUME NEW tree, NEW t, DOMAIN t \subseteq Strings, GoodTree(tree, t), NEW n \in Strings,
         \A q \in DOMAIN t : Extends(n, q) => Len(q) <= Len(Deepest(tree, n))
  PROVE  Best(t, n, tree[Deepest(tree, n)])
<1> DEFINE d == Deepest(tree, n)
<1>1. Longest(DOMAIN tree, n, d)
  BY DeepestIs DEF GoodTree
<1>2. d \in DOMAIN tree /\ d \in Strings /\ Extends(n, d)
  BY <1>1 DEF Longest, GoodTree
<1>3. \A q \in DOMAIN t : Extends(d, q) <=> Extends(n, q)
  <2> HIDE DEF d
  <2> SUFFICES ASSUME NEW q \in DOMAIN t PROVE Extends(d, q) <=> Extends(n, q)
    OBVIOUS
  <2>1. Extends(n, q) => Len(q) <= Len(d)
    BY DEF d
  <2> QED
    BY <1>2, <2>1, OrderOfStrings
<1>4. Best(t, d, tree[d])
  BY <1>2 DEF GoodTree
<1> HIDE DEF d
<1>5. Best(t, n, tree[d])
  BY <1>3, <1>4, SameBest
<1> QED
  BY <1>5 DEF d

\* A line for p changes nothing for strings that are not under p,
LEMMA BestOff ==
  ASSUME NEW t, NEW p \in Strings, NEW port, NEW n, NEW x,
         ~ Extends(n, p), Best(t, n, x)
  PROVE  Best(With(t, p, port), n, x)
<1>1. \A q \in DOMAIN t : Extends(n, q) => q # p /\ With(t, p, port)[q] = t[q]
  BY DEF With
<1>2. DOMAIN With(t, p, port) = DOMAIN t \cup {p}
  BY DEF With
<1>3. CASE \E q \in DOMAIN t : Extends(n, q)
  <2>1. PICK q \in DOMAIN t : Longest(DOMAIN t, n, q) /\ x = t[q]
    BY <1>3 DEF Best
  <2>2. Longest(DOMAIN With(t, p, port), n, q) /\ x = With(t, p, port)[q]
    BY <1>1, <1>2, <2>1 DEF Longest
  <2> QED
    BY <1>2, <2>1, <2>2 DEF Best, Longest
<1>4. CASE ~ \E q \in DOMAIN t : Extends(n, q)
  BY <1>2, <1>4 DEF Best
<1> QED
  BY <1>3, <1>4

\* and is the answer for those that are and have no longer prefix.
LEMMA BestOn ==
  ASSUME NEW t, NEW p \in Strings, NEW port, NEW n, DOMAIN t \subseteq Strings,
         Extends(n, p), \A q \in DOMAIN t : Extends(n, q) => Len(q) <= Len(p)
  PROVE  Best(With(t, p, port), n, port)
<1>1. DOMAIN With(t, p, port) = DOMAIN t \cup {p} /\ With(t, p, port)[p] = port
  BY DEF With
<1>2. Len(p) <= Len(p)
  BY IsString
<1>3. Longest(DOMAIN With(t, p, port), n, p)
  BY <1>1, <1>2 DEF Longest
<1> QED
  BY <1>1, <1>3 DEF Best, Longest

\* For a node it is the node.
LEMMA DeepestOfNode ==
  ASSUME NEW tree, DOMAIN tree \subseteq Strings, <<>> \in DOMAIN tree, NEW n \in DOMAIN tree
  PROVE  Deepest(tree, n) = n
<1> DEFINE d == Deepest(tree, n)
<1>1. Longest(DOMAIN tree, n, d)
  BY DeepestIs
<1>2. d \in Strings /\ n \in Strings /\ Extends(n, d)
  BY <1>1 DEF Longest
<1>3. Extends(n, n)
  BY <1>2, OrderOfStrings
<1>4. Len(n) <= Len(d)
  BY <1>1, <1>3 DEF Longest
<1> HIDE DEF d
<1>5. d = n
  BY <1>2, <1>4, OrderOfStrings
<1> QED
  BY <1>5 DEF d

\* Nodes made on the way to a line do no harm.
LEMMA GrowthIsGood ==
  ASSUME NEW tree, NEW t, NEW N,
         GoodTree(tree, t), DOMAIN t \subseteq Strings, N \subseteq Strings,
         \A n \in N : \A q \in DOMAIN t : Extends(n, q) => Len(q) <= Len(Deepest(tree, n))
  PROVE  GoodTree(Grown(tree, N), t)
<1>1. DOMAIN Grown(tree, N) = DOMAIN tree \cup N
  BY DEF Grown
<1>2. ASSUME NEW n \in DOMAIN tree
      PROVE  Best(t, n, Grown(tree, N)[n])
  <2>1. Deepest(tree, n) = n
    BY DeepestOfNode DEF GoodTree
  <2> QED
    BY <2>1 DEF Grown, GoodTree
<1>3. ASSUME NEW n \in N
      PROVE  Best(t, n, Grown(tree, N)[n])
  <2>1. Best(t, n, tree[Deepest(tree, n)])
    BY FollowsDeepest
  <2> QED
    BY <2>1 DEF Grown
<1> QED
  BY <1>1, <1>2, <1>3 DEF GoodTree

----------------------------------------------------------------------------
(***************************************************************************)
(* The inductive invariant.                                                 *)
(***************************************************************************)
\* Each line has its node in the tree of one bit, and each node is there for a line.
OneBitInv ==
  /\ GoodTree(root, table)
  /\ DOMAIN table \subseteq DOMAIN root
  /\ \A n \in DOMAIN root : n = <<>> \/ \E q \in DOMAIN table : Extends(q, n)

Even == {p \in Strings : Len(p) % 2 = 0}

\* In the tree of two bits an odd prefix has its two sons, which are then there for it.
TwoBitInv ==
  /\ GoodTree(root2, table)
  /\ DOMAIN root2 \subseteq Even
  /\ \A q \in DOMAIN table :
       IF q \in Even THEN q \in DOMAIN root2 ELSE \A b \in Bits : Append(q, b) \in DOMAIN root2
  /\ \A n \in DOMAIN root2 :
       n = <<>> \/ \E q \in DOMAIN table :
                     Extends(q, n) \/ (q \notin Even /\ \E b \in Bits : n = Append(q, b))

TriesInv == DOMAIN table \subseteq Strings /\ OneBitInv /\ TwoBitInv

\* An empty table has no answer.
LEMMA NothingAbove ==
  ASSUME NEW n
  PROVE  Best([p \in {} |-> 0], n, 0)
BY DEF Best

\* The trees begin right.
LEMMA InitTries == TreeInit => TriesInv
<1> SUFFICES ASSUME TreeInit PROVE TriesInv
  OBVIOUS
<1>1. DOMAIN table = {} /\ \A n : Best(table, n, 0)
  BY NothingAbove DEF TreeInit
<1>2. DOMAIN root = {<<>>} /\ root[<<>>] = 0 /\ DOMAIN root2 = {<<>>} /\ root2[<<>>] = 0
  BY DEF TreeInit
<1>3. <<>> \in Even
  BY EmptyString DEF Even
<1> QED
  BY <1>1, <1>2, <1>3, EmptyString DEF TriesInv, OneBitInv, TwoBitInv, GoodTree

\* An insertion with parents first.
Inserted(p, port) ==
  /\ TriesInv /\ p \in Strings
  /\ \A q \in DOMAIN table : ~ Extends(q, p)
  /\ table' = With(table, p, port)

\* A line keeps the tree of one bit right.  No node lies under p, or a line would.
LEMMA StepOne ==
  ASSUME NEW p, NEW port, Inserted(p, port), root' = InsertInfo(p, port)
  PROVE  OneBitInv'
<1> DEFINE path == {Take(p, k) : k \in 0..Len(p)}
           g == Grown(root, path)
<1>0. p \in Strings /\ Len(p) \in Nat /\ DOMAIN table \subseteq Strings /\ OneBitInv
  BY IsString DEF Inserted, TriesInv
<1>1. path \subseteq Strings
  BY <1>0, TakeIsString
<1>2. GoodTree(g, table)
  <2>1. ASSUME NEW n \in path, NEW q \in DOMAIN table, Extends(n, q)
        PROVE  Len(q) <= Len(Deepest(root, n))
    <3>1. Longest(DOMAIN root, n, Deepest(root, n))
      BY <1>0, <1>1, DeepestIs DEF OneBitInv, GoodTree
    <3> QED
      BY <1>0, <2>1, <3>1 DEF OneBitInv, Longest
  <2> HIDE DEF path
  <2>2. GoodTree(root, table)
    BY <1>0 DEF OneBitInv
  <2> QED
    BY <1>0, <1>1, <2>1, <2>2, GrowthIsGood
<1>3. DOMAIN g = DOMAIN root \cup path
  BY DEF Grown
<1>4. p \in path
  <2>1. Take(p, Len(p)) \in Strings /\ Extends(p, p)
    BY <1>0, TakeIsString, OrderOfStrings
  <2>2. Take(p, Len(p)) = p
    BY <2>1 DEF Extends
  <2> QED
    BY <1>0, <2>2
<1>5. ASSUME NEW n \in path
      PROVE  Extends(p, n)
  <2>1. PICK k \in 0..Len(p) : n = Take(p, k)
    OBVIOUS
  <2>2. Len(n) = k
    BY <1>0, <2>1, TakeIsString
  <2> QED
    BY <1>0, <2>1, <2>2 DEF Extends
<1>6. root' = [g EXCEPT ![p] = port] /\ DOMAIN root' = DOMAIN root \cup path
  BY <1>3 DEF InsertInfo
<1>7. table' = With(table, p, port) /\ DOMAIN table' = DOMAIN table \cup {p}
  BY DEF Inserted, With
<1> HIDE DEF path, g
<1>8. ASSUME NEW n \in DOMAIN root', n # p
      PROVE  ~ Extends(n, p)
  <2>1. n \in Strings /\ Len(n) \in Nat
    BY <1>0, <1>1, <1>6, IsString DEF OneBitInv, GoodTree
  <2>2. CASE n \in path
    BY <1>0, <1>5, <1>8, <2>1, <2>2, OrderOfStrings DEF Extends
  <2>3. CASE n \in DOMAIN root /\ n # <<>>
    <3>1. PICK q \in DOMAIN table : Extends(q, n)
      BY <1>0, <2>3 DEF OneBitInv
    <3> QED
      BY <1>0, <2>1, <3>1, OrderOfStrings DEF Inserted
  <2>4. CASE n = <<>>
    <3>1. Extends(n, p) => Len(p) = 0
      BY <1>0, <2>4, EmptyString DEF Extends
    <3>2. Extends(p, n)
      BY <1>0, <2>4, EmptyString, ExtendsAgrees
    <3> QED
      BY <1>0, <1>8, <2>1, <2>4, <3>1, <3>2, EmptyString, OrderOfStrings
  <2> QED
    BY <1>6, <2>2, <2>3, <2>4
<1>9. ASSUME NEW n \in DOMAIN root'
      PROVE  Best(table', n, root'[n])
  <2>1. CASE n = p
    <3>1. Extends(p, p)
      BY <1>0, OrderOfStrings
    <3>2. \A q \in DOMAIN table : Extends(p, q) => Len(q) <= Len(p)
      BY DEF Extends
    <3>3. Best(With(table, p, port), p, port)
      BY <1>0, <3>1, <3>2, BestOn
    <3>4. root'[p] = port
      BY <1>3, <1>4, <1>6
    <3> QED
      BY <1>7, <2>1, <3>3, <3>4
  <2>2. CASE n # p
    <3>1. Best(table, n, g[n]) /\ root'[n] = g[n]
      BY <1>2, <1>3, <1>6, <2>2 DEF GoodTree
    <3>2. Best(With(table, p, port), n, g[n])
      BY <1>0, <1>8, <2>2, <3>1, BestOff
    <3> QED
      BY <1>7, <3>1, <3>2
  <2> QED
    BY <2>1, <2>2
<1>10. GoodTree(root', table')
  BY <1>0, <1>1, <1>6, <1>9 DEF OneBitInv, GoodTree
<1>11. \A n \in DOMAIN root' : n = <<>> \/ \E q \in DOMAIN table' : Extends(q, n)
  BY <1>0, <1>5, <1>6, <1>7 DEF OneBitInv
<1> QED
  BY <1>0, <1>4, <1>6, <1>7, <1>10, <1>11 DEF OneBitInv

----------------------------------------------------------------------------
\* The nodes on the way to p in the tree of two bits.
LEMMA Evens ==
  ASSUME NEW p \in Strings, NEW k \in 0..(Len(p) \div 2)
  PROVE  Take(p, 2 * k) \in Even /\ Extends(p, Take(p, 2 * k))
<1>1. Len(p) \in 0..Width
  BY IsString
<1>2. 2 * k \in 0..Len(p) /\ (2 * k) % 2 = 0
  BY <1>1, TreeConstants
<1>3. Take(p, 2 * k) \in Strings /\ Len(Take(p, 2 * k)) = 2 * k
  BY <1>2, TakeIsString
<1> QED
  BY <1>1, <1>2, <1>3 DEF Extends, Even

\* The sons that stand for an odd prefix.
LEMMA Sons ==
  ASSUME NEW q \in Strings, q \notin Even, NEW b \in Bits
  PROVE  /\ Len(q) % 2 = 1 /\ Len(q) < Width
         /\ Append(q, b) \in Even
         /\ Len(Append(q, b)) = Len(q) + 1
         /\ Extends(Append(q, b), q)
         /\ Append(q, b)[Len(q) + 1] = b
         /\ \A i \in 1..Len(q) : Append(q, b)[i] = q[i]
<1>1. Len(q) \in 0..Width /\ q \in [1..Len(q) -> Bits]
  BY IsString
<1>2. q \in Seq(Bits)
  BY <1>1, TreeConstants
<1>3. Len(q) % 2 = 1 /\ Len(q) < Width
  BY <1>1, TreeConstants DEF Even
<1>4. /\ Append(q, b) \in Seq(Bits) /\ Len(Append(q, b)) = Len(q) + 1
      /\ Append(q, b)[Len(q) + 1] = b
      /\ \A i \in 1..Len(q) : Append(q, b)[i] = q[i]
  BY <1>2, AppendProperties
<1>5. Append(q, b) \in [1..(Len(q) + 1) -> Bits]
  <2>1. Append(q, b) \in [1..Len(Append(q, b)) -> Bits]
    BY <1>4, LenProperties
  <2> QED
    BY <1>4, <2>1
<1>6. Append(q, b) \in Strings
  <2>1. Len(q) + 1 \in 0..Width
    BY <1>1, <1>3, TreeConstants
  <2> QED
    BY <1>5, <2>1 DEF Strings
<1>7. Append(q, b) \in Even
  <2>1. (Len(q) + 1) % 2 = 0
    BY <1>1, <1>3
  <2> QED
    BY <1>4, <1>6, <2>1 DEF Even
<1>8. Extends(Append(q, b), q)
  <2>1. Len(q) <= Len(Append(q, b))
    BY <1>1, <1>4, TreeConstants
  <2> QED
    BY <1>4, <1>6, <2>1, ExtendsAgrees
<1> QED
  BY <1>3, <1>4, <1>7, <1>8

\* The way to an even string leads through every line above it, or through a son of one.
LEMMA TwoBitCover ==
  ASSUME TwoBitInv, DOMAIN table \subseteq Strings, NEW n \in Even,
         NEW q \in DOMAIN table, Extends(n, q)
  PROVE  Len(q) <= Len(Deepest(root2, n))
<1> DEFINE d == Deepest(root2, n)
<1>1. Longest(DOMAIN root2, n, d)
  BY DeepestIs DEF TwoBitInv, GoodTree, Even
<1>2. CASE q \in Even
  BY <1>1, <1>2 DEF TwoBitInv, Longest
<1>3. CASE q \notin Even
  <2> DEFINE b == n[Len(q) + 1]
             s == Append(q, b)
  <2>1. /\ Len(n) \in Nat /\ Len(q) \in Nat /\ n \in [1..Len(n) -> Bits] /\ Len(n) % 2 = 0
        /\ n \in Strings /\ q \in Strings /\ Len(q) % 2 = 1
    BY <1>3, IsString, TreeConstants DEF Even
  <2>2. Len(q) <= Len(n) /\ \A i \in 1..Len(q) : n[i] = q[i]
    BY <2>1, ExtendsAgrees
  <2>3. Len(q) + 1 \in 1..Len(n)
    BY <2>1, <2>2
  <2>4. b \in Bits
    BY <2>1, <2>3
  <2> HIDE DEF b
  <2>5. /\ s \in Even /\ Len(s) = Len(q) + 1 /\ s[Len(q) + 1] = b
        /\ \A i \in 1..Len(q) : s[i] = q[i]
    BY <1>3, <2>1, <2>4, Sons
  <2>6. s \in DOMAIN root2
    BY <1>3, <2>4 DEF TwoBitInv
  <2> HIDE DEF s
  <2>7. \A i \in 1..Len(s) : n[i] = s[i]
    BY <2>1, <2>2, <2>5 DEF b
  <2>8. Extends(n, s)
    BY <2>1, <2>3, <2>5, <2>7, ExtendsAgrees DEF Even
  <2>9. Len(s) <= Len(d)
    BY <1>1, <2>6, <2>8 DEF Longest
  <2>10. Len(d) \in Nat
    BY <1>1, IsString, TreeConstants DEF Longest, TwoBitInv, GoodTree
  <2> HIDE DEF d
  <2>11. Len(q) <= Len(d)
    BY <2>1, <2>5, <2>9, <2>10
  <2> QED
    BY <2>11 DEF d
<1> QED
  BY <1>2, <1>3

\* A line keeps the tree of two bits right: the sons of an odd p are new.
LEMMA StepTwo ==
  ASSUME NEW p, NEW port, Inserted(p, port), root2' = InsertInfo2(p, port)
  PROVE  TwoBitInv'
<1> DEFINE evens == {Take(p, 2 * k) : k \in 0..(Len(p) \div 2)}
           g == Grown(root2, evens)
           sons == {Append(p, b) : b \in Bits}
<1>0. p \in Strings /\ Len(p) \in Nat /\ DOMAIN table \subseteq Strings /\ TwoBitInv
  BY IsString, TreeConstants DEF Inserted, TriesInv
<1>1. ASSUME NEW n \in evens
      PROVE  n \in Even /\ Extends(p, n)
  BY <1>0, Evens
<1>2. GoodTree(g, table)
  <2>1. ASSUME NEW n \in evens, NEW q \in DOMAIN table, Extends(n, q)
        PROVE  Len(q) <= Len(Deepest(root2, n))
    BY <1>0, <1>1, <2>1, TwoBitCover
  <2>2. evens \subseteq Strings
    BY <1>1 DEF Even
  <2> HIDE DEF evens
  <2> QED
    BY <1>0, <2>1, <2>2, GrowthIsGood DEF TwoBitInv
<1>3. DOMAIN g = DOMAIN root2 \cup evens
  BY DEF Grown
<1>5. p \in Even => p \in evens
  <2> SUFFICES ASSUME p \in Even PROVE p \in evens
    OBVIOUS
  <2>1. 2 * (Len(p) \div 2) = Len(p) /\ Len(p) \div 2 \in 0..(Len(p) \div 2)
    BY <1>0 DEF Even
  <2>2. Take(p, Len(p)) = p
    BY <1>0, OrderOfStrings DEF Extends
  <2> QED
    BY <2>1, <2>2
<1>6. table' = With(table, p, port) /\ DOMAIN table' = DOMAIN table \cup {p}
  BY DEF Inserted, With
<1>7. root2' = IF p \in Even
               THEN [g EXCEPT ![p] = port]
               ELSE [n \in DOMAIN g \cup sons |-> IF n \in DOMAIN g THEN g[n] ELSE port]
  BY <1>0 DEF InsertInfo2, Even
<1>8. DOMAIN root2' = DOMAIN g \cup (IF p \in Even THEN {} ELSE sons)
  BY <1>7
<1> HIDE DEF evens, g
<1>9. ASSUME NEW n \in DOMAIN g, Extends(n, p)
      PROVE  n = p
  <2>1. n \in Strings /\ Len(n) \in Nat
    BY <1>0, <1>1, <1>3, IsString, TreeConstants DEF TwoBitInv, GoodTree, Even
  <2>2. CASE n \in evens
    BY <1>0, <1>1, <1>9, <2>1, <2>2, OrderOfStrings DEF Extends
  <2>3. CASE n \in DOMAIN root2 /\ n # <<>>
    <3>1. PICK q \in DOMAIN table :
            Extends(q, n) \/ (q \notin Even /\ \E b \in Bits : n = Append(q, b))
      BY <1>0, <2>3 DEF TwoBitInv
    <3>2. q \in Strings /\ Len(q) \in Nat /\ ~ Extends(q, p)
      BY <1>0, IsString, TreeConstants DEF Inserted
    <3>3. CASE Extends(q, n)
      BY <1>0, <1>9, <2>1, <3>2, <3>3, OrderOfStrings
    <3>4. CASE q \notin Even /\ \E b \in Bits : n = Append(q, b)
      <4>1. Extends(n, q) /\ Len(n) = Len(q) + 1
        BY <3>2, <3>4, Sons
      <4>2. ~ (Len(p) <= Len(q))
        BY <1>0, <1>9, <2>1, <3>2, <4>1, OrderOfStrings
      <4>3. Len(n) <= Len(p)
        BY <1>0, <3>2, <4>1, <4>2
      <4> QED
        BY <1>0, <1>9, <2>1, <4>3, OrderOfStrings
    <3> QED
      BY <3>1, <3>3, <3>4
  <2>4. CASE n = <<>>
    <3>1. Len(n) <= Len(p)
      BY <1>0, <2>4, EmptyString
    <3> QED
      BY <1>0, <1>9, <2>1, <3>1, OrderOfStrings
  <2> QED
    BY <1>3, <2>2, <2>3, <2>4
<1>10. ASSUME NEW n \in DOMAIN g, n # p
       PROVE  Best(table', n, g[n])
  <2>1. Best(table, n, g[n]) /\ ~ Extends(n, p)
    BY <1>2, <1>9, <1>10 DEF GoodTree
  <2>2. Best(With(table, p, port), n, g[n])
    BY <1>0, <2>1, BestOff
  <2> QED
    BY <1>6, <2>2
<1>11. ASSUME NEW n \in sons \cup {p}, n = p \/ p \notin Even
       PROVE  Best(table', n, port)
  <2>1. Extends(n, p) /\ n \in Strings /\ Len(n) \in Nat /\ Len(n) <= Len(p) + 1
    <3>1. CASE n = p
      BY <1>0, <3>1, OrderOfStrings
    <3>2. CASE n # p
      <4>1. p \notin Even /\ \E b \in Bits : n = Append(p, b)
        BY <1>11, <3>2
      <4>2. Extends(n, p) /\ n \in Strings /\ Len(n) = Len(p) + 1
        BY <1>0, <4>1, Sons DEF Even
      <4> QED
        BY <1>0, <4>2
    <3> QED
      BY <3>1, <3>2
  <2>2. ASSUME NEW q \in DOMAIN table, Extends(n, q)
        PROVE  Len(q) <= Len(p)
    <3>1. q \in Strings /\ Len(q) \in Nat /\ ~ Extends(q, p)
      BY <1>0, IsString, TreeConstants DEF Inserted
    <3>2. ~ (Len(p) <= Len(q))
      BY <1>0, <2>1, <2>2, <3>1, OrderOfStrings
    <3> QED
      BY <1>0, <3>1, <3>2
  <2>3. Best(With(table, p, port), n, port)
    BY <1>0, <2>1, <2>2, BestOn
  <2> QED
    BY <1>6, <2>3
<1>12. ASSUME NEW n \in DOMAIN root2'
       PROVE  Best(table', n, root2'[n])
  <2>1. CASE p \in Even
    <3>1. n \in DOMAIN g /\ root2'[n] = IF n = p THEN port ELSE g[n]
      BY <1>7, <1>8, <2>1
    <3> QED
      BY <1>10, <1>11, <3>1
  <2>2. CASE p \notin Even
    <3>1. n \in DOMAIN g \cup sons /\ root2'[n] = IF n \in DOMAIN g THEN g[n] ELSE port
      BY <1>7, <1>8, <2>2
    <3>2. n \in DOMAIN g => n # p
      BY <1>0, <1>1, <1>3, <2>2 DEF TwoBitInv
    <3> QED
      BY <1>10, <1>11, <2>2, <3>1, <3>2
  <2> QED
    BY <2>1, <2>2
<1>13. DOMAIN root2' \subseteq Even
  <2>1. p \notin Even => sons \subseteq Even
    BY <1>0, Sons
  <2> HIDE DEF sons
  <2> QED
    BY <1>0, <1>1, <1>3, <1>8, <2>1 DEF TwoBitInv
<1>14. GoodTree(root2', table')
  BY <1>0, <1>3, <1>8, <1>12, <1>13 DEF TwoBitInv, GoodTree, Even
<1>15. \A q \in DOMAIN table' :
         IF q \in Even THEN q \in DOMAIN root2' ELSE \A b \in Bits : Append(q, b) \in DOMAIN root2'
  BY <1>0, <1>3, <1>5, <1>6, <1>8 DEF TwoBitInv
<1>16. ASSUME NEW n \in DOMAIN root2'
       PROVE  n = <<>> \/ \E q \in DOMAIN table' :
                            Extends(q, n) \/ (q \notin Even /\ \E b \in Bits : n = Append(q, b))
  <2>1. CASE n \in DOMAIN root2
    BY <1>0, <1>6, <2>1 DEF TwoBitInv
  <2>2. CASE n \in evens
    <3>1. Extends(p, n) /\ p \in DOMAIN table'
      BY <1>1, <1>6, <2>2
    <3> QED
      BY <3>1
  <2>3. CASE n \in sons /\ p \notin Even
    BY <1>6, <2>3
  <2> QED
    BY <1>3, <1>8, <2>1, <2>2, <2>3
<1> QED
  BY <1>13, <1>14, <1>15, <1>16 DEF TwoBitInv

----------------------------------------------------------------------------
\* Every line keeps both trees right.
LEMMA StepTries ==
  ASSUME ParentsFirst, TriesInv, [TreeNext]_treeVars
  PROVE  TriesInv'
<1>1. ASSUME NEW p \in Strings, NEW port \in Ports, Insert(p, port)
      PROVE  TriesInv'
  <2>1. Inserted(p, port) /\ root' = InsertInfo(p, port) /\ root2' = InsertInfo2(p, port)
    BY <1>1 DEF Inserted, Insert, With
  <2>2. DOMAIN table' = DOMAIN table \cup {p}
    BY <1>1 DEF Insert
  <2>3. OneBitInv' /\ TwoBitInv'
    BY <2>1, StepOne, StepTwo
  <2> QED
    BY <2>2, <2>3 DEF TriesInv
<1>2. CASE UNCHANGED treeVars
  BY <1>2 DEF treeVars, TriesInv, OneBitInv, TwoBitInv, GoodTree
<1> QED
  BY <1>1, <1>2 DEF TreeNext

\* With parents first the invariant holds of both trees of main.c, whatever the table.
THEOREM TriesInductive ==
  ASSUME ParentsFirst
  PROVE  TreeSpec => []TriesInv
BY InitTries, StepTries, PTL DEF TreeSpec

\* An address is a string of even length.
LEMMA AddressIsString ==
  ASSUME NEW a \in Address
  PROVE  a \in Even
<1>1. a \in [1..Width -> Bits] /\ Width \in 0..Width
  BY TreeConstants DEF Address
<1>2. a \in Strings
  BY <1>1 DEF Strings
<1>3. Len(a) = Width
  BY <1>1, TreeConstants
<1> QED
  BY <1>2, <1>3, TreeConstants DEF Even

\* lookup gives the answer of the table.
LEMMA OneBitMatches == TriesInv => LookupLongest
<1> SUFFICES ASSUME TriesInv, NEW a \in Address
             PROVE  Match(a, Lookup(a))
  BY DEF LookupLongest
<1>1. a \in Strings
  BY AddressIsString DEF Even
<1>2. ASSUME NEW q \in DOMAIN table, Extends(a, q)
      PROVE  Len(q) <= Len(Deepest(root, a))
  <2>1. Longest(DOMAIN root, a, Deepest(root, a))
    BY <1>1, DeepestIs DEF TriesInv, OneBitInv, GoodTree
  <2> QED
    BY <1>2, <2>1 DEF TriesInv, OneBitInv, Longest
<1>3. Best(table, a, root[Deepest(root, a)])
  BY <1>1, <1>2, FollowsDeepest DEF TriesInv, OneBitInv
<1> QED
  BY <1>3 DEF Best, Match, Lookup

\* So does lookup_2bit.
LEMMA TwoBitMatches == TriesInv => Lookup2BitLongest
<1> SUFFICES ASSUME TriesInv PROVE Lookup2BitLongest
  OBVIOUS
<1>1. TreeTypes
  BY DEF TriesInv, OneBitInv, TwoBitInv, GoodTree, TreeTypes
<1>2. ASSUME NEW a \in Address
      PROVE  Match(a, Lookup2Bit(a))
  <2>1. a \in Even /\ a \in Strings
    BY AddressIsString DEF Even
  <2>2. \A q \in DOMAIN table : Extends(a, q) => Len(q) <= Len(Deepest(root2, a))
    BY <2>1, TwoBitCover DEF TriesInv
  <2>3. Best(table, a, root2[Deepest(root2, a)])
    BY <2>1, <2>2, FollowsDeepest DEF TriesInv, TwoBitInv
  <2> QED
    BY <2>3 DEF Best, Match, Lookup2Bit
<1> QED
  BY <1>1, <1>2 DEF Lookup2BitLongest

\* For every table of any size, given parents first, the tree of one bit finds the port of
\* the longest prefix of every address (insert_info and lookup of 10-lookup/main.c:128-284).
THEOREM OneBitFindsLongest ==
  ASSUME ParentsFirst
  PROVE  TreeSpec => []LookupLongest
BY TriesInductive, OneBitMatches, PTL

\* And the tree of two bits, in which odd prefixes have no node of their own
\* (insert_info_2bit and lookup_2bit, main.c:165-314).
THEOREM TwoBitFindsLongest ==
  ASSUME ParentsFirst
  PROVE  TreeSpec => []Lookup2BitLongest
BY TriesInductive, TwoBitMatches, PTL

----------------------------------------------------------------------------
Number == 0..(SeqRange - 1)
Entry  == [seq : Number, adv : SUBSET Routers, missed : BOOLEAN]
Lsu    == [rid : Routers, seq : Number, adv : SUBSET Routers]

\* LSUs q could carry to router r: nobody is told of itself.
Foreign(q, r) == \A k \in 1..Len(q) : q[k].rid # r

Types ==
  /\ nbr_list \in [Routers -> SUBSET Routers] /\ \A r \in Routers : r \notin nbr_list[r]
  /\ sequence_num \in [Routers -> Number]
  /\ mospf_db \in [Routers -> [Routers -> Entry \cup {None}]]
  /\ \A r \in Routers : mospf_db[r][r] = None
  /\ chan \in [Wires -> Seq(Lsu)] /\ \A w \in Wires : Foreign(chan[w], w[2])
  /\ up \in SUBSET Links /\ faults \in Nat

----------------------------------------------------------------------------
(***************************************************************************)
(* Link-state routing: types.                                               *)
(***************************************************************************)
\* A link joins two routers.
LEMMA LinkJoins ==
  ASSUME NEW a, NEW b, {a, b} \in Links
  PROVE  a # b /\ a \in Routers /\ b \in Routers
<1>1. {a, b} \in SUBSET Routers /\ Cardinality({a, b}) = 2
  BY MospfConstants
<1>2. a = b => Cardinality({a, b}) = 1
  <2>1. a = b => {a, b} = {a}
    OBVIOUS
  <2> QED
    BY <2>1, FS_Singleton
<1> QED
  BY <1>1, <1>2

LEMMA WireJoins ==
  ASSUME NEW w \in Wires
  PROVE  /\ w = <<w[1], w[2]>> /\ w[1] # w[2] /\ w[1] \in Routers /\ w[2] \in Routers
         /\ {w[1], w[2]} \in Links
<1>1. w \in Routers \X Routers /\ {w[1], w[2]} \in Links
  BY DEF Wires
<1> QED
  BY <1>1, LinkJoins

LEMMA NumberStep ==
  ASSUME NEW n \in Number
  PROVE  (n + 1) % SeqRange \in Number
  BY MospfConstants, SMT DEF Number

LEMMA NoneIsNone == None.seq = -1 /\ None.adv = {} /\ None \notin Entry
  BY MospfConstants DEF None, Entry, Number

\* What the links carry after a router has sent.
LEMMA SentIs ==
  ASSUME NEW ch \in [Wires -> Seq(Lsu)], NEW a \in Routers, NEW tos \in SUBSET Routers, NEW m \in Lsu,
         \A w \in Wires : Foreign(ch[w], w[2]), m.rid \notin tos
  PROVE  /\ Sent(ch, a, tos, m) \in [Wires -> Seq(Lsu)]
         /\ \A w \in Wires : Foreign(Sent(ch, a, tos, m)[w], w[2])
<1> DEFINE s == Sent(ch, a, tos, m)
<1>1. s = [w \in Wires |-> s[w]]
  BY DEF Sent
<1>2. ASSUME NEW w \in Wires PROVE s[w] \in Seq(Lsu) /\ Foreign(s[w], w[2])
  <2>1. s[w] = IF w[1] = a /\ w[2] \in tos /\ {a, w[2]} \in up THEN Append(ch[w], m) ELSE ch[w]
    BY DEF Sent
  <2>2. ch[w] \in Seq(Lsu) /\ Foreign(ch[w], w[2])
    OBVIOUS
  <2>3. CASE w[2] \in tos
    <3>1. m.rid # w[2]
      BY <2>3
    <3>2. Append(ch[w], m) \in Seq(Lsu) /\ Foreign(Append(ch[w], m), w[2])
      BY <2>2, <3>1 DEF Foreign
    <3> HIDE DEF s
    <3> QED
      BY <2>1, <2>2, <3>2
  <2> HIDE DEF s
  <2> QED
    BY <2>1, <2>2, <2>3
<1> HIDE DEF s
<1>3. s \in [Wires -> Seq(Lsu)]
  BY <1>1, <1>2
<1> QED
  BY <1>2, <1>3 DEF s

LEMMA TailIs ==
  ASSUME NEW q \in Seq(Lsu), NEW r, Foreign(q, r), q # <<>>
  PROVE  Tail(q) \in Seq(Lsu) /\ Foreign(Tail(q), r) /\ Head(q) \in Lsu /\ Head(q).rid # r
<1>1. Tail(q) \in Seq(Lsu) /\ Head(q) \in Lsu /\ Head(q) = q[1] /\ 1 \in 1..Len(q)
  OBVIOUS
<1>2. \A k \in 1..Len(Tail(q)) : k + 1 \in 1..Len(q) /\ Tail(q)[k] = q[k + 1]
  OBVIOUS
<1> QED
  BY <1>1, <1>2 DEF Foreign

LEMMA InitTypes == Init => Types
<1> SUFFICES ASSUME Init PROVE Types
  OBVIOUS
<1>1. \A r \in Routers : Peers(r, Links) \in SUBSET Routers /\ r \notin Peers(r, Links)
  BY LinkJoins DEF Peers
<1>2. 1 \in Number
  BY MospfConstants DEF Number
<1>3. nbr_list \in [Routers -> SUBSET Routers] /\ \A r \in Routers : r \notin nbr_list[r]
  BY <1>1 DEF Init
<1>4. mospf_db \in [Routers -> [Routers -> Entry \cup {None}]]
  <2> DEFINE E(r, o) == IF o = r THEN None ELSE [seq |-> 1, adv |-> Peers(o, Links), missed |-> FALSE]
  <2>1. \A r, o \in Routers : E(r, o) \in Entry \cup {None}
    BY <1>1, <1>2 DEF Entry
  <2>2. mospf_db = [r \in Routers |-> [o \in Routers |-> E(r, o)]]
    BY DEF Init
  <2> HIDE DEF E
  <2> QED
    BY <2>1, <2>2
<1>5. chan \in [Wires -> Seq(Lsu)] /\ \A w \in Wires : Foreign(chan[w], w[2])
  BY DEF Init, Foreign
<1> QED
  BY <1>2, <1>3, <1>4, <1>5 DEF Init, Types

\* A router tells its neighbours of nbrs.
LEMMA AdvertiseTypes ==
  ASSUME Types, NEW r \in Routers, NEW nbrs \in SUBSET Routers, r \notin nbrs,
         Advertise(r, nbrs, chan)
  PROVE  /\ sequence_num' \in [Routers -> Number]
         /\ chan' \in [Wires -> Seq(Lsu)] /\ \A w \in Wires : Foreign(chan'[w], w[2])
         /\ \E m \in Lsu : m.rid = r /\ m.adv = nbrs /\ chan' = Sent(chan, r, nbrs, m)
<1>1. (sequence_num[r] + 1) % SeqRange \in Number
  BY NumberStep DEF Types
<1> DEFINE m == [rid |-> r, seq |-> (sequence_num[r] + 1) % SeqRange, adv |-> nbrs]
<1>2. m \in Lsu /\ m.rid = r /\ m.adv = nbrs
  BY <1>1 DEF Lsu
<1>3. chan' = Sent(chan, r, nbrs, m)
  BY DEF Advertise
<1>4. sequence_num' \in [Routers -> Number]
  BY <1>1 DEF Advertise, Types
<1> HIDE DEF m
<1> QED
  BY <1>2, <1>3, <1>4, SentIs DEF Types

LEMMA HelloTypes ==
  ASSUME Types, NEW r \in Routers, NEW n \in Routers, HandleHello(r, n) \/ CheckNbr(r, n)
  PROVE  Types'
<1>1. CASE HandleHello(r, n)
  <2>1. nbr_list[r] \cup {n} \in SUBSET Routers /\ r \notin nbr_list[r] \cup {n}
    BY <1>1, LinkJoins DEF HandleHello, Types
  <2>2. Advertise(r, nbr_list[r] \cup {n}, chan)
    BY <1>1 DEF HandleHello
  <2>3. nbr_list' \in [Routers -> SUBSET Routers] /\ \A s \in Routers : s \notin nbr_list'[s]
    BY <1>1, <2>1 DEF HandleHello, Types
  <2>4. UNCHANGED <<mospf_db, up, faults>>
    BY <1>1 DEF HandleHello
  <2> QED
    BY <2>1, <2>2, <2>3, <2>4, AdvertiseTypes DEF Types
<1>2. CASE CheckNbr(r, n)
  <2>1. nbr_list[r] \ {n} \in SUBSET Routers /\ r \notin nbr_list[r] \ {n}
    BY DEF Types
  <2>2. Advertise(r, nbr_list[r] \ {n}, chan)
    BY <1>2 DEF CheckNbr
  <2>3. nbr_list' \in [Routers -> SUBSET Routers] /\ \A s \in Routers : s \notin nbr_list'[s]
    BY <1>2, <2>1 DEF CheckNbr, Types
  <2>4. UNCHANGED <<mospf_db, up, faults>>
    BY <1>2 DEF CheckNbr
  <2> QED
    BY <2>1, <2>2, <2>3, <2>4, AdvertiseTypes DEF Types
<1> QED
  BY <1>1, <1>2

LEMMA MarkIs ==
  ASSUME NEW x \in Entry \cup {None}
  PROVE  LET e == [x EXCEPT !.missed = x # None]
         IN  e \in Entry \cup {None} /\ e.seq = x.seq /\ (x = None => e = None)
<1>0. [None EXCEPT !.missed = FALSE] = None
  <2>1. \A f : [[seq |-> -1, adv |-> {}, missed |-> f] EXCEPT !.missed = f] = [seq |-> -1, adv |-> {}, missed |-> f]
    OBVIOUS
  <2> QED
    BY <2>1, Zenon DEF None
<1>1. CASE x = None
  <2>1. (x # None) = FALSE
    BY <1>1
  <2> QED
    BY <1>0, <1>1, <2>1
<1>2. CASE x \in Entry
  <2>1. (x # None) = TRUE
    BY <1>2, NoneIsNone
  <2>2. [x EXCEPT !.missed = TRUE] \in Entry /\ [x EXCEPT !.missed = TRUE].seq = x.seq
    BY <1>2 DEF Entry
  <2> QED
    BY <2>1, <2>2
<1> QED
  BY <1>1, <1>2

\* The entries that wait for a refresh of o are marked.
LEMMA SendLsuDb ==
  ASSUME Types, NEW o \in Routers, SendLsu(o)
  PROVE  /\ mospf_db' \in [Routers -> [Routers -> Entry \cup {None}]]
         /\ \A r, p \in Routers : /\ mospf_db'[r][p].seq = mospf_db[r][p].seq
                                  /\ mospf_db[r][p] = None => mospf_db'[r][p] = None
<1> DEFINE E(r) == [mospf_db[r] EXCEPT ![o].missed = mospf_db[r][o] # None]
<1>1. mospf_db' = [r \in Routers |-> E(r)]
  BY DEF SendLsu
<1>2. ASSUME NEW r \in Routers
      PROVE  /\ E(r) \in [Routers -> Entry \cup {None}]
             /\ \A p \in Routers : /\ E(r)[p].seq = mospf_db[r][p].seq
                                   /\ mospf_db[r][p] = None => E(r)[p] = None
  <2> DEFINE d == mospf_db[r]
             e == [d[o] EXCEPT !.missed = d[o] # None]
  <2>1. d \in [Routers -> Entry \cup {None}] /\ d[o] \in Entry \cup {None}
    BY DEF Types
  <2>2. E(r) = [d EXCEPT ![o] = e]
    OBVIOUS
  <2>3. e \in Entry \cup {None} /\ e.seq = d[o].seq /\ (d[o] = None => e = None)
    <3> HIDE DEF d
    <3> QED
      BY <2>1, MarkIs
  <2> HIDE DEF d, e
  <2> QED
    BY <2>1, <2>2, <2>3 DEF d
<1> HIDE DEF E
<1> QED
  BY <1>1, <1>2

LEMMA SendTypes ==
  ASSUME Types, NEW o \in Routers, SendLsu(o)
  PROVE  Types'
<1>1. Advertise(o, nbr_list[o], chan) /\ UNCHANGED <<nbr_list, up, faults>>
  BY DEF SendLsu
<1>2. nbr_list[o] \in SUBSET Routers /\ o \notin nbr_list[o]
  BY DEF Types
<1>3. \A r \in Routers : mospf_db'[r][r] = None
  BY SendLsuDb DEF Types
<1>4. mospf_db' \in [Routers -> [Routers -> Entry \cup {None}]]
  BY SendLsuDb
<1>5. /\ sequence_num' \in [Routers -> Number]
      /\ chan' \in [Wires -> Seq(Lsu)] /\ \A w \in Wires : Foreign(chan'[w], w[2])
  BY <1>1, <1>2, AdvertiseTypes
<1> QED
  BY <1>1, <1>3, <1>4, <1>5 DEF Types

\* What is left of a link once its first LSU is taken.
LEMMA RestIs ==
  ASSUME Types, NEW w \in Wires, chan[w] # <<>>
  PROVE  LET rest == [chan EXCEPT ![w] = Tail(@)]
         IN  /\ rest \in [Wires -> Seq(Lsu)]
             /\ \A v \in Wires : Foreign(rest[v], v[2])
<1>1. Tail(chan[w]) \in Seq(Lsu) /\ Foreign(Tail(chan[w]), w[2])
  BY TailIs DEF Types
<1> QED
  BY <1>1 DEF Types

LEMMA LsuTypes ==
  ASSUME Types, NEW a \in Routers, NEW r \in Routers, <<a, r>> \in Wires, HandleLsu(a, r)
  PROVE  Types'
<1> DEFINE m == Head(chan[<<a, r>>])
           rest == [chan EXCEPT ![<<a, r>>] = Tail(@)]
           e == [seq |-> m.seq, adv |-> m.adv, missed |-> FALSE]
<1>1. chan[<<a, r>>] # <<>> /\ UNCHANGED <<nbr_list, sequence_num, up, faults>>
  BY DEF HandleLsu
<1>2. m \in Lsu /\ m.rid # r
  <2>1. chan[<<a, r>>] \in Seq(Lsu) /\ Foreign(chan[<<a, r>>], r)
    BY WireJoins DEF Types
  <2> QED
    BY <1>1, <2>1, TailIs
<1>3. rest \in [Wires -> Seq(Lsu)] /\ \A w \in Wires : Foreign(rest[w], w[2])
  BY <1>1, RestIs
<1>4. \/ mospf_db' = [mospf_db EXCEPT ![r][m.rid] = e] /\ chan' = Sent(rest, r, nbr_list[r] \ {m.rid}, m)
      \/ mospf_db' = mospf_db /\ chan' = rest
  BY DEF HandleLsu
<1>5. e \in Entry /\ m.rid \in Routers
  BY <1>2 DEF Entry, Lsu
<1> HIDE DEF m, rest, e
<1>6. nbr_list[r] \ {m.rid} \in SUBSET Routers /\ m.rid \notin nbr_list[r] \ {m.rid}
  BY DEF Types
<1>7. chan' \in [Wires -> Seq(Lsu)] /\ \A w \in Wires : Foreign(chan'[w], w[2])
  <2> DEFINE to == nbr_list[r] \ {m.rid}
  <2>1. to \in SUBSET Routers /\ m.rid \notin to
    BY <1>6
  <2> HIDE DEF to
  <2>2. /\ Sent(rest, r, to, m) \in [Wires -> Seq(Lsu)]
        /\ \A w \in Wires : Foreign(Sent(rest, r, to, m)[w], w[2])
    BY <1>2, <1>3, <2>1, SentIs
  <2> QED
    BY <1>3, <1>4, <2>2 DEF to
<1>8. /\ mospf_db' \in [Routers -> [Routers -> Entry \cup {None}]]
      /\ \A s \in Routers : mospf_db'[s][s] = None
  <2>1. CASE mospf_db' = [mospf_db EXCEPT ![r][m.rid] = e]
    <3> DEFINE d == [mospf_db[r] EXCEPT ![m.rid] = e]
    <3>1. mospf_db' = [mospf_db EXCEPT ![r] = d]
      BY <2>1
    <3>2. d \in [Routers -> Entry \cup {None}] /\ d[r] = None
      BY <1>2, <1>5 DEF Types
    <3> HIDE DEF d
    <3> QED
      BY <3>1, <3>2 DEF Types
  <2> QED
    BY <1>4, <2>1 DEF Types
<1> QED
  BY <1>1, <1>7, <1>8 DEF Types

LEMMA FaultTypes ==
  ASSUME Types,
         \/ \E r, o \in Routers : CheckDatabase(r, o)
         \/ \E r \in Routers : Restart(r)
         \/ \E w \in Wires : Lose(w)
         \/ \E l \in Links : Cut(l) \/ Mend(l)
  PROVE  Types'
<1>0. <<>> \in Seq(Lsu) /\ \A r : Foreign(<<>>, r)
  BY DEF Foreign
<1>1. ASSUME NEW r \in Routers, NEW o \in Routers, CheckDatabase(r, o) PROVE Types'
  <2> DEFINE d == [mospf_db[r] EXCEPT ![o] = None]
  <2>1. mospf_db' = [mospf_db EXCEPT ![r] = d] /\ UNCHANGED <<nbr_list, sequence_num, chan, up, faults>>
    BY <1>1 DEF CheckDatabase
  <2>2. d \in [Routers -> Entry \cup {None}] /\ d[r] = None
    BY DEF Types
  <2> HIDE DEF d
  <2> QED
    BY <2>1, <2>2 DEF Types
<1>2. ASSUME NEW r \in Routers, Restart(r) PROVE Types'
  <2> DEFINE d == [o \in Routers |-> None]
  <2>1. /\ mospf_db' = [mospf_db EXCEPT ![r] = d] /\ nbr_list' = [nbr_list EXCEPT ![r] = {}]
        /\ sequence_num' = [sequence_num EXCEPT ![r] = 0] /\ faults' = faults + 1 /\ up' = up
        /\ chan' = [w \in Wires |-> IF w[2] = r THEN <<>> ELSE chan[w]]
    BY <1>2 DEF Restart
  <2>2. d \in [Routers -> Entry \cup {None}] /\ d[r] = None /\ 0 \in Number
    BY MospfConstants DEF Number
  <2> HIDE DEF d
  <2>3. chan' \in [Wires -> Seq(Lsu)] /\ \A w \in Wires : Foreign(chan'[w], w[2])
    BY <1>0, <2>1 DEF Types
  <2>4. /\ mospf_db' \in [Routers -> [Routers -> Entry \cup {None}]]
        /\ \A s \in Routers : mospf_db'[s][s] = None
    BY <2>1, <2>2 DEF Types
  <2>5. nbr_list' \in [Routers -> SUBSET Routers] /\ \A s \in Routers : s \notin nbr_list'[s]
    BY <2>1 DEF Types
  <2> QED
    BY <2>1, <2>2, <2>3, <2>4, <2>5 DEF Types
<1>3. ASSUME NEW w \in Wires, Lose(w) PROVE Types'
  <2>1. /\ chan[w] # <<>> /\ chan' = [chan EXCEPT ![w] = Tail(@)] /\ faults' = faults + 1
        /\ UNCHANGED <<nbr_list, sequence_num, mospf_db, up>>
    BY <1>3 DEF Lose
  <2>2. chan' \in [Wires -> Seq(Lsu)] /\ \A v \in Wires : Foreign(chan'[v], v[2])
    BY <2>1, RestIs
  <2> QED
    BY <2>1, <2>2 DEF Types
<1>4. ASSUME NEW l \in Links, Cut(l) PROVE Types'
  <2>1. /\ up' = up \ {l} /\ faults' = faults + 1 /\ UNCHANGED <<nbr_list, sequence_num, mospf_db>>
        /\ chan' = [w \in Wires |-> IF {w[1], w[2]} = l THEN <<>> ELSE chan[w]]
    BY <1>4 DEF Cut
  <2>2. chan' \in [Wires -> Seq(Lsu)] /\ \A v \in Wires : Foreign(chan'[v], v[2])
    BY <1>0, <2>1 DEF Types
  <2> QED
    BY <2>1, <2>2 DEF Types
<1>5. ASSUME NEW l \in Links, Mend(l) PROVE Types'
  BY <1>5 DEF Mend, Types
<1> QED
  BY <1>1, <1>2, <1>3, <1>4, <1>5

LEMMA StepTypes == Types /\ [Next]_vars => Types'
<1> SUFFICES ASSUME Types, [Next]_vars PROVE Types'
  OBVIOUS
<1>1. CASE UNCHANGED vars
  BY <1>1 DEF vars, Types
<1>2. ASSUME NEW w \in Wires, HandleLsu(w[1], w[2]) PROVE Types'
  BY <1>2, WireJoins, LsuTypes
<1>3. ASSUME NEW r \in Refreshing, SendLsu(r) PROVE Types'
  BY <1>3, SendTypes, MospfConstants
<1> QED
  BY <1>1, <1>2, <1>3, HelloTypes, FaultTypes DEF Next

LEMMA TypesOk == Types => TypeOK
<1> SUFFICES ASSUME Types PROVE TypeOK
  OBVIOUS
<1>1. ASSUME NEW r \in Routers, NEW o \in Routers
      PROVE  LET e == mospf_db[r][o] IN e = None \/ (e.seq \in 0..(SeqRange - 1) /\ e.adv \subseteq Routers)
  <2>1. mospf_db[r][o] \in Entry \cup {None}
    BY DEF Types
  <2> QED
    BY <2>1 DEF Entry, Number
<1>2. ASSUME NEW w \in Wires, NEW m \in Range(chan[w]) PROVE m.rid # w[2] /\ m.rid \in Routers
  <2>1. chan[w] \in Seq(Lsu) /\ Foreign(chan[w], w[2])
    BY DEF Types
  <2>2. PICK k \in 1..Len(chan[w]) : m = chan[w][k]
    BY <2>1 DEF Range
  <2> QED
    <3>1. m \in Lsu /\ m.rid # w[2]
      BY <2>1, <2>2 DEF Foreign
    <3> QED
      BY <3>1 DEF Lsu
<1> QED
  BY <1>1, <1>2 DEF Types, TypeOK, Number

----------------------------------------------------------------------------
(***************************************************************************)
(* A flood ends.  A router sends an LSU on only if that raises its entry,   *)
(* and only a restart lowers one while the LSU is under way.  An originator *)
(* says the same again only after a neighbour was taken off its list and    *)
(* found again, and each that is taken off was cut off by a fault of its    *)
(* own.                                                                     *)
(***************************************************************************)
Places(q, m) == {k \in 1..Len(q) : q[k] = m}
Copies(q, m) == Cardinality(Places(q, m))

\* Neighbours of r that have not been missed yet.
Lost(r) == {n \in nbr_list[r] : {r, n} \notin up}

Spare(r) == faults - Cardinality(Lost(r))

\* How often w may carry m.
Allowed(w, m) ==
  IF m.rid = w[1] THEN Spare(w[1]) + (IF m.adv \subseteq nbr_list[w[1]] THEN 1 ELSE 0)
  ELSE faults + (IF m.seq <= mospf_db[w[1]][m.rid].seq THEN 1 ELSE 0)

LostInv  == \A r \in Routers : IsFiniteSet(Lost(r)) /\ Cardinality(Lost(r)) <= faults
CountInv == \A w \in Wires : \A m \in Lsu : Copies(chan[w], m) <= Allowed(w, m)
FloodInv == LostInv /\ CountInv

LEMMA CopiesIs ==
  ASSUME NEW q \in Seq(Lsu), NEW m
  PROVE  IsFiniteSet(Places(q, m)) /\ Copies(q, m) \in Nat /\ (Copies(q, m) > 0 => \E k \in 1..Len(q) : q[k] = m)
<1>1. Len(q) \in Nat /\ IsFiniteSet(1..Len(q))
  BY FS_Interval
<1>2. IsFiniteSet(Places(q, m))
  BY <1>1, FS_Subset DEF Places
<1>3. Cardinality(Places(q, m)) \in Nat
  BY <1>2, FS_CardinalityType
<1>4. Places(q, m) = {} => Cardinality(Places(q, m)) = 0
  BY FS_EmptySet
<1> QED
  BY <1>2, <1>3, <1>4 DEF Copies, Places

LEMMA CopiesAppend ==
  ASSUME NEW q \in Seq(Lsu), NEW x \in Lsu, NEW m
  PROVE  Copies(Append(q, x), m) = Copies(q, m) + (IF x = m THEN 1 ELSE 0)
<1> DEFINE n == Len(q) + 1
           a == Append(q, x)
<1>1. n \in Nat /\ n >= 1 /\ Len(a) = n /\ a[n] = x /\ \A k \in 1..Len(q) : k \in 1..n /\ a[k] = q[k]
  OBVIOUS
<1>2. n \notin 1..Len(q) /\ \A k \in 1..n : k \in 1..Len(q) \/ k = n
  OBVIOUS
<1> HIDE DEF n, a
<1>3. Places(a, m) = IF x = m THEN Places(q, m) \cup {n} ELSE Places(q, m)
  <2>1. n \in 1..n
    BY <1>1
  <2> QED
    BY <1>1, <1>2, <2>1 DEF Places
<1>4. n \notin Places(q, m)
  BY <1>2 DEF Places
<1>5. IsFiniteSet(Places(q, m)) /\ Cardinality(Places(q, m)) \in Nat
  BY CopiesIs DEF Copies
<1>6. Cardinality(Places(q, m) \cup {n}) = Cardinality(Places(q, m)) + 1
  BY <1>4, <1>5, FS_AddElement
<1> QED
  BY <1>3, <1>5, <1>6 DEF Copies, a

LEMMA CopiesTail ==
  ASSUME NEW q \in Seq(Lsu), q # <<>>, NEW m
  PROVE  Copies(Tail(q), m) <= Copies(q, m)
<1> DEFINE u == Tail(q)
           f == [k \in Places(u, m) |-> k + 1]
<1>1. u \in Seq(Lsu) /\ \A k \in 1..Len(u) : k \in Int /\ k + 1 \in 1..Len(q) /\ u[k] = q[k + 1]
  OBVIOUS
<1> HIDE DEF u
<1>2. \A k \in Places(u, m) : k \in Int /\ k + 1 \in Places(q, m)
  BY <1>1 DEF Places
<1>3. f \in Injection(Places(u, m), Places(q, m))
  <2>1. f \in [Places(u, m) -> Places(q, m)]
    BY <1>2
  <2>2. \A j, k \in Places(u, m) : f[j] = f[k] => j = k
    BY <1>2
  <2> HIDE DEF f
  <2> QED
    BY <2>1, <2>2 DEF Injection, IsInjective
<1>4. IsFiniteSet(Places(q, m))
  BY CopiesIs
<1> HIDE DEF f
<1>5. Cardinality(Places(u, m)) <= Cardinality(Places(q, m))
  BY <1>3, <1>4, FS_Injection
<1> QED
  BY <1>5 DEF Copies, u

LEMMA CopiesEmpty == \A m : Copies(<<>>, m) = 0
<1>1. \A m : Places(<<>>, m) = {}
  BY DEF Places
<1> QED
  BY <1>1, FS_EmptySet DEF Copies

\* What a packet adds to a link.
LEMMA CopiesSent ==
  ASSUME NEW ch \in [Wires -> Seq(Lsu)], NEW a, NEW tos, NEW x \in Lsu, NEW w \in Wires, NEW m
  PROVE  LET q == Sent(ch, a, tos, x)[w]
         IN  /\ Copies(q, m) \in Nat
             /\ Copies(q, m) <= Copies(ch[w], m) + (IF w[1] = a /\ x = m THEN 1 ELSE 0)
<1>1. Sent(ch, a, tos, x)[w] = IF w[1] = a /\ w[2] \in tos /\ {a, w[2]} \in up THEN Append(ch[w], x) ELSE ch[w]
  BY DEF Sent
<1>2. ch[w] \in Seq(Lsu) /\ Append(ch[w], x) \in Seq(Lsu)
  OBVIOUS
<1>3. Copies(ch[w], m) \in Nat /\ Copies(Append(ch[w], x), m) \in Nat
  BY <1>2, CopiesIs
<1>4. Copies(Append(ch[w], x), m) = Copies(ch[w], m) + (IF x = m THEN 1 ELSE 0)
  BY <1>2, CopiesAppend
<1> QED
  BY <1>1, <1>3, <1>4

\* What stays of what the links carry.
LEMMA CopiesStay ==
  ASSUME Types, NEW w \in Wires, NEW q, q = chan[w] \/ q = <<>> \/ (chan[w] # <<>> /\ q = Tail(chan[w])), NEW m
  PROVE  Copies(q, m) <= Copies(chan[w], m) /\ Copies(chan[w], m) \in Nat
<1>1. chan[w] \in Seq(Lsu)
  BY DEF Types
<1>2. Copies(chan[w], m) \in Nat
  BY <1>1, CopiesIs
<1>3. Copies(<<>>, m) = 0
  BY CopiesEmpty
<1>4. chan[w] # <<>> => Copies(Tail(chan[w]), m) <= Copies(chan[w], m)
  BY <1>1, CopiesTail
<1>5. CASE q = chan[w]
  BY <1>2, <1>5
<1>6. CASE q = <<>>
  BY <1>2, <1>3, <1>6
<1>7. CASE chan[w] # <<>> /\ q = Tail(chan[w])
  BY <1>2, <1>4, <1>7
<1> QED
  BY <1>5, <1>6, <1>7

\* An LSU that no link carries.
LEMMA NoCopies ==
  ASSUME Types, NEW w \in Wires, NEW m \in Lsu, ~UnderWay(m.rid)
  PROVE  Copies(chan[w], m) = 0
<1>1. chan[w] \in Seq(Lsu)
  BY DEF Types
<1>2. \A k \in 1..Len(chan[w]) : chan[w][k] \in Range(chan[w])
  BY <1>1 DEF Range
<1>3. \A k \in 1..Len(chan[w]) : chan[w][k] # m
  BY <1>2 DEF UnderWay
<1>4. Copies(chan[w], m) \in Nat /\ ~(Copies(chan[w], m) > 0)
  BY <1>1, <1>3, CopiesIs
<1> QED
  BY <1>4

\* The numbers that Allowed adds up.
LEMMA AllowedIs ==
  ASSUME Types, LostInv, NEW w \in Wires, NEW m \in Lsu
  PROVE  /\ Spare(w[1]) \in Nat /\ faults \in Nat
         /\ mospf_db[w[1]][m.rid].seq \in Int /\ m.seq \in Int /\ m.rid \in Routers
<1>1. IsFiniteSet(Lost(w[1])) /\ Cardinality(Lost(w[1])) <= faults /\ faults \in Nat
  BY WireJoins DEF LostInv, Types
<1>2. Cardinality(Lost(w[1])) \in Nat
  BY <1>1, FS_CardinalityType
<1>3. mospf_db[w[1]][m.rid] \in Entry \cup {None} /\ m.seq \in Number /\ m.rid \in Routers
  BY WireJoins DEF Types, Lsu
<1>4. mospf_db[w[1]][m.rid].seq \in Int
  BY <1>3, NoneIsNone DEF Entry, Number
<1>5. faults - Cardinality(Lost(w[1])) \in Nat
  BY <1>1, <1>2
<1> QED
  BY <1>1, <1>3, <1>4, <1>5 DEF Spare, Number

LEMMA InitFlood == Init /\ Types => FloodInv
<1> SUFFICES ASSUME Init, Types PROVE FloodInv
  OBVIOUS
<1>1. LostInv
  <2>1. \A r \in Routers : Lost(r) = {}
    BY DEF Init, Peers, Lost
  <2>2. IsFiniteSet({}) /\ Cardinality({}) = 0 /\ faults = 0
    BY FS_EmptySet DEF Init
  <2>3. ASSUME NEW r \in Routers PROVE IsFiniteSet(Lost(r)) /\ Cardinality(Lost(r)) <= faults
    <3>1. Lost(r) = {}
      BY <2>1
    <3> QED
      BY <2>2, <3>1
  <2> QED
    BY <2>3 DEF LostInv
<1>2. ASSUME NEW w \in Wires, NEW m \in Lsu PROVE Copies(chan[w], m) <= Allowed(w, m)
  <2>1. Copies(chan[w], m) = 0
    BY CopiesEmpty DEF Init
  <2> QED
    BY <1>1, <2>1, AllowedIs DEF Allowed
<1> QED
  BY <1>1, <1>2 DEF FloodInv, CountInv

LEMMA LostSame ==
  ASSUME LostInv, UNCHANGED <<nbr_list, up, faults>>
  PROVE  LostInv' /\ \A r : Spare(r)' = Spare(r)
<1>1. \A r : Lost(r)' = Lost(r)
  BY DEF Lost
<1>2. \A r : Spare(r)' = Spare(r)
  BY <1>1 DEF Spare
<1>3. ASSUME NEW r \in Routers PROVE (IsFiniteSet(Lost(r)) /\ Cardinality(Lost(r)) <= faults)'
  BY <1>1 DEF LostInv
<1> QED
  BY <1>2, <1>3 DEF LostInv

\* A router that advertises, on its own wires and on the others.
LEMMA AdvertiseCount ==
  ASSUME Types, Types', CountInv, NEW r \in Routers, NEW nbrs \in SUBSET Routers, r \notin nbrs,
         Advertise(r, nbrs, chan), NEW w \in Wires, NEW m \in Lsu
  PROVE  /\ Copies(chan[w], m) \in Nat /\ Copies(chan[w], m)' \in Nat
         /\ Copies(chan[w], m) <= Allowed(w, m)
         /\ \/ Copies(chan[w], m)' <= Copies(chan[w], m)
            \/ /\ w[1] = r /\ m.rid = r /\ m.adv = nbrs
               /\ Copies(chan[w], m)' <= Copies(chan[w], m) + 1
<1>1. PICK x \in Lsu : x.rid = r /\ x.adv = nbrs /\ chan' = Sent(chan, r, nbrs, x)
  BY AdvertiseTypes
<1>2. chan \in [Wires -> Seq(Lsu)]
  BY DEF Types
<1>3. Copies(chan[w], m) \in Nat
  BY <1>2, CopiesIs
<1>4. /\ Copies(Sent(chan, r, nbrs, x)[w], m) \in Nat
      /\ Copies(Sent(chan, r, nbrs, x)[w], m) <= Copies(chan[w], m) + (IF w[1] = r /\ x = m THEN 1 ELSE 0)
  BY <1>2, CopiesSent
<1>5. Copies(chan[w], m)' = Copies(Sent(chan, r, nbrs, x)[w], m)
  BY <1>1 DEF Copies, Places
<1>6. Copies(chan[w], m) <= Allowed(w, m)
  BY DEF CountInv
<1> QED
  BY <1>1, <1>3, <1>4, <1>5, <1>6

LEMMA HelloFlood ==
  ASSUME Types, Types', FloodInv, NEW r \in Routers, NEW n \in Routers, HandleHello(r, n)
  PROVE  FloodInv'
<1> DEFINE nbrs == nbr_list[r] \cup {n}
<1>1. /\ {r, n} \in up /\ n \notin nbr_list[r] /\ nbr_list' = [nbr_list EXCEPT ![r] = nbrs]
      /\ Advertise(r, nbrs, chan) /\ UNCHANGED <<mospf_db, up, faults>>
  BY DEF HandleHello
<1>2. nbrs \in SUBSET Routers /\ r \notin nbrs
  BY <1>1, LinkJoins DEF Types
<1>3. \A s \in Routers : nbr_list'[s] = IF s = r THEN nbrs ELSE nbr_list[s]
  BY <1>1 DEF Types
<1>4. \A s \in Routers : Lost(s)' = Lost(s)
  BY <1>1, <1>3 DEF Lost
<1>5. LostInv'
  <2>1. ASSUME NEW s \in Routers PROVE (IsFiniteSet(Lost(s)) /\ Cardinality(Lost(s)) <= faults)'
    BY <1>1, <1>4 DEF FloodInv, LostInv
  <2> QED
    BY <2>1 DEF LostInv
<1>6. ASSUME NEW w \in Wires, NEW m \in Lsu PROVE Copies(chan[w], m)' <= Allowed(w, m)'
  <2>1. /\ Copies(chan[w], m) \in Nat /\ Copies(chan[w], m)' \in Nat
        /\ Copies(chan[w], m) <= Allowed(w, m)
        /\ \/ Copies(chan[w], m)' <= Copies(chan[w], m)
           \/ /\ w[1] = r /\ m.rid = r /\ m.adv = nbrs
              /\ Copies(chan[w], m)' <= Copies(chan[w], m) + 1
    <3> HIDE DEF nbrs
    <3> QED
      BY <1>1, <1>2, AdvertiseCount DEF FloodInv
  <2>2. w[1] \in Routers /\ Spare(w[1])' = Spare(w[1])
    BY <1>1, <1>4, WireJoins DEF Spare
  <2>3. Spare(w[1]) \in Nat /\ faults \in Nat
    BY AllowedIs DEF FloodInv
  <2>4. nbr_list'[w[1]] = IF w[1] = r THEN nbrs ELSE nbr_list[w[1]]
    BY <1>3, <2>2
  <2>5. m.adv \subseteq nbr_list[w[1]] => m.adv \subseteq nbr_list'[w[1]]
    BY <2>4
  <2>6. m.adv = nbrs /\ w[1] = r => m.adv \subseteq nbr_list'[w[1]] /\ ~(m.adv \subseteq nbr_list[w[1]])
    BY <1>1, <2>4
  <2>7. /\ m.rid = w[1] => /\ Allowed(w, m) = Spare(w[1]) + (IF m.adv \subseteq nbr_list[w[1]] THEN 1 ELSE 0)
                           /\ Allowed(w, m)' = Spare(w[1]) + (IF m.adv \subseteq nbr_list'[w[1]] THEN 1 ELSE 0)
        /\ m.rid # w[1] => /\ Allowed(w, m)' = Allowed(w, m)
                           /\ Allowed(w, m) \in Nat
    BY <1>1, <2>2, <2>3 DEF Allowed
  <2> HIDE DEF nbrs
  <2>8. CASE m.rid # w[1]
    BY <2>1, <2>7, <2>8
  <2>9. CASE m.rid = w[1]
    <3>1. CASE Copies(chan[w], m)' <= Copies(chan[w], m)
      BY <2>1, <2>3, <2>5, <2>7, <2>9, <3>1
    <3>2. CASE w[1] = r /\ m.rid = r /\ m.adv = nbrs /\ Copies(chan[w], m)' <= Copies(chan[w], m) + 1
      BY <2>1, <2>3, <2>6, <2>7, <2>9, <3>2
    <3> QED
      BY <2>1, <3>1, <3>2
  <2> QED
    BY <2>8, <2>9
<1> QED
  BY <1>5, <1>6 DEF FloodInv, CountInv

LEMMA CheckFlood ==
  ASSUME Types, Types', FloodInv, NEW r \in Routers, NEW n \in Routers, CheckNbr(r, n)
  PROVE  FloodInv'
<1> DEFINE nbrs == nbr_list[r] \ {n}
<1>1. /\ {r, n} \notin up /\ n \in nbr_list[r] /\ nbr_list' = [nbr_list EXCEPT ![r] = nbrs]
      /\ Advertise(r, nbrs, chan) /\ UNCHANGED <<mospf_db, up, faults>>
  BY DEF CheckNbr
<1>2. nbrs \in SUBSET Routers /\ r \notin nbrs
  BY <1>1 DEF Types
<1>3. \A s \in Routers : nbr_list'[s] = IF s = r THEN nbrs ELSE nbr_list[s]
  BY <1>1 DEF Types
<1>4. \A s \in Routers : Lost(s)' = IF s = r THEN Lost(s) \ {n} ELSE Lost(s)
  BY <1>1, <1>3 DEF Lost
<1>5. \A s \in Routers : /\ (IsFiniteSet(Lost(s)) /\ Cardinality(Lost(s)) <= faults)'
                         /\ Spare(s)' = IF s = r THEN Spare(s) + 1 ELSE Spare(s)
  <2> TAKE s \in Routers
  <2>1. IsFiniteSet(Lost(s)) /\ Cardinality(Lost(s)) <= faults /\ Cardinality(Lost(s)) \in Nat
    BY FS_CardinalityType DEF FloodInv, LostInv
  <2>2. n \in Lost(r)
    BY <1>1 DEF Lost
  <2>3. IsFiniteSet(Lost(s) \ {n}) /\ (s = r => Cardinality(Lost(s) \ {n}) = Cardinality(Lost(s)) - 1)
    BY <2>1, <2>2, FS_RemoveElement
  <2>4. faults' = faults /\ faults \in Nat
    BY <1>1 DEF Types
  <2>5. CASE s = r
    <3>1. Lost(s)' = Lost(s) \ {n}
      BY <1>4, <2>5
    <3>2. Cardinality(Lost(s))' = Cardinality(Lost(s)) - 1 /\ IsFiniteSet(Lost(s))'
      BY <2>3, <2>5, <3>1
    <3> QED
      BY <2>1, <2>4, <2>5, <3>2 DEF Spare
  <2>6. CASE s # r
    <3>1. Lost(s)' = Lost(s)
      BY <1>4, <2>6
    <3> QED
      BY <2>1, <2>4, <2>6, <3>1 DEF Spare
  <2> QED
    BY <2>5, <2>6
<1>6. ASSUME NEW w \in Wires, NEW m \in Lsu PROVE Copies(chan[w], m)' <= Allowed(w, m)'
  <2>1. /\ Copies(chan[w], m) \in Nat /\ Copies(chan[w], m)' \in Nat
        /\ Copies(chan[w], m) <= Allowed(w, m)
        /\ \/ Copies(chan[w], m)' <= Copies(chan[w], m)
           \/ /\ w[1] = r /\ m.rid = r /\ m.adv = nbrs
              /\ Copies(chan[w], m)' <= Copies(chan[w], m) + 1
    <3> HIDE DEF nbrs
    <3> QED
      BY <1>1, <1>2, AdvertiseCount DEF FloodInv
  <2>2. w[1] \in Routers /\ Spare(w[1])' = IF w[1] = r THEN Spare(w[1]) + 1 ELSE Spare(w[1])
    BY <1>5, WireJoins
  <2>3. Spare(w[1]) \in Nat /\ faults \in Nat
    BY AllowedIs DEF FloodInv
  <2>4. nbr_list'[w[1]] = IF w[1] = r THEN nbrs ELSE nbr_list[w[1]]
    BY <1>3, <2>2
  <2>6. m.adv = nbrs /\ w[1] = r => m.adv \subseteq nbr_list'[w[1]]
    BY <1>1, <2>4
  <2>7. /\ m.rid = w[1] => /\ Allowed(w, m) = Spare(w[1]) + (IF m.adv \subseteq nbr_list[w[1]] THEN 1 ELSE 0)
                           /\ Allowed(w, m)' = Spare(w[1])' + (IF m.adv \subseteq nbr_list'[w[1]] THEN 1 ELSE 0)
        /\ m.rid # w[1] => /\ Allowed(w, m)' = Allowed(w, m)
                           /\ Allowed(w, m) \in Nat
    BY <1>1, <2>2, <2>3 DEF Allowed
  <2>5. w[1] # r => nbr_list'[w[1]] = nbr_list[w[1]]
    BY <2>4
  <2> HIDE DEF nbrs
  <2>8. CASE m.rid # w[1]
    BY <2>1, <2>7, <2>8
  <2>9. CASE m.rid = w[1]
    <3>1. CASE Copies(chan[w], m)' <= Copies(chan[w], m)
      BY <2>1, <2>2, <2>3, <2>5, <2>7, <2>9, <3>1
    <3>2. CASE w[1] = r /\ m.rid = r /\ m.adv = nbrs /\ Copies(chan[w], m)' <= Copies(chan[w], m) + 1
      BY <2>1, <2>2, <2>3, <2>6, <2>7, <2>9, <3>2
    <3> QED
      BY <2>1, <3>1, <3>2
  <2> QED
    BY <2>8, <2>9
<1> QED
  BY <1>5, <1>6 DEF FloodInv, CountInv, LostInv

LEMMA SendFlood ==
  ASSUME Types, Types', FloodInv, NEW o \in Routers, SendLsu(o)
  PROVE  FloodInv'
<1>1. Advertise(o, nbr_list[o], chan) /\ UNCHANGED <<nbr_list, up, faults>> /\ ~UnderWay(o)
  BY DEF SendLsu, Settled
<1>2. nbr_list[o] \in SUBSET Routers /\ o \notin nbr_list[o]
  BY DEF Types
<1>3. LostInv' /\ \A s : Spare(s)' = Spare(s)
  BY <1>1, LostSame DEF FloodInv
<1>4. ASSUME NEW w \in Wires, NEW m \in Lsu PROVE Copies(chan[w], m)' <= Allowed(w, m)'
  <2>1. /\ Copies(chan[w], m) \in Nat /\ Copies(chan[w], m)' \in Nat
        /\ Copies(chan[w], m) <= Allowed(w, m)
        /\ \/ Copies(chan[w], m)' <= Copies(chan[w], m)
           \/ /\ w[1] = o /\ m.rid = o /\ m.adv = nbr_list[o]
              /\ Copies(chan[w], m)' <= Copies(chan[w], m) + 1
    BY <1>1, <1>2, AdvertiseCount DEF FloodInv
  <2>2. w[1] \in Routers /\ mospf_db'[w[1]][m.rid].seq = mospf_db[w[1]][m.rid].seq
    BY SendLsuDb, WireJoins DEF Lsu
  <2>3. Spare(w[1]) \in Nat /\ faults \in Nat
    BY AllowedIs DEF FloodInv
  <2>4. Allowed(w, m)' = Allowed(w, m) /\ Allowed(w, m) \in Nat
    BY <1>1, <1>3, <2>2, <2>3 DEF Allowed
  <2>5. m.rid = o => Copies(chan[w], m) = 0
    BY <1>1, NoCopies
  <2>6. w[1] = o /\ m.rid = o /\ m.adv = nbr_list[o] => Allowed(w, m) = Spare(o) + 1
    BY DEF Allowed
  <2> QED
    BY <2>1, <2>3, <2>4, <2>5, <2>6
<1> QED
  BY <1>3, <1>4 DEF FloodInv, CountInv

LEMMA LsuFlood ==
  ASSUME Types, Types', FloodInv, NEW a \in Routers, NEW r \in Routers, <<a, r>> \in Wires, HandleLsu(a, r)
  PROVE  FloodInv'
<1> DEFINE x == Head(chan[<<a, r>>])
           rest == [chan EXCEPT ![<<a, r>>] = Tail(@)]
           tos == nbr_list[r] \ {x.rid}
<1>1. chan[<<a, r>>] # <<>> /\ UNCHANGED <<nbr_list, up, faults>>
  BY DEF HandleLsu
<1>2. x \in Lsu /\ x.rid # r
  <2>1. chan[<<a, r>>] \in Seq(Lsu) /\ Foreign(chan[<<a, r>>], r)
    BY WireJoins DEF Types
  <2> QED
    BY <1>1, <2>1, TailIs
<1>3. rest \in [Wires -> Seq(Lsu)]
  BY <1>1, RestIs
<1>4. \A w \in Wires : rest[w] = chan[w] \/ (chan[w] # <<>> /\ rest[w] = Tail(chan[w]))
  BY <1>1 DEF Types
<1>5. \/ /\ mospf_db[r][x.rid].seq < x.seq
         /\ mospf_db' = [mospf_db EXCEPT ![r][x.rid] = [seq |-> x.seq, adv |-> x.adv, missed |-> FALSE]]
         /\ chan' = Sent(rest, r, tos, x)
      \/ mospf_db' = mospf_db /\ chan' = rest
  BY DEF HandleLsu, Newer
<1>6. LostInv' /\ \A s : Spare(s)' = Spare(s)
  BY <1>1, LostSame DEF FloodInv
<1>7. x.rid \in Routers /\ x.seq \in Int
  BY <1>2 DEF Lsu, Number
<1> HIDE DEF x, rest, tos
<1>8. ASSUME NEW w \in Wires, NEW m \in Lsu PROVE Copies(chan[w], m)' <= Allowed(w, m)'
  <2>1. Copies(rest[w], m) <= Copies(chan[w], m) /\ Copies(chan[w], m) \in Nat
    BY <1>4, CopiesStay
  <2>2. Copies(rest[w], m) \in Nat
    BY <1>3, CopiesIs
  <2>3. Copies(chan[w], m) <= Allowed(w, m)
    BY DEF FloodInv, CountInv
  <2>4. /\ Spare(w[1]) \in Nat /\ faults \in Nat
        /\ mospf_db[w[1]][m.rid].seq \in Int /\ m.seq \in Int /\ m.rid \in Routers /\ w[1] \in Routers
    BY AllowedIs, WireJoins DEF FloodInv
  <2>5. CASE mospf_db' = mospf_db /\ chan' = rest
    <3>1. Copies(chan[w], m)' = Copies(rest[w], m)
      BY <2>5 DEF Copies, Places
    <3>2. Allowed(w, m)' = Allowed(w, m) /\ Allowed(w, m) \in Nat
      BY <1>1, <1>6, <2>4, <2>5 DEF Allowed
    <3> QED
      BY <2>1, <2>2, <2>3, <3>1, <3>2
  <2>6. CASE /\ mospf_db[r][x.rid].seq < x.seq
             /\ mospf_db' = [mospf_db EXCEPT ![r][x.rid] = [seq |-> x.seq, adv |-> x.adv, missed |-> FALSE]]
             /\ chan' = Sent(rest, r, tos, x)
    <3>1. /\ Copies(Sent(rest, r, tos, x)[w], m) \in Nat
          /\ Copies(Sent(rest, r, tos, x)[w], m) <= Copies(rest[w], m) + (IF w[1] = r /\ x = m THEN 1 ELSE 0)
      BY <1>2, <1>3, CopiesSent
    <3>2. Copies(chan[w], m)' = Copies(Sent(rest, r, tos, x)[w], m)
      BY <2>6 DEF Copies, Places
    <3>3. mospf_db'[w[1]][m.rid].seq = IF w[1] = r /\ m.rid = x.rid THEN x.seq ELSE mospf_db[w[1]][m.rid].seq
      <4>1. mospf_db \in [Routers -> [Routers -> Entry \cup {None}]]
        BY DEF Types
      <4> QED
        BY <1>7, <2>4, <2>6, <4>1
    <3>4. m.rid = w[1] => Allowed(w, m)' = Allowed(w, m) /\ Allowed(w, m) \in Nat /\ ~(w[1] = r /\ x = m)
      BY <1>1, <1>2, <1>6, <2>4 DEF Allowed
    <3>5. m.rid # w[1] =>
            /\ Allowed(w, m) = faults + (IF m.seq <= mospf_db[w[1]][m.rid].seq THEN 1 ELSE 0)
            /\ Allowed(w, m)' = faults + (IF m.seq <= mospf_db'[w[1]][m.rid].seq THEN 1 ELSE 0)
      BY <1>1 DEF Allowed
    <3>6. CASE m.rid = w[1]
      BY <2>1, <2>2, <2>3, <3>1, <3>2, <3>4, <3>6
    <3>7. CASE m.rid # w[1]
      <4>1. CASE w[1] = r /\ x = m
        BY <2>1, <2>2, <2>3, <2>4, <2>6, <3>1, <3>2, <3>3, <3>5, <3>7, <4>1
      <4>2. CASE ~(w[1] = r /\ x = m)
        <5>1. m.seq <= mospf_db[w[1]][m.rid].seq => m.seq <= mospf_db'[w[1]][m.rid].seq
          BY <1>7, <2>4, <2>6, <3>3
        <5> QED
          BY <2>1, <2>2, <2>3, <2>4, <3>1, <3>2, <3>5, <3>7, <4>2, <5>1
      <4> QED
        BY <4>1, <4>2
    <3> QED
      BY <3>6, <3>7
  <2> QED
    BY <1>5, <2>5, <2>6
<1> QED
  BY <1>6, <1>8 DEF FloodInv, CountInv

LEMMA DatabaseFlood ==
  ASSUME Types, FloodInv, NEW r \in Routers, NEW o \in Routers, CheckDatabase(r, o)
  PROVE  FloodInv'
<1>1. /\ mospf_db' = [mospf_db EXCEPT ![r][o] = None] /\ UNCHANGED <<nbr_list, chan, up, faults>>
      /\ ~UnderWay(o)
  BY DEF CheckDatabase, Aged
<1>2. LostInv' /\ \A s : Spare(s)' = Spare(s)
  BY <1>1, LostSame DEF FloodInv
<1>3. ASSUME NEW w \in Wires, NEW m \in Lsu PROVE Copies(chan[w], m)' <= Allowed(w, m)'
  <2>1. Copies(chan[w], m)' = Copies(chan[w], m)
    BY <1>1 DEF Copies, Places
  <2>2. Copies(chan[w], m) <= Allowed(w, m)
    BY DEF FloodInv, CountInv
  <2>3. Spare(w[1]) \in Nat /\ faults \in Nat
    BY AllowedIs DEF FloodInv
  <2>4. CASE m.rid = o
    <3>1. Copies(chan[w], m) = 0
      BY <1>1, <2>4, NoCopies
    <3>2. Allowed(w, m)' >= 0
      BY <1>1, <1>2, <2>3 DEF Allowed
    <3> QED
      BY <2>1, <3>1, <3>2
  <2>5. CASE m.rid # o
    <3>1. w[1] \in Routers /\ m.rid \in Routers /\ mospf_db \in [Routers -> [Routers -> Entry \cup {None}]]
      BY WireJoins DEF Lsu, Types
    <3>2. mospf_db'[w[1]][m.rid] = mospf_db[w[1]][m.rid]
      BY <1>1, <2>5, <3>1
    <3>3. Allowed(w, m)' = Allowed(w, m)
      BY <1>1, <1>2, <3>2 DEF Allowed
    <3> QED
      BY <2>1, <2>2, <3>3
  <2> QED
    BY <2>4, <2>5
<1> QED
  BY <1>2, <1>3 DEF FloodInv, CountInv

\* Nothing more is carried, and as much is allowed: because of one more fault, or because
\* lists and entries are no worse.
LEMMA LessCarried ==
  ASSUME Types, Types', FloodInv, LostInv',
         \A w \in Wires : \/ chan'[w] = chan[w] \/ chan'[w] = <<>>
                          \/ chan[w] # <<>> /\ chan'[w] = Tail(chan[w]),
         \/ faults' = faults + 1 /\ \A r \in Routers : Spare(r)' >= Spare(r) + 1
         \/ /\ faults' >= faults /\ UNCHANGED <<nbr_list, mospf_db>>
            /\ \A r \in Routers : Spare(r)' >= Spare(r)
  PROVE  FloodInv'
<1>1. ASSUME NEW w \in Wires, NEW m \in Lsu PROVE Copies(chan[w], m)' <= Allowed(w, m)'
  <2> DEFINE q == chan'[w]
  <2>1. q = chan[w] \/ q = <<>> \/ (chan[w] # <<>> /\ q = Tail(chan[w]))
    OBVIOUS
  <2>2. q \in Seq(Lsu)
    BY DEF Types
  <2>3. Copies(chan[w], m)' = Copies(q, m)
    BY DEF Copies, Places
  <2> HIDE DEF q
  <2>4. Copies(q, m) <= Copies(chan[w], m) /\ Copies(chan[w], m) \in Nat /\ Copies(q, m) \in Nat
    BY <2>1, <2>2, CopiesStay, CopiesIs
  <2>5. Copies(chan[w], m) <= Allowed(w, m)
    BY DEF FloodInv, CountInv
  <2>6. Spare(w[1]) \in Nat /\ faults \in Nat /\ w[1] \in Routers
    BY AllowedIs, WireJoins DEF FloodInv
  <2>7. Spare(w[1])' \in Nat /\ faults' \in Nat
    <3>1. (Spare(w[1]) \in Nat /\ faults \in Nat)'
      <4>1. (IsFiniteSet(Lost(w[1])) /\ Cardinality(Lost(w[1])) <= faults /\ faults \in Nat)'
        BY <2>6 DEF LostInv, Types
      <4>2. Cardinality(Lost(w[1])') \in Nat
        BY <4>1, FS_CardinalityType
      <4> QED
        BY <4>1, <4>2 DEF Spare
    <3> QED
      BY <3>1
  <2>8. Allowed(w, m) <= Allowed(w, m)'  /\ Allowed(w, m) \in Nat /\ Allowed(w, m)' \in Nat
    <3>1. CASE faults' = faults + 1 /\ \A r \in Routers : Spare(r)' >= Spare(r) + 1
      <4>1. Spare(w[1])' >= Spare(w[1]) + 1
        BY <2>6, <3>1
      <4> QED
        BY <2>6, <2>7, <3>1, <4>1 DEF Allowed
    <3>2. CASE faults' >= faults /\ UNCHANGED <<nbr_list, mospf_db>> /\ \A r \in Routers : Spare(r)' >= Spare(r)
      <4>1. Spare(w[1])' >= Spare(w[1])
        BY <2>6, <3>2
      <4>2. CASE m.rid = w[1]
        <5>1. /\ Allowed(w, m) = Spare(w[1]) + (IF m.adv \subseteq nbr_list[w[1]] THEN 1 ELSE 0)
              /\ Allowed(w, m)' = Spare(w[1])' + (IF m.adv \subseteq nbr_list[w[1]] THEN 1 ELSE 0)
          BY <3>2, <4>2 DEF Allowed
        <5> QED
          BY <2>6, <2>7, <4>1, <5>1
      <4>3. CASE m.rid # w[1]
        <5>1. /\ Allowed(w, m) = faults + (IF m.seq <= mospf_db[w[1]][m.rid].seq THEN 1 ELSE 0)
              /\ Allowed(w, m)' = faults' + (IF m.seq <= mospf_db[w[1]][m.rid].seq THEN 1 ELSE 0)
          BY <3>2, <4>3 DEF Allowed
        <5>2. faults \in Nat /\ faults' \in Nat /\ faults' >= faults
          BY <2>6, <2>7, <3>2
        <5>3. PICK one \in {0, 1} : Allowed(w, m) = faults + one /\ Allowed(w, m)' = faults' + one
          BY <5>1
        <5>4. faults + one \in Nat /\ faults' + one \in Nat /\ faults + one <= faults' + one
          BY <5>2
        <5> QED
          BY <5>3, <5>4
      <4> QED
        BY <4>2, <4>3
    <3> QED
      BY <3>1, <3>2
  <2> QED
    BY <2>3, <2>4, <2>5, <2>8
<1> QED
  BY <1>1 DEF FloodInv, CountInv

LEMMA FaultFlood ==
  ASSUME Types, Types', FloodInv,
         \/ \E r \in Routers : Restart(r)
         \/ \E w \in Wires : Lose(w)
         \/ \E l \in Links : Cut(l) \/ Mend(l)
  PROVE  FloodInv'
<1>0. \A r \in Routers : IsFiniteSet(Lost(r)) /\ Cardinality(Lost(r)) \in Nat /\ Cardinality(Lost(r)) <= faults
  BY FS_CardinalityType DEF FloodInv, LostInv
<1>01. faults \in Nat /\ faults' \in Nat
  BY DEF Types
<1>1. ASSUME NEW r \in Routers, Restart(r) PROVE FloodInv'
  <2>1. /\ nbr_list' = [nbr_list EXCEPT ![r] = {}] /\ faults' = faults + 1 /\ up' = up
        /\ chan' = [w \in Wires |-> IF w[2] = r THEN <<>> ELSE chan[w]]
    BY <1>1 DEF Restart
  <2>2. ASSUME NEW s \in Routers
        PROVE (IsFiniteSet(Lost(s)) /\ Cardinality(Lost(s)) <= faults)' /\ Spare(s)' >= Spare(s) + 1
    <3>1. CASE s = r
      <4>1. Lost(s)' = {}
        BY <2>1, <3>1 DEF Lost, Types
      <4>2. Cardinality(Lost(s))' = 0 /\ IsFiniteSet(Lost(s))'
        BY <4>1, FS_EmptySet
      <4> QED
        BY <1>0, <1>01, <2>1, <4>2 DEF Spare
    <3>2. CASE s # r
      <4>1. Lost(s)' = Lost(s)
        BY <2>1, <3>2 DEF Lost, Types
      <4> QED
        BY <1>0, <1>01, <2>1, <4>1 DEF Spare
    <3> QED
      BY <3>1, <3>2
  <2>3. LostInv'
    BY <2>2 DEF LostInv
  <2> QED
    BY <2>1, <2>2, <2>3, LessCarried
<1>2. ASSUME NEW w \in Wires, Lose(w) PROVE FloodInv'
  <2>1. /\ chan[w] # <<>> /\ chan' = [chan EXCEPT ![w] = Tail(@)] /\ faults' = faults + 1
        /\ UNCHANGED <<nbr_list, mospf_db, up>>
    BY <1>2 DEF Lose
  <2>2. ASSUME NEW s \in Routers
        PROVE (IsFiniteSet(Lost(s)) /\ Cardinality(Lost(s)) <= faults)' /\ Spare(s)' >= Spare(s) + 1
    <3>1. Lost(s)' = Lost(s)
      BY <2>1 DEF Lost
    <3> QED
      BY <1>0, <1>01, <2>1, <3>1 DEF Spare
  <2>3. LostInv'
    BY <2>2 DEF LostInv
  <2>4. \A v \in Wires : chan'[v] = chan[v] \/ (chan[v] # <<>> /\ chan'[v] = Tail(chan[v]))
    BY <2>1 DEF Types
  <2> QED
    BY <2>1, <2>2, <2>3, <2>4, LessCarried
<1>3. ASSUME NEW l \in Links, Cut(l) PROVE FloodInv'
  <2>1. /\ up' = up \ {l} /\ faults' = faults + 1 /\ UNCHANGED <<nbr_list, mospf_db>>
        /\ chan' = [w \in Wires |-> IF {w[1], w[2]} = l THEN <<>> ELSE chan[w]]
    BY <1>3 DEF Cut
  <2>2. ASSUME NEW s \in Routers
        PROVE (IsFiniteSet(Lost(s)) /\ Cardinality(Lost(s)) <= faults)' /\ Spare(s)' >= Spare(s)
    <3>1. \A n \in Lost(s)' : n \in Lost(s) \/ {s, n} = l
      BY <2>1 DEF Lost
    <3>2. PICK x : Lost(s)' \subseteq Lost(s) \cup {x}
      <4>1. CASE \E n : {s, n} = l
        <5>1. PICK n : {s, n} = l
          BY <4>1
        <5>2. \A k : {s, k} = l => k = n
          <6>1. s # n
            BY <5>1, LinkJoins
          <6> QED
            BY <5>1, <6>1
        <5> QED
          BY <3>1, <5>2
      <4>2. CASE ~ \E n : {s, n} = l
        BY <3>1, <4>2
      <4> QED
        BY <4>1, <4>2
    <3> DEFINE more == Lost(s) \cup {x}
    <3>3. IsFiniteSet(more) /\ Cardinality(more) <= Cardinality(Lost(s)) + 1 /\ Cardinality(more) \in Nat
      BY <1>0, FS_AddElement, FS_CardinalityType
    <3>4. Lost(s)' \in SUBSET more
      BY <3>2
    <3> HIDE DEF more
    <3>5. IsFiniteSet(Lost(s)') /\ Cardinality(Lost(s)') <= Cardinality(more)
      BY <3>3, <3>4, FS_Subset
    <3>6. Cardinality(Lost(s)') \in Nat
      BY <3>5, FS_CardinalityType
    <3> QED
      BY <1>0, <1>01, <2>1, <3>3, <3>5, <3>6 DEF Spare
  <2>3. LostInv'
    BY <2>2 DEF LostInv
  <2> QED
    BY <1>01, <2>1, <2>2, <2>3, LessCarried
<1>4. ASSUME NEW l \in Links, Mend(l) PROVE FloodInv'
  <2>1. up' = up \cup {l} /\ UNCHANGED <<nbr_list, mospf_db, chan, faults>>
    BY <1>4 DEF Mend
  <2>2. ASSUME NEW s \in Routers
        PROVE (IsFiniteSet(Lost(s)) /\ Cardinality(Lost(s)) <= faults)' /\ Spare(s)' >= Spare(s)
    <3>1. Lost(s)' \in SUBSET Lost(s)
      BY <2>1 DEF Lost
    <3>2. IsFiniteSet(Lost(s)') /\ Cardinality(Lost(s)') <= Cardinality(Lost(s))
      BY <1>0, <3>1, FS_Subset
    <3>3. Cardinality(Lost(s)') \in Nat
      BY <3>2, FS_CardinalityType
    <3> QED
      BY <1>0, <1>01, <2>1, <3>2, <3>3 DEF Spare
  <2>3. LostInv'
    BY <2>2 DEF LostInv
  <2> QED
    BY <1>01, <2>1, <2>2, <2>3, LessCarried
<1> QED
  BY <1>1, <1>2, <1>3, <1>4

LEMMA StepFlood == Types /\ Types' /\ FloodInv /\ [Next]_vars => FloodInv'
<1> SUFFICES ASSUME Types, Types', FloodInv, [Next]_vars PROVE FloodInv'
  OBVIOUS
<1>1. CASE UNCHANGED vars
  <2>1. LostInv' /\ UNCHANGED <<nbr_list, mospf_db, chan, faults>> /\ \A s \in Routers : Spare(s)' = Spare(s)
    BY <1>1, LostSame DEF vars, FloodInv
  <2>2. ASSUME NEW w \in Wires, NEW m \in Lsu PROVE Copies(chan[w], m)' <= Allowed(w, m)'
    <3>1. Copies(chan[w], m)' = Copies(chan[w], m) /\ Allowed(w, m)' = Allowed(w, m)
      BY <2>1, WireJoins DEF Copies, Places, Allowed
    <3> QED
      BY <3>1 DEF FloodInv, CountInv
  <2> QED
    BY <2>1, <2>2 DEF FloodInv, CountInv
<1>2. ASSUME NEW w \in Wires, HandleLsu(w[1], w[2]) PROVE FloodInv'
  BY <1>2, WireJoins, LsuFlood
<1>3. ASSUME NEW r \in Refreshing, SendLsu(r) PROVE FloodInv'
  BY <1>3, SendFlood, MospfConstants
<1>4. ASSUME NEW r \in Routers, NEW n \in Routers, HandleHello(r, n) \/ CheckNbr(r, n) \/ CheckDatabase(r, n)
      PROVE FloodInv'
  BY <1>4, HelloFlood, CheckFlood, DatabaseFlood
<1> QED
  BY <1>1, <1>2, <1>3, <1>4, FaultFlood DEF Next

\* Round whatever circle of links, no link carries an LSU more than once and once more for
\* each fault: a router sends on only what is newer than its entry
\* (mospf_daemon.c:280-302).
THEOREM FloodsEnd == Spec => []FloodOnce
<1>1. Types /\ FloodInv => FloodOnce
  <2> SUFFICES ASSUME Types, FloodInv, NEW w \in Wires, NEW m \in Range(chan[w])
               PROVE  Cardinality({k \in 1..Len(chan[w]) : chan[w][k] = m}) <= 1 + faults
    BY DEF FloodOnce
  <2>1. chan[w] \in Seq(Lsu)
    BY DEF Types
  <2>2. m \in Lsu
    BY <2>1 DEF Range
  <2>3. Copies(chan[w], m) <= Allowed(w, m) /\ Copies(chan[w], m) \in Nat
    BY <2>1, <2>2, CopiesIs DEF FloodInv, CountInv
  <2>4. Spare(w[1]) \in Nat /\ faults \in Nat
    BY <2>2, AllowedIs DEF FloodInv
  <2>5. Spare(w[1]) <= faults
    <3>1. IsFiniteSet(Lost(w[1]))
      BY WireJoins DEF FloodInv, LostInv
    <3>2. Cardinality(Lost(w[1])) \in Nat
      BY <3>1, FS_CardinalityType
    <3> QED
      BY <2>4, <3>2 DEF Spare
  <2>6. Allowed(w, m) <= 1 + faults /\ Allowed(w, m) \in Nat
    BY <2>4, <2>5 DEF Allowed
  <2>7. Copies(chan[w], m) <= 1 + faults
    BY <2>3, <2>4, <2>6
  <2> QED
    BY <2>7 DEF Copies, Places
<1> QED
  BY <1>1, InitTypes, StepTypes, InitFlood, StepFlood, PTL DEF Spec

----------------------------------------------------------------------------
(***************************************************************************)
(* Distances.                                                              *)
(***************************************************************************)
Ball(B) == B \cup UNION {Peers(u, up) : u \in B}

LEMMA WithinIs ==
  ASSUME NEW o \in Routers
  PROVE  /\ Within(o)[0] = {o}
         /\ \A k \in Nat : Within(o)[k] \subseteq Routers /\ Within(o)[k + 1] = Ball(Within(o)[k])
<1> DEFINE step == [B \in SUBSET Routers |-> Ball(B)]
<1> HIDE DEF step
<1>1. PICK f : f = [k \in Nat |-> IF k = 0 THEN {o} ELSE step[f[k - 1]]]
  <2>1. \E f : Endless(f, {o}, step)
    BY EndlessExists
  <2> QED
    BY <2>1 DEF Endless
<1>2. \A k \in Nat : f[k] = IF k = 0 THEN {o} ELSE step[f[k - 1]]
  BY <1>1
<1>3. ASSUME NEW k \in Nat PROVE f[k + 1] = step[f[k]]
  <2>1. k + 1 \in Nat /\ k + 1 # 0 /\ (k + 1) - 1 = k
    OBVIOUS
  <2> QED
    BY <1>2, <2>1
<1>4. \A B \in SUBSET Routers : step[B] = Ball(B) /\ step[B] \in SUBSET Routers
  BY DEF step, Ball, Peers
<1> DEFINE S == {k \in Nat : f[k] \in SUBSET Routers}
<1>5. 0 \in S
  BY <1>2
<1>6. \A k \in Nat : k \in S => k + 1 \in S
  BY <1>3, <1>4
<1> HIDE DEF S
<1>7. \A k \in Nat : k \in S
  BY <1>5, <1>6, AllNat
<1>8. \A k \in Nat : f[k] \in SUBSET Routers
  BY <1>7 DEF S
<1>9. ASSUME NEW k \in Nat, k # 0 PROVE k - 1 \in Nat /\ f[k] = Ball(f[k - 1])
  BY <1>2, <1>4, <1>8, <1>9
<1>10. f = [k \in Nat |-> IF k = 0 THEN {o} ELSE Ball(f[k - 1])]
  <2>1. \A k \in Nat : f[k] = IF k = 0 THEN {o} ELSE Ball(f[k - 1])
    BY <1>2, <1>9
  <2>2. f = [k \in Nat |-> f[k]]
    BY <1>1
  <2> QED
    BY <2>1, <2>2
<1>11. Within(o) = CHOOSE g : g = [k \in Nat |-> IF k = 0 THEN {o} ELSE Ball(g[k - 1])]
  BY DEF Within, Ball
<1>12. Within(o) = [k \in Nat |-> IF k = 0 THEN {o} ELSE Ball(Within(o)[k - 1])]
  <2> DEFINE P(g) == g = [k \in Nat |-> IF k = 0 THEN {o} ELSE Ball(g[k - 1])]
  <2>1. P(f) /\ Within(o) = CHOOSE g : P(g)
    BY <1>10, <1>11
  <2>2. P(Within(o))
    BY <2>1
  <2> QED
    BY <2>2
<1> DEFINE T == {k \in Nat : Within(o)[k] = f[k]}
<1>13. \A k \in Nat : Within(o)[k] = IF k = 0 THEN {o} ELSE Ball(Within(o)[k - 1])
  BY <1>12
<1>14. ASSUME NEW k \in Nat PROVE Within(o)[k + 1] = Ball(Within(o)[k])
  <2>1. k + 1 \in Nat /\ k + 1 # 0 /\ (k + 1) - 1 = k
    OBVIOUS
  <2> QED
    BY <1>13, <2>1
<1> DEFINE U == {k \in Nat : Within(o)[k] \subseteq Routers}
<1>15. 0 \in U
  BY <1>13
<1>16. \A k \in Nat : k \in U => k + 1 \in U
  <2>1. \A B \in SUBSET Routers : Ball(B) \in SUBSET Routers
    BY <1>4
  <2> QED
    BY <1>14, <2>1
<1> HIDE DEF U
<1>17. \A k \in Nat : k \in U
  BY <1>15, <1>16, AllNat
<1> QED
  BY <1>13, <1>14, <1>17 DEF U

LEMMA WithinNear ==
  ASSUME NEW o \in Routers, NEW k \in Nat, NEW w \in Routers
  PROVE  w \in Within(o)[k + 1] <=>
           w \in Within(o)[k] \/ \E u \in Routers : u \in Within(o)[k] /\ {u, w} \in up
<1>1. PICK B : B = Within(o)[k]
  OBVIOUS
<1>2. B \subseteq Routers /\ Within(o)[k + 1] = Ball(B)
  BY <1>1, WithinIs
<1>3. w \in Ball(B) <=> w \in B \/ \E u \in Routers : u \in B /\ {u, w} \in up
  <2>1. w \in Ball(B) <=> w \in B \/ \E u \in B : w \in Peers(u, up)
    BY DEF Ball
  <2>2. \A u \in B : w \in Peers(u, up) <=> {u, w} \in up
    BY DEF Peers
  <2> QED
    BY <1>2, <2>1, <2>2
<1> QED
  BY <1>1, <1>2, <1>3

LEMMA WithinGrows ==
  ASSUME NEW o \in Routers
  PROVE  \A k \in Nat : \A j \in 0..k : Within(o)[j] \subseteq Within(o)[k]
<1> DEFINE S == {k \in Nat : \A j \in 0..k : Within(o)[j] \subseteq Within(o)[k]}
<1>1. 0 \in S
  OBVIOUS
<1>2. ASSUME NEW k \in Nat, k \in S PROVE k + 1 \in S
  <2>1. Within(o)[k] \subseteq Within(o)[k + 1]
    BY WithinIs, WithinNear
  <2>2. ASSUME NEW j \in 0..(k + 1) PROVE Within(o)[j] \subseteq Within(o)[k + 1]
    <3>1. CASE j = k + 1
      BY <3>1
    <3>2. CASE j # k + 1
      <4>1. j \in 0..k
        BY <3>2
      <4> QED
        BY <1>2, <2>1, <4>1
    <3> QED
      BY <3>1, <3>2
  <2> QED
    BY <2>2
<1> HIDE DEF S
<1>3. \A k \in Nat : k \in S
  BY <1>1, <1>2, AllNat
<1> QED
  BY <1>3 DEF S

\* From a neighbour it is at most one link further.
LEMMA WithinPeer ==
  ASSUME NEW v \in Routers, NEW w \in Routers, {v, w} \in up
  PROVE  \A k \in Nat : Within(w)[k] \subseteq Within(v)[k + 1]
<1> DEFINE S == {k \in Nat : Within(w)[k] \subseteq Within(v)[k + 1]}
<1>1. 0 \in S
  <2>1. v \in Within(v)[0] /\ Within(w)[0] = {w} /\ 0 \in Nat
    BY WithinIs
  <2>2. w \in Within(v)[0 + 1]
    BY <2>1, WithinNear
  <2> QED
    BY <2>1, <2>2
<1>2. ASSUME NEW k \in Nat, k \in S PROVE k + 1 \in S
  <2>1. Within(w)[k] \subseteq Within(v)[k + 1] /\ k + 1 \in Nat
    BY <1>2
  <2>2. ASSUME NEW x \in Within(w)[k + 1] PROVE x \in Within(v)[(k + 1) + 1]
    <3>1. x \in Routers
      BY <2>1, WithinIs
    <3>2. \/ x \in Within(w)[k]
          \/ \E u \in Routers : u \in Within(w)[k] /\ {u, x} \in up
      BY <2>2, <3>1, WithinNear
    <3>3. \/ x \in Within(v)[k + 1]
          \/ \E u \in Routers : u \in Within(v)[k + 1] /\ {u, x} \in up
      BY <2>1, <3>2
    <3> QED
      BY <2>1, <3>1, <3>3, WithinNear
  <2> QED
    BY <2>1, <2>2
<1> HIDE DEF S
<1>3. \A k \in Nat : k \in S
  BY <1>1, <1>2, AllNat
<1> QED
  BY <1>3 DEF S

LEMMA WithinSymmetric ==
  ASSUME NEW a \in Routers
  PROVE  \A k \in Nat : \A c \in Routers : c \in Within(a)[k] => a \in Within(c)[k]
<1> DEFINE S == {k \in Nat : \A c \in Routers : c \in Within(a)[k] => a \in Within(c)[k]}
<1>1. 0 \in S
  BY WithinIs
<1>2. ASSUME NEW k \in Nat, k \in S PROVE k + 1 \in S
  <2>1. ASSUME NEW c \in Routers, c \in Within(a)[k + 1] PROVE a \in Within(c)[k + 1]
    <3>1. CASE c \in Within(a)[k]
      BY <1>2, <3>1, WithinNear
    <3>2. CASE \E u \in Routers : u \in Within(a)[k] /\ {u, c} \in up
      <4>1. PICK u \in Routers : u \in Within(a)[k] /\ {u, c} \in up
        BY <3>2
      <4>2. a \in Within(u)[k] /\ {c, u} \in up
        <5>1. {c, u} = {u, c}
          OBVIOUS
        <5> QED
          BY <1>2, <4>1, <5>1
      <4> QED
        BY <4>2, WithinPeer
    <3> QED
      BY <2>1, <3>1, <3>2, WithinNear
  <2> QED
    BY <2>1
<1> HIDE DEF S
<1>3. \A k \in Nat : k \in S
  BY <1>1, <1>2, AllNat
<1> QED
  BY <1>3 DEF S

LEMMA Size == Cardinality(Routers) \in Nat /\ Cardinality(Routers) < Far /\ Far \in Nat
BY MospfConstants, FS_CardinalityType DEF Far

LEMMA DistanceIs ==
  ASSUME NEW r \in Routers, NEW o \in Routers, r \in Within(o)[Cardinality(Routers)]
  PROVE  /\ Distance(r, o) \in 0..Cardinality(Routers)
         /\ r \in Within(o)[Distance(r, o)]
         /\ \A j \in 0..(Distance(r, o) - 1) : r \notin Within(o)[j]
<1> DEFINE N == Cardinality(Routers)
           P(k) == r \in Within(o)[k] /\ \A j \in 0..(k - 1) : r \notin Within(o)[j]
           S == {k \in Nat : r \in Within(o)[k]}
<1>1. N \in Nat /\ N \in S
  BY Size
<1>2. PICK m \in S : \A k \in S : m <= k
  <2> HIDE DEF S
  <2>1. S \in SUBSET Nat /\ S # {}
    BY <1>1 DEF S
  <2> QED
    BY <2>1, LeastNat
<1>3. m \in 0..N /\ P(m)
  BY <1>1, <1>2
<1>4. Distance(r, o) = CHOOSE k \in 0..N : P(k)
  BY DEF Distance
<1> QED
  BY <1>3, <1>4

\* How many links a router is away, when there is a least number of them.
LEMMA DistanceOnly ==
  ASSUME NEW r \in Routers, NEW o \in Routers, NEW n \in 0..Cardinality(Routers),
         r \in Within(o)[n], \A j \in 0..(n - 1) : r \notin Within(o)[j]
  PROVE  Distance(r, o) = n
<1>1. Cardinality(Routers) \in Nat /\ n \in Nat /\ n <= Cardinality(Routers)
  BY Size
<1>2. n \in 0..Cardinality(Routers) /\ r \in Within(o)[Cardinality(Routers)]
  BY <1>1, WithinGrows
<1>3. /\ Distance(r, o) \in 0..Cardinality(Routers)
      /\ r \in Within(o)[Distance(r, o)]
      /\ \A j \in 0..(Distance(r, o) - 1) : r \notin Within(o)[j]
  BY <1>2, DistanceIs
<1>4. ~ (Distance(r, o) < n)
  BY <1>1, <1>3
<1>5. ~ (n < Distance(r, o))
  BY <1>1, <1>3
<1> QED
  BY <1>1, <1>3, <1>4, <1>5

LEMMA DistanceSymmetric ==
  ASSUME NEW r \in Routers, NEW o \in Routers, r \in Within(o)[Cardinality(Routers)]
  PROVE  Distance(o, r) = Distance(r, o)
<1>1. /\ Distance(r, o) \in 0..Cardinality(Routers)
      /\ r \in Within(o)[Distance(r, o)]
      /\ \A j \in 0..(Distance(r, o) - 1) : r \notin Within(o)[j]
  BY DistanceIs
<1> DEFINE n == Distance(r, o)
<1> HIDE DEF n
<1>2. n \in 0..Cardinality(Routers) /\ r \in Within(o)[n] /\ \A j \in 0..(n - 1) : r \notin Within(o)[j]
  BY <1>1 DEF n
<1>3. n \in Nat /\ \A j \in 0..(n - 1) : j \in Nat
  BY <1>2
<1>4. o \in Within(r)[n] /\ \A j \in 0..(n - 1) : o \notin Within(r)[j]
  BY <1>2, <1>3, WithinSymmetric
<1>5. Distance(o, r) = n
  BY <1>2, <1>4, DistanceOnly
<1> QED
  BY <1>5 DEF n

\* Distances d from r in a graph of routers V and edges E: a neighbour is at most one link
\* further, and every other router has a neighbour that is one link nearer.
Measured(V, E, r, d) ==
  /\ r \in V /\ E \subseteq V \X V /\ d \in [V -> 0..(Far - 1)] /\ d[r] = 0
  /\ \A v \in V \ {r} : d[v] # 0 /\ \E u \in V : <<u, v>> \in E /\ d[v] = d[u] + 1
  /\ \A u, v \in V : <<u, v>> \in E => d[v] <= d[u] + 1

LEMMA AgreedGraph ==
  ASSUME Types, Agreed, NEW r \in Routers
  PROVE  /\ Listed(r) = {o \in Routers : Connected(r, o)} /\ r \in Listed(r)
         /\ Edges(r) = {e \in Listed(r) \X Listed(r) : {e[1], e[2]} \in up}
<1>1. /\ nbr_list[r] = Peers(r, up) /\ mospf_db[r][r] = None
      /\ \A o \in Routers \ {r} : EntryRight(r, o)
  BY DEF Types, Agreed
<1>2. Connected(r, r)
  BY Size, WithinIs, WithinGrows DEF Connected
<1>3. Listed(r) = {o \in Routers : Connected(r, o)}
  BY <1>1, <1>2 DEF Listed, EntryRight
<1>4. ASSUME NEW a \in Listed(r), NEW b \in Listed(r)
      PROVE  (b \in mospf_db[r][a].adv \/ a \in mospf_db[r][b].adv) <=> {a, b} \in up
  <2>1. a \in Routers /\ b \in Routers /\ Connected(r, a) /\ Connected(r, b) /\ {a, b} = {b, a}
    BY <1>3
  <2>2. \A c \in {a, b} : c # r => mospf_db[r][c].adv = Peers(c, up)
    BY <1>1, <2>1 DEF EntryRight
  <2>3. \A c \in {a, b} : c = r => mospf_db[r][c].adv = {}
    BY <1>1, NoneIsNone
  <2>4. CASE a = r /\ b = r
    <3>1. {a, b} \notin up
      BY <2>1, <2>4, LinkJoins DEF Types
    <3> QED
      BY <2>3, <2>4, <3>1
  <2>5. CASE a # r \/ b # r
    BY <2>1, <2>2, <2>3, <2>5 DEF Peers
  <2> QED
    BY <2>4, <2>5
<1>5. Edges(r) = {e \in Listed(r) \X Listed(r) : {e[1], e[2]} \in up}
  <2>1. \A e \in Listed(r) \X Listed(r) :
          (e[2] \in mospf_db[r][e[1]].adv \/ e[1] \in mospf_db[r][e[2]].adv) <=> {e[1], e[2]} \in up
    BY <1>4
  <2> QED
    BY <2>1 DEF Edges
<1> QED
  BY <1>2, <1>3, <1>5

LEMMA RealDistances ==
  ASSUME Types, Agreed, NEW r \in Routers
  PROVE  Measured(Listed(r), Edges(r), r, [v \in Listed(r) |-> Distance(v, r)])
<1> DEFINE V == Listed(r)
           E == Edges(r)
           d == [v \in Listed(r) |-> Distance(v, r)]
           N == Cardinality(Routers)
<1>1. /\ V \subseteq Routers /\ r \in V /\ \A v \in Routers : v \in V <=> v \in Within(r)[N]
      /\ \A u, v \in V : <<u, v>> \in E <=> {u, v} \in up
      /\ E \subseteq V \X V
  <2>1. /\ V = {o \in Routers : o \in Within(r)[N]} /\ r \in V
        /\ E = {e \in V \X V : {e[1], e[2]} \in up}
    BY AgreedGraph DEF Connected
  <2> HIDE DEF V, E
  <2>2. \A u, v \in V : <<u, v>> \in V \X V /\ <<u, v>>[1] = u /\ <<u, v>>[2] = v
    OBVIOUS
  <2> QED
    BY <2>1, <2>2
<1>2. N \in Nat /\ N < Far
  BY Size
<1>3. \A v \in V : /\ d[v] \in 0..N /\ v \in Within(r)[d[v]]
                   /\ \A j \in 0..(d[v] - 1) : v \notin Within(r)[j]
  BY <1>1, DistanceIs
<1>4. d = [v \in V |-> d[v]]
  OBVIOUS
<1> HIDE DEF V, E, d, N
<1>5. d \in [V -> 0..(Far - 1)]
  BY <1>2, <1>3, <1>4 DEF Far
<1>6. d[r] = 0
  <2>1. d[r] # 0 => 0 \in 0..(d[r] - 1)
    BY <1>1, <1>2, <1>3
  <2> QED
    BY <1>1, <1>3, <2>1, WithinIs
<1>7. ASSUME NEW v \in V \ {r} PROVE d[v] # 0 /\ \E u \in V : <<u, v>> \in E /\ d[v] = d[u] + 1
  <2>1. d[v] # 0
    BY <1>1, <1>3, WithinIs
  <2>2. d[v] \in 0..N
    BY <1>3
  <2> DEFINE k == d[v] - 1
  <2> HIDE DEF k
  <2>3. k \in Nat /\ d[v] = k + 1 /\ k < N /\ k \in 0..(d[v] - 1)
    BY <1>2, <2>1, <2>2 DEF k
  <2>4. v \in Within(r)[k + 1] /\ v \notin Within(r)[k]
    BY <1>3, <2>3
  <2>5. PICK u \in Routers : u \in Within(r)[k] /\ {u, v} \in up
    BY <1>1, <2>3, <2>4, WithinNear
  <2>6. k \in 0..N
    BY <1>2, <2>3
  <2>7. u \in V
    BY <1>1, <1>2, <2>5, <2>6, WithinGrows
  <2>8. ~ (d[u] > k)
    <3>1. d[u] > k => k \in 0..(d[u] - 1)
      BY <1>3, <2>3, <2>7
    <3> QED
      BY <1>3, <2>5, <2>7, <3>1
  <2>9. ~ (d[u] < k)
    <3>1. d[u] < k => d[u] + 1 \in 0..(d[v] - 1) /\ d[u] \in Nat
      BY <1>3, <2>3, <2>7
    <3>2. d[u] \in Nat
      BY <1>3, <2>7
    <3>3. v \in Within(r)[d[u] + 1]
      BY <1>1, <1>3, <2>5, <2>7, <3>2, WithinNear
    <3> QED
      BY <1>3, <3>1, <3>3
  <2>10. d[u] = k
    BY <1>3, <2>3, <2>7, <2>8, <2>9
  <2> QED
    BY <1>1, <2>1, <2>3, <2>5, <2>7, <2>10
<1>8. ASSUME NEW u \in V, NEW v \in V, <<u, v>> \in E PROVE d[v] <= d[u] + 1
  <2>1. d[u] \in Nat /\ d[v] \in Nat /\ {u, v} \in up
    BY <1>1, <1>3, <1>8
  <2>2. v \in Within(r)[d[u] + 1]
    BY <1>1, <1>3, <2>1, WithinNear
  <2>3. d[v] > d[u] + 1 => d[u] + 1 \in 0..(d[v] - 1)
    BY <2>1
  <2> QED
    BY <1>3, <2>1, <2>2, <2>3
<1>9. Measured(V, E, r, d)
  BY <1>1, <1>5, <1>6, <1>7, <1>8 DEF Measured
<1> QED
  BY <1>9 DEF V, E, d

----------------------------------------------------------------------------
(***************************************************************************)
(* Dijkstra's algorithm, over a list of all of V.                          *)
(***************************************************************************)
ListOf(list, V) == list \in Seq(V) /\ Len(list) = Cardinality(V) /\ Range(list) = V

LEMMA ListIs ==
  ASSUME NEW V, IsFiniteSet(V), NEW r \in V, NEW order \in SetToSeqs(V \ {r})
  PROVE  ListOf(<<r>> \o order, V)
<1> DEFINE W == V \ {r}
           n == Cardinality(W)
           list == <<r>> \o order
<1>1. IsFiniteSet(W) /\ n \in Nat /\ Cardinality(V) = n + 1
  BY FS_RemoveElement, FS_CardinalityType
<1>2. order \in [1..n -> W] /\ \A i, j \in 1..n : i # j => order[i] # order[j]
  BY DEF SetToSeqs
<1>3. ASSUME NEW v \in W PROVE \E i \in 1..n : order[i] = v
  <2>1. order \in Injection(1..n, W)
    BY <1>2 DEF Injection, IsInjective
  <2>2. IsFiniteSet(1..n) /\ Cardinality(1..n) = n
    BY <1>1, FS_Interval
  <2>3. order \in Surjection(1..n, W)
    BY <1>1, <2>1, <2>2, FS_Injection
  <2> QED
    BY <2>3 DEF Surjection
<1> HIDE DEF n, W
<1>4. order \in Seq(W) /\ Len(order) = n
  BY <1>1, <1>2
<1> USE DEF W
<1>5. list \in Seq(V) /\ Len(list) = n + 1 /\ list[1] = r /\ \A i \in 1..n : list[i + 1] = order[i]
  BY <1>1, <1>4
<1> HIDE DEF list
<1>6. ASSUME NEW v \in V PROVE \E i \in 1..Len(list) : list[i] = v
  <2>1. CASE v = r
    BY <1>1, <1>5, <2>1
  <2>2. CASE v # r
    <3>1. PICK i \in 1..n : order[i] = v
      BY <1>3, <2>2
    <3>2. i + 1 \in 1..Len(list) /\ list[i + 1] = v
      BY <1>1, <1>5, <3>1
    <3> QED
      BY <3>2
  <2> QED
    BY <2>1, <2>2
<1>7. DOMAIN list = 1..Len(list) /\ \A i \in 1..Len(list) : list[i] \in V
  BY <1>5
<1>8. Range(list) = V
  BY <1>6, <1>7 DEF Range
<1>9. ListOf(list, V)
  BY <1>1, <1>5, <1>8 DEF ListOf
<1> QED
  BY <1>9 DEF list

LEMMA MinDistIs ==
  ASSUME NEW V, NEW list, ListOf(list, V), NEW st, st.dist \in [V -> Nat],
         NEW w \in V, w \notin st.visited
  PROVE  /\ list[MinDist(list, st)] \in V /\ list[MinDist(list, st)] \notin st.visited
         /\ \A v \in V : v \notin st.visited => st.dist[list[MinDist(list, st)]] <= st.dist[v]
<1> DEFINE open == {v \in V : v \notin st.visited}
           values == {st.dist[v] : v \in open}
           P(i) == /\ list[i] \notin st.visited
                   /\ \A j \in 1..Len(list) : list[j] \notin st.visited =>
                        \/ st.dist[list[i]] < st.dist[list[j]]
                        \/ st.dist[list[i]] = st.dist[list[j]] /\ i <= j
<1>1. /\ Len(list) \in Nat /\ \A i \in 1..Len(list) : list[i] \in V
      /\ \A v \in V : \E i \in 1..Len(list) : list[i] = v
  <2>1. list \in Seq(V) /\ Range(list) = V
    BY DEF ListOf
  <2>2. DOMAIN list = 1..Len(list) /\ Len(list) \in Nat
    BY <2>1
  <2> QED
    BY <2>1, <2>2 DEF Range
<1>2. PICK m \in values : \A k \in values : m <= k
  <2>1. values \in SUBSET Nat /\ values # {}
    OBVIOUS
  <2> HIDE DEF values
  <2> QED
    BY <2>1, LeastNat
<1> DEFINE first == {i \in 1..Len(list) : list[i] \in open /\ st.dist[list[i]] = m}
<1>3. PICK i \in first : \A k \in first : i <= k
  <2>1. PICK v \in open : st.dist[v] = m
    BY <1>2
  <2>2. first \in SUBSET Nat /\ first # {}
    BY <1>1, <2>1
  <2> HIDE DEF first
  <2> QED
    BY <2>2, LeastNat
<1>4. \A v \in open : m <= st.dist[v] /\ st.dist[v] \in Nat
  BY <1>2
<1>5. m \in Nat
  BY <1>2
<1>6. i \in 1..Len(list) /\ P(i)
  <2>1. ASSUME NEW j \in 1..Len(list), list[j] \notin st.visited
        PROVE  \/ st.dist[list[i]] < st.dist[list[j]]
               \/ st.dist[list[i]] = st.dist[list[j]] /\ i <= j
    <3>1. list[j] \in open
      BY <1>1, <2>1
    <3>2. st.dist[list[j]] = m => j \in first
      BY <3>1
    <3> QED
      BY <1>3, <1>4, <1>5, <3>1, <3>2
  <2> QED
    BY <1>3, <2>1
<1>7. MinDist(list, st) = CHOOSE k \in 1..Len(list) : P(k)
  BY DEF MinDist
<1> DEFINE k == MinDist(list, st)
<1>8. k \in 1..Len(list) /\ P(k)
  BY <1>6, <1>7
<1> HIDE DEF k
<1>9. ASSUME NEW v \in V, v \notin st.visited PROVE st.dist[list[k]] <= st.dist[v]
  <2>1. PICK j \in 1..Len(list) : list[j] = v
    BY <1>1
  <2>2. st.dist[list[k]] \in Nat /\ st.dist[v] \in Nat
    BY <1>1, <1>8
  <2> QED
    BY <1>8, <1>9, <2>1, <2>2
<1>10. list[k] \in V /\ list[k] \notin st.visited
  BY <1>1, <1>8
<1> QED
  BY <1>9, <1>10 DEF k

TreeState(V) == [visited : SUBSET V, dist : [V -> Nat], prev : [V -> V]]

\* The visited have their distance; the others the best there is by way of the visited.
TreeInv(V, E, r, d, st) ==
  /\ st \in TreeState(V) /\ st.dist[r] = 0
  /\ \A v \in st.visited : st.dist[v] = d[v]
  /\ \A v \in V \ {r} :
       \/ st.dist[v] = Far /\ v \notin st.visited
       \/ st.prev[v] \in st.visited /\ <<st.prev[v], v>> \in E /\ st.dist[v] = d[st.prev[v]] + 1
  /\ \A u \in st.visited : \A v \in V : <<u, v>> \in E => st.dist[v] <= d[u] + 1

Unvisited(list, r) ==
  [visited |-> {}, dist |-> [v \in Range(list) |-> IF v = r THEN 0 ELSE Far],
   prev |-> [v \in Range(list) |-> v]]

LEMMA InitTree ==
  ASSUME NEW V, NEW E, NEW r, NEW d, Measured(V, E, r, d), NEW list, ListOf(list, V)
  PROVE  TreeInv(V, E, r, d, Unvisited(list, r)) /\ Unvisited(list, r).visited = {}
<1>1. Range(list) = V /\ r \in V /\ Far \in Nat
  BY DEF ListOf, Measured, Far
<1>2. PICK st : st = Unvisited(list, r)
  OBVIOUS
<1>3. st = [visited |-> {}, dist |-> [v \in V |-> IF v = r THEN 0 ELSE Far], prev |-> [v \in V |-> v]]
  BY <1>1, <1>2 DEF Unvisited
<1>4. [v \in V |-> IF v = r THEN 0 ELSE Far] \in [V -> Nat] /\ [v \in V |-> v] \in [V -> V]
  BY <1>1
<1>5. st \in TreeState(V)
  BY <1>3, <1>4 DEF TreeState
<1>6. st.visited = {} /\ \A v \in V : st.dist[v] = IF v = r THEN 0 ELSE Far
  BY <1>3
<1>7. TreeInv(V, E, r, d, st)
  BY <1>1, <1>5, <1>6 DEF TreeInv
<1> QED
  BY <1>2, <1>6, <1>7

\* The nearest of those not visited has its distance.
LEMMA NearestRight ==
  ASSUME NEW V, NEW E, NEW r, NEW d, Measured(V, E, r, d), NEW st, TreeInv(V, E, r, d, st),
         NEW u \in V, u \notin st.visited,
         \A v \in V : v \notin st.visited => st.dist[u] <= st.dist[v]
  PROVE  st.dist[u] = d[u]
<1> DEFINE open == {v \in V : v \notin st.visited}
           values == {d[v] : v \in open}
<1>1. /\ r \in V /\ E \subseteq V \X V /\ \A v \in V : d[v] \in Nat /\ d[v] < Far
      /\ \A v \in V : st.dist[v] \in Nat /\ st.prev[v] \in V
      /\ d[r] = 0 /\ st.dist[r] = 0 /\ Far \in Nat
  BY DEF Measured, TreeInv, TreeState, Far
<1>2. ASSUME NEW v \in V PROVE d[v] <= st.dist[v]
  <2>1. CASE v = r
    BY <1>1, <2>1
  <2>2. CASE v # r /\ st.dist[v] = Far
    BY <1>1, <2>2
  <2>3. CASE v # r /\ <<st.prev[v], v>> \in E /\ st.dist[v] = d[st.prev[v]] + 1
    BY <1>1, <2>3 DEF Measured
  <2> QED
    BY <2>1, <2>2, <2>3 DEF TreeInv
<1>3. PICK y \in open : \A v \in open : d[y] <= d[v]
  <2>1. values \in SUBSET Nat /\ values # {}
    BY <1>1
  <2> HIDE DEF values
  <2>2. PICK m \in values : \A k \in values : m <= k
    BY <2>1, LeastNat
  <2> QED
    BY <2>2 DEF values
<1>4. st.dist[y] <= d[y]
  <2>1. CASE y = r
    BY <1>1, <2>1
  <2>2. CASE y # r
    <3>1. PICK x \in V : <<x, y>> \in E /\ d[y] = d[x] + 1
      BY <1>3, <2>2 DEF Measured
    <3>2. x \in st.visited
      <4>1. x \in open => d[y] <= d[x]
        BY <1>3
      <4> QED
        BY <1>1, <3>1, <4>1
    <3> QED
      BY <1>3, <3>1, <3>2 DEF TreeInv
  <2> QED
    BY <2>1, <2>2
<1>5. st.dist[u] <= st.dist[y] /\ d[y] <= d[u] /\ d[u] <= st.dist[u] /\ y \in V
  BY <1>2, <1>3
<1> QED
  BY <1>1, <1>4, <1>5

LEMMA VisitIs ==
  ASSUME NEW V, NEW list, ListOf(list, V), NEW E, NEW st
  PROVE  LET u == list[MinDist(list, st)]
             t == Visit(list, E, st)
             closer == {v \in V : v \notin st.visited /\ v # u /\ <<u, v>> \in E
                                  /\ st.dist[u] + 1 < st.dist[v]}
         IN  t = [visited |-> st.visited \cup {u},
                  dist |-> [v \in V |-> IF v \in closer THEN st.dist[u] + 1 ELSE st.dist[v]],
                  prev |-> [v \in V |-> IF v \in closer THEN u ELSE st.prev[v]]]
<1> DEFINE u == list[MinDist(list, st)]
           closer == {v \in V : v \notin st.visited /\ v # u /\ <<u, v>> \in E
                                  /\ st.dist[u] + 1 < st.dist[v]}
           nearer == {v \in Range(list) \ (st.visited \cup {u}) :
                        <<u, v>> \in E /\ st.dist[u] + 1 < st.dist[v]}
<1>1. Range(list) = V
  BY DEF ListOf
<1>2. nearer = closer
  BY <1>1
<1>3. Visit(list, E, st) =
        [visited |-> st.visited \cup {u},
         dist |-> [v \in Range(list) |-> IF v \in nearer THEN st.dist[u] + 1 ELSE st.dist[v]],
         prev |-> [v \in Range(list) |-> IF v \in nearer THEN u ELSE st.prev[v]]]
  BY DEF Visit
<1> HIDE DEF nearer
<1> QED
  BY <1>1, <1>2, <1>3

LEMMA VisitTree ==
  ASSUME NEW V, NEW E, NEW r, NEW d, Measured(V, E, r, d), NEW list, ListOf(list, V),
         NEW st, TreeInv(V, E, r, d, st), NEW w \in V, w \notin st.visited
  PROVE  /\ TreeInv(V, E, r, d, Visit(list, E, st))
         /\ \E u \in V : u \notin st.visited /\ Visit(list, E, st).visited = st.visited \cup {u}
<1> DEFINE u == list[MinDist(list, st)]
           t == Visit(list, E, st)
           closer == {v \in V : v \notin st.visited /\ v # u /\ <<u, v>> \in E
                                /\ st.dist[u] + 1 < st.dist[v]}
<1>1. /\ r \in V /\ E \subseteq V \X V /\ d \in [V -> Nat] /\ \A v \in V : d[v] < Far
      /\ d[r] = 0 /\ Far \in Nat /\ \A a, v \in V : <<a, v>> \in E => d[v] <= d[a] + 1
  BY DEF Measured, Far
<1>2. /\ st.visited \in SUBSET V /\ st.dist \in [V -> Nat] /\ st.prev \in [V -> V]
      /\ st.dist[r] = 0
  BY DEF TreeInv, TreeState
<1>3. u \in V /\ u \notin st.visited /\ \A v \in V : v \notin st.visited => st.dist[u] <= st.dist[v]
  BY <1>2, MinDistIs
<1>4. t = [visited |-> st.visited \cup {u},
           dist |-> [v \in V |-> IF v \in closer THEN st.dist[u] + 1 ELSE st.dist[v]],
           prev |-> [v \in V |-> IF v \in closer THEN u ELSE st.prev[v]]]
  BY VisitIs
<1> HIDE DEF u, t
<1>5. st.dist[u] = d[u]
  BY <1>3, NearestRight
<1>6. /\ t.visited = st.visited \cup {u}
      /\ \A v \in V : t.dist[v] = IF v \in closer THEN d[u] + 1 ELSE st.dist[v]
      /\ \A v \in V : t.prev[v] = IF v \in closer THEN u ELSE st.prev[v]
  BY <1>4, <1>5
<1>7. t \in TreeState(V)
  <2>1. [v \in V |-> IF v \in closer THEN st.dist[u] + 1 ELSE st.dist[v]] \in [V -> Nat]
    BY <1>2, <1>3
  <2>2. [v \in V |-> IF v \in closer THEN u ELSE st.prev[v]] \in [V -> V]
    BY <1>2, <1>3
  <2> HIDE DEF closer
  <2>3. st.visited \cup {u} \in SUBSET V
    BY <1>2, <1>3
  <2> QED
    BY <1>4, <2>1, <2>2, <2>3 DEF TreeState
<1>8. \A v \in closer : v \notin st.visited /\ v # u /\ <<u, v>> \in E /\ d[u] + 1 < st.dist[v]
  BY <1>5
<1>9. \A v \in V : v \notin st.visited /\ v # u /\ <<u, v>> \in E /\ d[u] + 1 < st.dist[v] => v \in closer
  BY <1>5
<1> HIDE DEF closer
<1>10. r \notin closer /\ t.dist[r] = 0
  <2>1. r \in closer => d[u] + 1 < 0
    BY <1>2, <1>8
  <2>2. d[u] \in Nat
    BY <1>1, <1>3
  <2>3. r \notin closer
    BY <2>1, <2>2
  <2> QED
    BY <1>1, <1>2, <1>6, <2>3
<1>11. ASSUME NEW v \in t.visited PROVE t.dist[v] = d[v]
  <2>1. v \in st.visited \/ v = u
    BY <1>6, <1>11
  <2>2. v \notin closer /\ v \in V
    BY <1>2, <1>3, <1>8, <2>1
  <2>3. st.dist[v] = d[v]
    BY <1>5, <2>1 DEF TreeInv
  <2> QED
    BY <1>6, <2>2, <2>3
<1>12. ASSUME NEW v \in V \ {r}
       PROVE  \/ t.dist[v] = Far /\ v \notin t.visited
              \/ t.prev[v] \in t.visited /\ <<t.prev[v], v>> \in E /\ t.dist[v] = d[t.prev[v]] + 1
  <2>1. CASE v \in closer
    BY <1>6, <1>8, <2>1
  <2>2. CASE v \notin closer
    <3>1. t.dist[v] = st.dist[v] /\ t.prev[v] = st.prev[v]
      BY <1>6, <2>2
    <3>2. CASE st.dist[v] = Far /\ v \notin st.visited
      <4>1. v # u
        BY <1>1, <1>5, <3>2
      <4> QED
        BY <1>6, <3>1, <3>2, <4>1
    <3>3. CASE st.prev[v] \in st.visited /\ <<st.prev[v], v>> \in E /\ st.dist[v] = d[st.prev[v]] + 1
      BY <1>6, <3>1, <3>3
    <3> QED
      BY <3>2, <3>3 DEF TreeInv
  <2> QED
    BY <2>1, <2>2
<1>13. ASSUME NEW a \in t.visited, NEW v \in V, <<a, v>> \in E PROVE t.dist[v] <= d[a] + 1
  <2>1. a \in V /\ d[a] \in Nat /\ d[u] \in Nat /\ st.dist[v] \in Nat /\ d[v] \in Nat
    BY <1>1, <1>2, <1>3, <1>6
  <2>2. t.dist[v] <= st.dist[v]
    <3>1. CASE v \in closer
      <4>1. t.dist[v] = d[u] + 1 /\ d[u] + 1 < st.dist[v]
        BY <1>6, <1>8, <3>1
      <4> QED
        BY <2>1, <4>1
    <3>2. CASE v \notin closer
      BY <1>6, <2>1, <3>2
    <3> QED
      BY <3>1, <3>2
  <2>3. CASE a \in st.visited
    <3>1. st.dist[v] <= d[a] + 1
      BY <1>13, <2>3 DEF TreeInv
    <3>2. t.dist[v] \in Nat
      BY <1>6, <2>1
    <3> QED
      BY <2>1, <2>2, <3>1, <3>2
  <2>4. CASE a = u
    <3>1. CASE v \in closer
      BY <1>6, <2>1, <2>4, <3>1
    <3>2. CASE v \notin closer /\ v \in st.visited \cup {u}
      BY <1>1, <1>6, <1>11, <1>13, <2>1, <3>2
    <3>3. CASE v \notin closer /\ v \notin st.visited \cup {u}
      <4>1. ~ (d[u] + 1 < st.dist[v]) /\ t.dist[v] = st.dist[v]
        BY <1>6, <1>9, <1>13, <2>4, <3>3
      <4> QED
        BY <2>1, <2>4, <4>1
    <3> QED
      BY <3>1, <3>2, <3>3
  <2> QED
    BY <1>6, <2>3, <2>4
<1>14. TreeInv(V, E, r, d, t)
  BY <1>7, <1>10, <1>11, <1>12, <1>13 DEF TreeInv
<1> QED
  BY <1>3, <1>6, <1>14 DEF t

----------------------------------------------------------------------------
Rounds(f, list, E, r) ==
  f = [k \in 0..Len(list) |-> IF k = 0 THEN Unvisited(list, r) ELSE Visit(list, E, f[k - 1])]

\* After k rounds k routers are visited.
RoundInv(V, E, r, d, st, k) ==
  TreeInv(V, E, r, d, st) /\ Cardinality(st.visited) = k

LEMMA RoundTree ==
  ASSUME NEW V, IsFiniteSet(V), NEW E, NEW r, NEW d, Measured(V, E, r, d),
         NEW list, ListOf(list, V), NEW k \in Nat, k < Len(list),
         NEW st, RoundInv(V, E, r, d, st, k)
  PROVE  RoundInv(V, E, r, d, Visit(list, E, st), k + 1)
<1>1. TreeInv(V, E, r, d, st) /\ Cardinality(st.visited) = k /\ k < Cardinality(V)
  BY DEF RoundInv, ListOf
<1>2. st.visited \in SUBSET V
  BY <1>1 DEF TreeInv, TreeState
<1>3. IsFiniteSet(st.visited) /\ Cardinality(V) \in Nat
  BY <1>2, FS_Subset, FS_CardinalityType
<1>4. PICK w \in V : w \notin st.visited
  <2>1. st.visited # V
    BY <1>1, <1>3
  <2> QED
    BY <1>2, <2>1
<1>5. /\ TreeInv(V, E, r, d, Visit(list, E, st))
      /\ \E u \in V : u \notin st.visited /\ Visit(list, E, st).visited = st.visited \cup {u}
  BY <1>1, <1>4, VisitTree
<1>6. PICK u \in V : u \notin st.visited /\ Visit(list, E, st).visited = st.visited \cup {u}
  BY <1>5
<1>7. Cardinality(st.visited \cup {u}) = k + 1
  BY <1>1, <1>3, <1>6, FS_AddElement
<1> QED
  BY <1>5, <1>6, <1>7 DEF RoundInv

LEMMA InitRound ==
  ASSUME NEW V, NEW E, NEW r, NEW d, Measured(V, E, r, d), NEW list, ListOf(list, V)
  PROVE  RoundInv(V, E, r, d, Unvisited(list, r), 0)
BY InitTree, FS_EmptySet DEF RoundInv

LEMMA RoundsExist ==
  ASSUME NEW V, IsFiniteSet(V), NEW E, NEW r, NEW d, Measured(V, E, r, d),
         NEW list, ListOf(list, V)
  PROVE  \E f : Rounds(f, list, E, r)
<1> DEFINE n == Len(list)
           step == [st \in TreeState(V) |-> Visit(list, E, st)]
           base == Unvisited(list, r)
<1>1. n \in Nat
  BY DEF ListOf
<1>2. \A st \in TreeState(V) : step[st] = Visit(list, E, st)
  OBVIOUS
<1> HIDE DEF step, base
<1>3. PICK f : Iteration(f, base, step, n)
  BY <1>1, IterationExists
<1>4. f[0] = base /\ \A k \in 0..n : k < n => f[k + 1] = step[f[k]]
  BY <1>1, <1>3, IterationIs
<1> DEFINE S == {k \in 0..n : RoundInv(V, E, r, d, f[k], k)}
<1>5. 0 \in S
  BY <1>1, <1>4, InitRound DEF base
<1>6. ASSUME NEW k \in 0..n, k \in S, k < n PROVE k + 1 \in S /\ f[k + 1] = Visit(list, E, f[k])
  <2>1. RoundInv(V, E, r, d, f[k], k) /\ f[k] \in TreeState(V)
    BY <1>6 DEF RoundInv, TreeInv
  <2>2. f[k + 1] = Visit(list, E, f[k])
    BY <1>2, <1>4, <1>6, <2>1
  <2>3. k \in Nat /\ k < Len(list) /\ k + 1 \in 0..n
    BY <1>1, <1>6
  <2>4. PICK st : st = f[k]
    OBVIOUS
  <2>5. RoundInv(V, E, r, d, Visit(list, E, st), k + 1)
    BY <2>1, <2>3, <2>4, RoundTree
  <2> QED
    BY <2>2, <2>3, <2>4, <2>5
<1> HIDE DEF S, n
<1>7. \A k \in 0..n : k \in S
  BY <1>1, <1>5, <1>6, UpTo
<1>8. ASSUME NEW k \in 0..n PROVE f[k] = IF k = 0 THEN base ELSE Visit(list, E, f[k - 1])
  <2>1. CASE k = 0
    BY <1>4, <2>1
  <2>2. CASE k # 0
    <3>1. k - 1 \in 0..n /\ k - 1 < n /\ (k - 1) + 1 = k
      BY <1>1, <2>2
    <3>2. f[(k - 1) + 1] = Visit(list, E, f[k - 1])
      BY <1>6, <1>7, <3>1
    <3> QED
      BY <2>2, <3>1, <3>2
  <2> QED
    BY <2>1, <2>2
<1>9. f = [k \in 0..n |-> f[k]]
  BY <1>3 DEF Iteration
<1>10. f = [k \in 0..n |-> IF k = 0 THEN base ELSE Visit(list, E, f[k - 1])]
  BY <1>8, <1>9
<1> QED
  BY <1>10 DEF Rounds, n, base

\* When all are visited every distance is right.
LEMMA RoundsTree ==
  ASSUME NEW V, IsFiniteSet(V), NEW E, NEW r, NEW d, Measured(V, E, r, d),
         NEW list, ListOf(list, V), NEW f, Rounds(f, list, E, r)
  PROVE  TreeInv(V, E, r, d, f[Len(list)]) /\ f[Len(list)].visited = V
<1> DEFINE n == Len(list)
           S == {k \in 0..n : RoundInv(V, E, r, d, f[k], k)}
<1>1. n \in Nat /\ n = Cardinality(V)
  BY DEF ListOf
<1> HIDE DEF n
<1>2. \A k \in 0..n : f[k] = IF k = 0 THEN Unvisited(list, r) ELSE Visit(list, E, f[k - 1])
  BY DEF Rounds, n
<1>3. 0 \in S
  BY <1>1, <1>2, InitRound
<1>4. ASSUME NEW k \in 0..n, k \in S, k < n PROVE k + 1 \in S
  <2>1. k \in Nat /\ k < Len(list) /\ k + 1 \in 0..n /\ k + 1 # 0 /\ (k + 1) - 1 = k
    BY <1>1, <1>4 DEF n
  <2>2. f[k + 1] = Visit(list, E, f[k])
    BY <1>2, <2>1
  <2>3. PICK st : st = f[k]
    OBVIOUS
  <2>4. RoundInv(V, E, r, d, Visit(list, E, st), k + 1)
    BY <1>4, <2>1, <2>3, RoundTree
  <2> QED
    BY <2>1, <2>2, <2>3, <2>4
<1> HIDE DEF S
<1>5. \A k \in 0..n : k \in S
  BY <1>1, <1>3, <1>4, UpTo
<1>6. RoundInv(V, E, r, d, f[n], n)
  BY <1>1, <1>5 DEF S
<1>7. TreeInv(V, E, r, d, f[n]) /\ Cardinality(f[n].visited) = Cardinality(V)
  BY <1>1, <1>6 DEF RoundInv
<1>8. f[n].visited \in SUBSET V
  BY <1>7 DEF TreeInv, TreeState
<1>9. f[n].visited = V
  BY <1>7, <1>8, FS_Subset
<1> QED
  BY <1>7, <1>9 DEF n

\* A tree of shortest paths: prev of a router is its neighbour that is one link nearer to r.
Tree(V, E, r, d, tree) ==
  tree.prev \in [V -> V] /\ \A v \in V \ {r} : <<tree.prev[v], v>> \in E /\ d[v] = d[tree.prev[v]] + 1

LEMMA DijkstraTree ==
  ASSUME NEW r \in Routers, NEW V, IsFiniteSet(V), NEW d, Measured(V, Edges(r), r, d),
         NEW list, ListOf(list, V)
  PROVE  Tree(V, Edges(r), r, d, Dijkstra(r, list))
<1> DEFINE E == Edges(r)
           f == CHOOSE g : Rounds(g, list, E, r)
<1>1. Dijkstra(r, list) = (CHOOSE g : Rounds(g, list, Edges(r), r))[Len(list)]
  BY DEF Dijkstra, Rounds, Unvisited
<1>2. Dijkstra(r, list) = f[Len(list)]
  BY <1>1
<1> HIDE DEF E
<1>3. \E g : Rounds(g, list, E, r)
  BY RoundsExist DEF E
<1>4. Rounds(f, list, E, r)
  BY <1>3
<1> HIDE DEF f
<1>5. PICK st : st = f[Len(list)]
  OBVIOUS
<1>6. TreeInv(V, E, r, d, st) /\ st.visited = V
  BY <1>4, <1>5, RoundsTree DEF E
<1>7. \A v \in V : d[v] < Far /\ d[v] \in Nat
  BY DEF Measured, Far
<1>8. ASSUME NEW v \in V \ {r} PROVE <<st.prev[v], v>> \in E /\ d[v] = d[st.prev[v]] + 1
  <2>1. st.dist[v] = d[v]
    BY <1>6 DEF TreeInv
  <2> QED
    BY <1>6, <2>1 DEF TreeInv
<1>9. st.prev \in [V -> V]
  BY <1>6 DEF TreeInv, TreeState
<1>10. Tree(V, E, r, d, st)
  BY <1>8, <1>9 DEF Tree
<1> QED
  BY <1>2, <1>5, <1>10 DEF E

----------------------------------------------------------------------------
(***************************************************************************)
(* The walk back.                                                          *)
(***************************************************************************)
Back(f, r, o, tree, n) ==
  f = [k \in 0..n |-> IF k = 0 THEN o
                      ELSE LET t == f[k - 1] IN IF tree.prev[t] = r THEN t ELSE tree.prev[t]]

LEMMA BackExists ==
  ASSUME NEW V, NEW r, NEW o \in V, NEW tree, tree.prev \in [V -> V], NEW n \in Nat
  PROVE  \E f : Back(f, r, o, tree, n)
<1> DEFINE step == [t \in V |-> IF tree.prev[t] = r THEN t ELSE tree.prev[t]]
<1>1. \A t \in V : step[t] = (IF tree.prev[t] = r THEN t ELSE tree.prev[t]) /\ step[t] \in V
  OBVIOUS
<1> HIDE DEF step
<1>2. PICK f : Iteration(f, o, step, n)
  BY IterationExists
<1>3. f[0] = o /\ \A k \in 0..n : k < n => f[k + 1] = step[f[k]]
  BY <1>2, IterationIs
<1> DEFINE S == {k \in 0..n : f[k] \in V}
<1>4. 0 \in S
  BY <1>3
<1>5. ASSUME NEW k \in 0..n, k \in S, k < n PROVE k + 1 \in S
  <2>1. k + 1 \in 0..n /\ f[k + 1] \in V
    BY <1>1, <1>3, <1>5
  <2> QED
    BY <2>1
<1> HIDE DEF S
<1>6. \A k \in 0..n : k \in S
  BY <1>4, <1>5, UpTo
<1>7. \A k \in 0..n : f[k] \in V
  BY <1>6 DEF S
<1>8. ASSUME NEW k \in 0..n
      PROVE  f[k] = IF k = 0 THEN o
                    ELSE LET t == f[k - 1] IN IF tree.prev[t] = r THEN t ELSE tree.prev[t]
  <2>1. CASE k = 0
    BY <1>3, <2>1
  <2>2. CASE k # 0
    <3>1. k - 1 \in 0..n /\ k - 1 < n /\ (k - 1) + 1 = k
      BY <2>2
    <3>2. f[(k - 1) + 1] = step[f[k - 1]] /\ f[k - 1] \in V
      BY <1>3, <1>7, <3>1
    <3> QED
      BY <1>1, <2>2, <3>1, <3>2
  <2> QED
    BY <2>1, <2>2
<1>9. f = [k \in 0..n |-> f[k]]
  BY <1>2 DEF Iteration
<1>10. Back(f, r, o, tree, n)
  BY <1>8, <1>9 DEF Back
<1> QED
  BY <1>10

LEMMA BackIs ==
  ASSUME NEW r, NEW o, NEW tree, NEW n \in Nat, NEW f, Back(f, r, o, tree, n)
  PROVE  /\ f[0] = o
         /\ \A k \in 0..n : k < n =>
              f[k + 1] = IF tree.prev[f[k]] = r THEN f[k] ELSE tree.prev[f[k]]
<1>1. \A k \in 0..n : f[k] = IF k = 0 THEN o
                    ELSE LET t == f[k - 1] IN IF tree.prev[t] = r THEN t ELSE tree.prev[t]
  BY DEF Back
<1>2. ASSUME NEW k \in 0..n, k < n
      PROVE  f[k + 1] = IF tree.prev[f[k]] = r THEN f[k] ELSE tree.prev[f[k]]
  <2>1. k + 1 \in 0..n /\ k + 1 # 0 /\ (k + 1) - 1 = k
    BY <1>2
  <2>2. f[k + 1] = IF tree.prev[f[(k + 1) - 1]] = r THEN f[(k + 1) - 1] ELSE tree.prev[f[(k + 1) - 1]]
    BY <1>1, <2>1
  <2> QED
    BY <2>1, <2>2
<1>3. 0 \in 0..n
  OBVIOUS
<1> QED
  BY <1>1, <1>2, <1>3

\* After k steps back from o the walk is k links nearer to r, and stops next to it.
LEMMA BackNearer ==
  ASSUME Types, NEW r \in Routers, NEW V, V \subseteq Routers, NEW d,
         NEW E, Measured(V, E, r, d), \A u, v \in V : <<u, v>> \in E => {u, v} \in up,
         NEW tree, Tree(V, E, r, d, tree), NEW o \in V \ {r}, NEW n \in Nat, d[o] <= n,
         NEW f, Back(f, r, o, tree, n)
  PROVE  f[n] \in V /\ tree.prev[f[n]] = r /\ f[n] \in Within(o)[d[o] - 1]
<1>1. /\ r \in V /\ d[r] = 0 /\ \A v \in V : d[v] \in Nat /\ (d[v] = 0 => v = r)
  BY DEF Measured, Far
<1>2. /\ tree.prev \in [V -> V] /\ \A v \in V : tree.prev[v] \in V
      /\ \A v \in V \ {r} : <<tree.prev[v], v>> \in E /\ d[v] = d[tree.prev[v]] + 1
  BY DEF Tree
<1>3. f[0] = o /\ \A k \in 0..n : k < n =>
              f[k + 1] = IF tree.prev[f[k]] = r THEN f[k] ELSE tree.prev[f[k]]
  BY BackIs
<1> DEFINE S == {k \in 0..n : /\ f[k] \in V \ {r}
                              /\ \/ k < d[o] /\ d[f[k]] = d[o] - k /\ f[k] \in Within(o)[k]
                                 \/ d[o] <= k + 1 /\ d[f[k]] = 1 /\ f[k] \in Within(o)[d[o] - 1]}
<1>4. d[o] \in Nat /\ d[o] # 0
  BY <1>1
<1>5. 0 \in S
  BY <1>3, <1>4, WithinIs
<1>6. ASSUME NEW k \in 0..n, k \in S, k < n PROVE k + 1 \in S
  <2>1. PICK t : t = f[k]
    OBVIOUS
  <2>2. PICK p : p = tree.prev[t]
    OBVIOUS
  <2>3. t \in V \ {r} /\ t \in Routers /\ p \in V /\ p \in Routers /\ <<p, t>> \in E /\ d[t] = d[p] + 1
    BY <1>2, <1>6, <2>1, <2>2
  <2>4. f[k + 1] = IF p = r THEN t ELSE p
    BY <1>3, <1>6, <2>1, <2>2
  <2>5. {t, p} \in up
    <3>1. {p, t} \in up /\ {t, p} = {p, t}
      BY <2>3
    <3> QED
      BY <3>1
  <2>6. d[p] \in Nat /\ d[t] \in Nat /\ k \in Nat /\ k + 1 \in 0..n
    BY <1>1, <1>6, <2>3
  <2>7. CASE d[t] = 1
    <3>1. p = r
      BY <1>1, <2>3, <2>6, <2>7
    <3>2. d[o] <= k + 1 /\ t \in Within(o)[d[o] - 1]
      <4>1. CASE k < d[o] /\ d[t] = d[o] - k /\ t \in Within(o)[k]
        <5>1. k = d[o] - 1
          BY <1>4, <2>6, <2>7, <4>1
        <5> QED
          BY <1>4, <4>1, <5>1
      <4>2. CASE d[o] <= k + 1 /\ t \in Within(o)[d[o] - 1]
        BY <4>2
      <4> QED
        BY <1>6, <2>1, <4>1, <4>2
    <3>3. d[o] <= (k + 1) + 1
      BY <1>4, <2>6, <3>2
    <3> QED
      BY <2>3, <2>4, <2>6, <2>7, <3>1, <3>2, <3>3
  <2>8. CASE d[t] # 1
    <3>1. p # r
      BY <1>1, <2>3, <2>8
    <3>2. k < d[o] /\ d[t] = d[o] - k /\ t \in Within(o)[k]
      BY <1>6, <2>1, <2>8
    <3>3. p \in Within(o)[k + 1]
      BY <2>3, <2>5, <2>6, <3>2, WithinNear
    <3>4. k + 1 < d[o] /\ d[p] = d[o] - (k + 1)
      <4>1. d[p] # 0
        BY <1>1, <2>3, <3>1
      <4> QED
        BY <1>4, <2>3, <2>6, <3>2, <4>1
    <3> QED
      BY <2>3, <2>4, <2>6, <3>1, <3>3, <3>4
  <2> QED
    BY <2>7, <2>8
<1> HIDE DEF S
<1>7. \A k \in 0..n : k \in S
  BY <1>5, <1>6, UpTo
<1>8. /\ f[n] \in V \ {r} /\ d[f[n]] = 1 /\ f[n] \in Within(o)[d[o] - 1]
  BY <1>4, <1>7 DEF S
<1>9. tree.prev[f[n]] \in V /\ d[tree.prev[f[n]]] = 0
  <2>1. PICK t : t = f[n]
    OBVIOUS
  <2>2. t \in V \ {r} /\ d[t] = 1 /\ tree.prev[t] \in V /\ d[t] = d[tree.prev[t]] + 1
    BY <1>2, <1>8, <2>1
  <2>3. d[tree.prev[t]] \in Nat
    BY <1>1, <2>2
  <2> QED
    BY <2>1, <2>2, <2>3
<1> QED
  BY <1>1, <1>8, <1>9

\* What init_graph, Dijkstra and the walk back make of databases that are right.
LEMMA HopNearer ==
  ASSUME Types, Agreed, NEW r \in Routers, NEW order \in SetToSeqs(Listed(r) \ {r}),
         NEW o \in Listed(r) \ {r}
  PROVE  \E h \in NextHop(r, o, Dijkstra(r, <<r>> \o order)) : Distance(h, o) = Distance(r, o) - 1
<1> DEFINE V == Listed(r)
           E == Edges(r)
           d == [v \in Listed(r) |-> Distance(v, r)]
           N == Cardinality(Routers)
           list == <<r>> \o order
           tree == Dijkstra(r, list)
           f == CHOOSE g : Back(g, r, o, tree, N)
<1>1. N \in Nat
  BY Size
<1>2. /\ V \subseteq Routers /\ r \in V /\ \A v \in Routers : v \in V <=> v \in Within(r)[N]
      /\ E = {e \in V \X V : {e[1], e[2]} \in up}
  BY AgreedGraph DEF Connected
<1>3. IsFiniteSet(V) /\ ListOf(list, V)
  BY <1>2, ListIs, FS_Subset, MospfConstants
<1>4. Measured(V, E, r, d)
  BY RealDistances
<1> HIDE DEF list, d
<1>5. Tree(V, E, r, d, tree)
  BY <1>3, <1>4, DijkstraTree
<1>6. d[o] = Distance(o, r)
  BY DEF d
<1>7. /\ Distance(o, r) \in 0..N /\ o \in Within(r)[Distance(o, r)]
      /\ \A j \in 0..(Distance(o, r) - 1) : o \notin Within(r)[j]
  BY <1>2, DistanceIs
<1>8. NextHop(r, o, tree) = IF tree.prev[f[N]] = r THEN {f[N]} \cap nbr_list[r] ELSE {}
  BY DEF NextHop, Back
<1> HIDE DEF V, E, N, tree
<1>9. \E g : Back(g, r, o, tree, N)
  BY <1>1, <1>5, BackExists DEF Tree, V
<1>10. Back(f, r, o, tree, N)
  BY <1>9
<1> HIDE DEF f
<1>11. \A u, v \in V : <<u, v>> \in E => {u, v} \in up
  BY <1>2
<1>12. f[N] \in V /\ tree.prev[f[N]] = r /\ f[N] \in Within(o)[d[o] - 1]
  <2>1. o \in V \ {r} /\ d[o] <= N
    BY <1>1, <1>6, <1>7 DEF V
  <2> QED
    BY <1>1, <1>2, <1>4, <1>5, <1>10, <1>11, <2>1, BackNearer
<1>13. PICK h : h = f[N]
  OBVIOUS
<1>14. PICK n : n = d[o]
  OBVIOUS
<1>15. h \in V /\ h \in Routers /\ h \in Within(o)[n - 1] /\ o \in Routers /\ o \in V \ {r}
  BY <1>2, <1>12, <1>13, <1>14 DEF V
<1>16. n # 0 /\ n \in 0..N /\ n - 1 \in Nat /\ n - 1 \in 0..N
  BY <1>1, <1>4, <1>6, <1>7, <1>14, <1>15 DEF Measured
<1>17. h # r /\ {r, h} \in up
  <2>1. h # r
    <3>1. h = r => o \in Within(r)[n - 1]
      BY <1>15, <1>16, WithinSymmetric
    <3> QED
      BY <1>6, <1>7, <1>14, <1>16, <3>1
  <2>2. <<r, h>> \in E
    BY <1>5, <1>12, <1>13, <1>15, <2>1 DEF Tree
  <2> QED
    BY <1>2, <1>11, <1>15, <2>1, <2>2
<1>18. h \in NextHop(r, o, tree)
  <2>1. h \in nbr_list[r]
    BY <1>15, <1>17 DEF Agreed, Peers
  <2> QED
    BY <1>8, <1>12, <1>13, <2>1
<1>19. Distance(r, o) = n
  BY <1>2, <1>6, <1>14, <1>15, DistanceSymmetric DEF N
<1>20. ASSUME NEW j \in 0..((n - 1) - 1) PROVE h \notin Within(o)[j]
  <2>1. j \in Nat /\ j + 1 \in 0..(n - 1)
    BY <1>16, <1>20
  <2>2. h \in Within(o)[j] => r \in Within(o)[j + 1]
    <3>1. {h, r} \in up
      <4>1. {h, r} = {r, h}
        OBVIOUS
      <4> QED
        BY <1>17, <4>1
    <3> QED
      BY <1>15, <2>1, <3>1, WithinNear
  <2>3. r \in Within(o)[j + 1] => o \in Within(r)[j + 1]
    BY <1>15, <2>1, WithinSymmetric
  <2> QED
    BY <1>6, <1>7, <1>14, <2>1, <2>2, <2>3
<1>21. Distance(h, o) = n - 1
  BY <1>15, <1>16, <1>20, DistanceOnly DEF N
<1> QED
  BY <1>18, <1>19, <1>21 DEF tree, list

LEMMA TypesRoutes == Types => RoutesShortest
<1> SUFFICES ASSUME Types PROVE RoutesShortest
  OBVIOUS
<1>1. TypeOK
  BY TypesOk
<1>2. ASSUME Agreed, NEW r \in Routers, NEW order \in SetToSeqs(Listed(r) \ {r}), NEW o \in Listed(r) \ {r}
      PROVE  \E h \in NextHop(r, o, Dijkstra(r, <<r>> \o order)) : Distance(h, o) = Distance(r, o) - 1
  BY <1>2, HopNearer
<1> QED
  BY <1>1, <1>2 DEF RoutesShortest

\* Whenever all databases are right, every route is one step of a shortest path, for every
\* set of routers and links and however each router's list is ordered: init_graph,
\* min_dist, Dijkstra and the walk back along prev.
THEOREM RoutesLead == Spec => []RoutesShortest
<1>1. Init => Types
  BY InitTypes
<1>2. Types /\ [Next]_vars => Types'
  BY StepTypes
<1>3. Types => RoutesShortest
  BY TypesRoutes
<1> QED
  BY <1>1, <1>2, <1>3, PTL DEF Spec
=============================================================================
