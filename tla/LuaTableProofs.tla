--------------------------- MODULE LuaTableProofs ---------------------------
(***************************************************************************)
(* What is proved of LuaTable for tables of every size: chains lead where   *)
(* they should, nothing is lost by a collision or a rehash, a traversal    *)
(* visits what it has to; in short, a table implements LuaMap.             *)
(***************************************************************************)
EXTENDS LuaTable, FiniteSetTheorems, TLAPS

(***************************************************************************)
(* Induction, for sets of numbers: the pigeonhole principle gives it.       *)
(***************************************************************************)

(* A set of numbers with 0 and the successor of each element has them all.  *)
LEMMA NatSets ==
  ASSUME NEW S \in SUBSET Nat, 0 \in S, \A n \in S : n + 1 \in S
  PROVE  Nat \subseteq S
<1>1. SUFFICES ASSUME NEW m \in Nat, m \notin S PROVE FALSE
  OBVIOUS
<1> DEFINE T == {n \in S : n < m}
           f == [n \in T |-> n + 1]
<1>2. T \in SUBSET Nat /\ 0 \in T
  <2>1. T \subseteq Nat  OBVIOUS
  <2>2. 0 < m  BY <1>1
  <2>3. 0 \in T  BY <2>2
  <2> QED BY <2>1, <2>3
<1>3. ASSUME NEW n \in T PROVE n <= m /\ n + 1 \in T \ {0}
  <2>1. n \in Nat /\ n < m /\ n + 1 \in S  BY <1>2
  <2>2. n + 1 # m  BY <2>1, <1>1
  <2>3. n + 1 < m /\ n + 1 # 0  BY <2>1, <2>2
  <2> QED BY <2>1, <2>3
<1>4. f \in [T -> T \ {0}] /\ \A a, b \in T : f[a] = f[b] => a = b
  BY <1>2, <1>3
<1> HIDE DEF T, f
<1>5. f \in Injection(T, T \ {0})
  BY <1>4 DEF Injection, IsInjective
<1>6. IsFiniteSet(T)
  BY <1>2, <1>3, FS_BoundedSetOfNaturals, SMT
<1>7. IsFiniteSet(T \ {0}) /\ Cardinality(T \ {0}) = Cardinality(T) - 1 /\ Cardinality(T) \in Nat
  BY <1>2, <1>6, FS_RemoveElement, FS_CardinalityType
<1>8. Cardinality(T) <= Cardinality(T \ {0})
  BY <1>5, <1>7, FS_Injection
<1> QED BY <1>7, <1>8

(* The same up to N.                                                       *)
LEMMA IntervalSets ==
  ASSUME NEW N \in Nat, NEW S, 0 \in S, \A i \in 0..N : i \in S /\ i < N => i + 1 \in S
  PROVE  0..N \subseteq S
<1> DEFINE T == {n \in Nat : n <= N => n \in S}
<1>1. 0 \in T  OBVIOUS
<1>2. ASSUME NEW n \in T PROVE n + 1 \in T
  <2>1. CASE n + 1 <= N
    <3>1. n \in 0..N /\ n < N /\ n \in S  BY <2>1, <1>2
    <3> QED BY <3>1
  <2>2. CASE ~ (n + 1 <= N)  BY <2>2
  <2> QED BY <2>1, <2>2
<1>3. Nat \subseteq T
  <2> T \in SUBSET Nat  OBVIOUS
  <2> HIDE DEF T
  <2> QED BY <1>1, <1>2, NatSets
<1> QED BY <1>3

(* A set of numbers has a least element, and a largest one if it is bounded. *)
LEMMA Least ==
  ASSUME NEW S \in SUBSET Nat, S # {}
  PROVE  \E m \in S : \A n \in S : m <= n
<1>1. SUFFICES ASSUME \A m \in S : \E n \in S : n < m PROVE FALSE
  <2>1. ASSUME NEW m \in S, NEW n \in S PROVE m <= n \/ n < m  OBVIOUS
  <2> QED BY <2>1
<1> DEFINE T == {n \in Nat : \A m \in S : n < m}
<1>2. 0 \in T
  <2>1. ASSUME NEW m \in S PROVE 0 < m
    <3>1. PICK n \in S : n < m  BY <1>1
    <3> QED BY <3>1
  <2> QED BY <2>1
<1>3. ASSUME NEW n \in T PROVE n + 1 \in T
  <2>1. ASSUME NEW m \in S PROVE n + 1 < m
    <3>1. PICK l \in S : l < m  BY <1>1
    <3>2. n < l  BY <1>3
    <3> QED BY <3>1, <3>2
  <2> QED BY <2>1
<1>4. Nat \subseteq T
  <2> T \in SUBSET Nat  OBVIOUS
  <2> HIDE DEF T
  <2> QED BY <1>2, <1>3, NatSets
<1>5. PICK m \in S : TRUE  OBVIOUS
<1> QED BY <1>4, <1>5

(* A bounded set of numbers that is not empty has a largest member.        *)
LEMMA Largest ==
  ASSUME NEW S \in SUBSET Nat, S # {}, NEW N \in Nat, \A n \in S : n <= N
  PROVE  \E m \in S : \A n \in S : n <= m
<1> DEFINE T == {N - n : n \in S}
<1>1. T \in SUBSET Nat /\ T # {}
  <2>1. ASSUME NEW n \in S PROVE N - n \in Nat  OBVIOUS
  <2> QED BY <2>1
<1>2. PICK m \in T : \A n \in T : m <= n
  <2> HIDE DEF T
  <2> QED BY <1>1, Least
<1>3. PICK l \in S : m = N - l  OBVIOUS
<1>4. ASSUME NEW n \in S PROVE n <= l
  <2>1. m <= N - n  BY <1>2
  <2> QED BY <2>1, <1>3
<1> QED BY <1>4

(* A function on 0..N-1 has an upper bound.                                 *)
LEMMA Bounded ==
  ASSUME NEW N \in Nat, NEW r \in [0..(N - 1) -> Nat]
  PROVE  \E l \in Nat : \A m \in 0..(N - 1) : r[m] < l
<1> DEFINE S == {n \in 0..N : \E l \in Nat : \A m \in 0..(n - 1) : r[m] < l}
<1>1. 0 \in S
  <2>1. \A m \in 0..(0 - 1) : r[m] < 0  OBVIOUS
  <2> QED BY <2>1
<1>2. ASSUME NEW n \in 0..N, n \in S, n < N PROVE n + 1 \in S
  <2>1. PICK l \in Nat : \A m \in 0..(n - 1) : r[m] < l  BY <1>2
  <2> DEFINE h == IF r[n] < l THEN l ELSE r[n] + 1
  <2>2. n \in 0..(N - 1) /\ r[n] \in Nat /\ h \in Nat  BY <1>2
  <2>3. \A m \in 0..n : r[m] < h
    <3> TAKE m \in 0..n
    <3>1. CASE m = n  BY <3>1, <2>2
    <3>2. CASE m # n
      <4>1. m \in 0..(n - 1) /\ m \in 0..(N - 1)  BY <3>2, <1>2
      <4> QED BY <4>1, <2>1, <2>2
    <3> QED BY <3>1, <3>2
  <2>4. n + 1 \in 0..N /\ (n + 1) - 1 = n  BY <1>2
  <2> HIDE DEF h
  <2> QED BY <2>2, <2>3, <2>4
<1>3. 0..N \subseteq S
  <2> HIDE DEF S
  <2> QED BY <1>1, <1>2, IntervalSets
<1>4. N \in S
  <2> HIDE DEF S
  <2> QED BY <1>3
<1> QED BY <1>4

(* Functions that are defined by recursion on 0..N exist.                   *)
LEMMA Iterated ==
  ASSUME NEW X, NEW b \in X, NEW N \in Nat, NEW G \in [1..N -> [X -> X]]
  PROVE  \E f \in [0..N -> X] : f[0] = b /\ \A i \in 1..N : f[i] = G[i][f[i - 1]]
<1> DEFINE Upto(n, f) == f[0] = b /\ \A i \in 1..n : f[i] = G[i][f[i - 1]]
           S == {n \in 0..N : \E f \in [0..n -> X] : Upto(n, f)}
<1>1. 0 \in S
  <2> DEFINE f == [i \in 0..0 |-> b]
  <2>1. f \in [0..0 -> X] /\ Upto(0, f)  OBVIOUS
  <2>2. 0 \in 0..N  OBVIOUS
  <2> HIDE DEF f, Upto
  <2> QED BY <2>1, <2>2
<1>2. ASSUME NEW n \in 0..N, n \in S, n < N PROVE n + 1 \in S
  <2>1. PICK f \in [0..n -> X] : Upto(n, f)  BY <1>2
  <2> DEFINE g == [i \in 0..(n + 1) |-> IF i = n + 1 THEN G[n + 1][f[n]] ELSE f[i]]
  <2>2. G[n + 1][f[n]] \in X
    <3>1. n + 1 \in 1..N /\ f[n] \in X  BY <1>2
    <3> QED BY <3>1
  <2>3. g \in [0..(n + 1) -> X]  BY <2>2
  <2>4. Upto(n + 1, g)
    <3>1. g[0] = b  BY <2>1
    <3>2. ASSUME NEW i \in 1..(n + 1) PROVE g[i] = G[i][g[i - 1]]
      <4>1. CASE i = n + 1
        <5>1. i - 1 = n /\ n \in 0..(n + 1) /\ n # n + 1  BY <4>1
        <5>2. g[i - 1] = f[n]  BY <5>1
        <5>3. g[i] = G[i][f[n]]  BY <4>1
        <5> HIDE DEF g
        <5> QED BY <5>2, <5>3
      <4>2. CASE i # n + 1
        <5>1. i \in 1..n /\ i - 1 \in 0..n  BY <4>2
        <5>2. g[i] = f[i] /\ g[i - 1] = f[i - 1]  BY <5>1
        <5> QED BY <5>1, <5>2, <2>1
      <4> QED BY <4>1, <4>2
    <3> QED BY <3>1, <3>2
  <2>5. n + 1 \in 0..N  BY <1>2
  <2> QED BY <2>3, <2>4, <2>5
<1>3. 0..N \subseteq S
  <2> HIDE DEF S
  <2> QED BY <1>1, <1>2, IntervalSets
<1>4. PICK f \in [0..N -> X] : Upto(N, f)  BY <1>3
<1> QED BY <1>4

(***************************************************************************)
(* Chains.  What holds of the chains of a table t: the nodes that come after *)
(* node a on its chain are those b with <<a, b>> \in R, and r goes down     *)
(* along every chain.                                                      *)
(***************************************************************************)
V == Values \cup {Nil}
Entry(size) == [key : Keys \cup {NoKey}, dead : BOOLEAN, val : V,
                next : (0..(size - 1)) \cup {NoNode}]
Parts(size) == [0..(size - 1) -> Entry(size)]
Nodes(t) == DOMAIN t.node
HashPart(t) ==
  /\ sizenode(t) \in Nat /\ Nodes(t) = 0..(sizenode(t) - 1)
  /\ t.node \in Parts(sizenode(t))
  /\ t.lastfree \in 0..sizenode(t)

Chains(t, r, R) ==
  /\ r \in [Nodes(t) -> Nat] /\ R \in SUBSET (Nodes(t) \X Nodes(t))
  /\ \A n \in Nodes(t) : t.node[n].next # NoNode =>
       r[t.node[n].next] < r[n] /\ t.node[t.node[n].next].key # NoKey
  /\ \A n \in Nodes(t) : <<n, n>> \in R
  /\ \A a, b \in Nodes(t) : <<a, b>> \in R /\ a # b =>
       r[b] < r[a] /\ t.node[a].next # NoNode /\ <<t.node[a].next, b>> \in R

(* On such chains the recursive function of Chained exists: there is one for *)
(* the nodes of rank less than n, for every n.                             *)
LEMMA ChainedUnfolds ==
  ASSUME NEW t, HashPart(t), sizenode(t) # 0, NEW r, NEW R, Chains(t, r, R),
         NEW S, S \subseteq Nodes(t), NEW n \in Nodes(t)
  PROVE  /\ n \in S => Chained(t, n, S) = n
         /\ n \notin S /\ t.node[n].next = NoNode => Chained(t, n, S) = NoNode
         /\ n \notin S /\ t.node[n].next # NoNode =>
              Chained(t, n, S) = Chained(t, t.node[n].next, S)
<1> DEFINE D == Nodes(t) \cup {NoNode}
           found == S \cup {NoNode}
           next(m) == t.node[m].next
           Low(l) == {m \in Nodes(t) : r[m] < l} \cup {NoNode}
           On(l, f) == \A m \in Low(l) : f[m] = IF m \in found THEN m ELSE f[next(m)]
           I == {l \in Nat : \E f \in [Low(l) -> D] : On(l, f)}
           from == CHOOSE f : f = [m \in D |-> IF m \in found THEN m ELSE f[next(m)]]
<1>1. \A m \in Nodes(t) : next(m) \in D /\ m # NoNode
  BY DEF HashPart, Parts, Entry, NoNode
<1>2. \A m \in Nodes(t) : r[m] \in Nat
  BY DEF Chains
<1>3. \A m \in Nodes(t) : next(m) # NoNode => r[next(m)] < r[m]
  BY DEF Chains
<1>4. \A l \in Nat : \A m \in Low(l + 1) : m \notin found => next(m) \in Low(l)
  BY <1>1, <1>2, <1>3
<1>5. \A l \in Nat : Low(l) \subseteq Low(l + 1) /\ Low(l) \subseteq D
  BY <1>2
<1> HIDE DEF D, Low, found
<1>6. 0 \in I
  <2> DEFINE f == [m \in Low(0) |-> NoNode]
  <2>1. Low(0) = {NoNode}  BY <1>2 DEF Low
  <2>2. f \in [Low(0) -> D]  BY DEF D
  <2>3. On(0, f)  BY <2>1 DEF found
  <2> HIDE DEF f, On
  <2> QED BY <2>2, <2>3
<1>7. ASSUME NEW l \in I PROVE l + 1 \in I
  <2>1. l \in Nat /\ l + 1 \in Nat  OBVIOUS
  <2>2. PICK f \in [Low(l) -> D] : On(l, f)  OBVIOUS
  <2> DEFINE g == [m \in Low(l + 1) |-> IF m \in found THEN m ELSE f[next(m)]]
  <2>3. g \in [Low(l + 1) -> D]
    <3>1. \A m \in Low(l + 1) : m \notin found => next(m) \in Low(l)  BY <1>4, <2>1
    <3>2. \A m \in Low(l + 1) : m \in D  BY <1>5, <2>1
    <3> QED BY <3>1, <3>2
  <2>4. \A m \in Low(l) : g[m] = f[m]
    BY <1>5, <2>1, <2>2
  <2>5. On(l + 1, g)
    <3> SUFFICES ASSUME NEW m \in Low(l + 1)
                 PROVE  g[m] = IF m \in found THEN m ELSE g[next(m)]
      OBVIOUS
    <3>1. m \notin found => next(m) \in Low(l)  BY <1>4, <2>1
    <3> QED BY <3>1, <2>4
  <2> HIDE DEF g, On
  <2> QED BY <2>1, <2>3, <2>5
<1>8. Nat \subseteq I
  <2> I \in SUBSET Nat  OBVIOUS
  <2> HIDE DEF I
  <2> QED BY <1>6, <1>7, NatSets
<1>9. PICK l \in Nat : D = Low(l)
  <2>1. PICK l \in Nat : \A m \in Nodes(t) : r[m] < l
    <3>1. r \in [0..(sizenode(t) - 1) -> Nat] /\ sizenode(t) \in Nat  BY DEF HashPart, Chains
    <3> QED BY <3>1, Bounded DEF HashPart
  <2> QED BY <2>1 DEF Low, D
<1>10. \E f : f = [m \in D |-> IF m \in found THEN m ELSE f[next(m)]]
  <2>1. PICK f \in [Low(l) -> D] : On(l, f)  BY <1>8
  <2>2. f = [m \in D |-> IF m \in found THEN m ELSE f[next(m)]]
    BY <2>1, <1>9
  <2> QED BY <2>2
<1>11. from = [m \in D |-> IF m \in found THEN m ELSE from[next(m)]]
  BY <1>10
<1>12. \A m \in D : Chained(t, m, S) = from[m]
  BY SMT DEF Chained, D, found, Nodes
<1> HIDE DEF from
<1>13. n \in D /\ NoNode \in D /\ next(n) \in D
  BY <1>1 DEF D
<1>14. from[NoNode] = NoNode
  BY <1>11, <1>13 DEF found
<1>15. n \in found <=> n \in S
  BY <1>1 DEF found
<1>16. from[n] = IF n \in found THEN n ELSE from[next(n)]
  BY <1>11, <1>13
<1> QED BY <1>12, <1>13, <1>14, <1>15, <1>16

(* A search along the chain of a finds an element of S if R leads to one, and *)
(* none before it; and it finds a predecessor of a node other than a.      *)
LEMMA ChainedFinds ==
  ASSUME NEW t, HashPart(t), sizenode(t) # 0, NEW r, NEW R, Chains(t, r, R),
         NEW S, S \subseteq Nodes(t), NEW a \in Nodes(t)
  PROVE  /\ Chained(t, a, S) \in S \cup {NoNode}
         /\ \A b \in S : <<a, b>> \in R =>
              Chained(t, a, S) \in S /\ r[b] <= r[Chained(t, a, S)]
         /\ \A b \in Nodes(t) :
              <<a, b>> \in R /\ a # b /\ (\A m \in Nodes(t) : t.node[m].next = b => m \in S)
                => Chained(t, a, S) \in S
<1> DEFINE next(n) == t.node[n].next
           c(n) == Chained(t, n, S)
           P(n) == /\ c(n) \in S \cup {NoNode}
                   /\ \A b \in S : <<n, b>> \in R => c(n) \in S /\ r[b] <= r[c(n)]
                   /\ \A b \in Nodes(t) :
                        <<n, b>> \in R /\ n # b /\ (\A m \in Nodes(t) : next(m) = b => m \in S)
                          => c(n) \in S
           I == {l \in Nat : \A n \in Nodes(t) : r[n] < l => P(n)}
<1>1. \A n \in Nodes(t) : r[n] \in Nat /\ next(n) \in Nodes(t) \cup {NoNode} /\ n # NoNode
  BY DEF HashPart, Parts, Entry, NoNode, Chains
<1>2. 0 \in I
  BY <1>1
<1>3. ASSUME NEW l \in I PROVE l + 1 \in I
  <2> SUFFICES ASSUME NEW n \in Nodes(t), r[n] < l + 1 PROVE P(n)
    OBVIOUS
  <2>1. \A m \in Nodes(t) : r[m] < r[n] => P(m)
    BY <1>1
  <2>2. CASE n \in S
    <3>1. c(n) = n  BY <2>2, ChainedUnfolds
    <3>2. \A b \in S : <<n, b>> \in R => r[b] <= r[n]
      <4> TAKE b \in S
      <4>1. b \in Nodes(t) /\ r[b] \in Nat /\ r[n] \in Nat  BY <1>1
      <4>2. <<n, b>> \in R /\ n # b => r[b] < r[n]  BY <4>1 DEF Chains
      <4> QED BY <4>1, <4>2
    <3> HIDE DEF c
    <3> QED BY <3>1, <3>2, <2>2
  <2>3. CASE n \notin S /\ next(n) = NoNode
    <3>1. c(n) = NoNode  BY <2>3, ChainedUnfolds
    <3>2. \A b \in Nodes(t) : <<n, b>> \in R => n = b  BY <2>3 DEF Chains
    <3> HIDE DEF c
    <3> QED BY <3>1, <3>2, <2>3
  <2>4. CASE n \notin S /\ next(n) # NoNode
    <3>1. c(n) = c(next(n))  BY <2>4, ChainedUnfolds
    <3>2. next(n) \in Nodes(t) /\ r[next(n)] < r[n]  BY <2>4, <1>1 DEF Chains
    <3>3. P(next(n))  BY <3>2, <2>1
    <3>4. \A b \in Nodes(t) : <<n, b>> \in R /\ n # b => <<next(n), b>> \in R
      BY DEF Chains
    <3> HIDE DEF c
    <3>5. c(n) \in S \cup {NoNode}  BY <3>1, <3>3
    <3>6. \A b \in S : <<n, b>> \in R => c(n) \in S /\ r[b] <= r[c(n)]
      BY <3>1, <3>3, <3>4, <2>4
    <3>7. ASSUME NEW b \in Nodes(t), <<n, b>> \in R, n # b,
                 \A m \in Nodes(t) : next(m) = b => m \in S
          PROVE  c(n) \in S
      <4>1. next(n) # b /\ <<next(n), b>> \in R  BY <2>4, <3>4, <3>7
      <4> QED BY <3>1, <3>3, <3>7, <4>1
    <3> QED BY <3>5, <3>6, <3>7
  <2> QED BY <2>2, <2>3, <2>4
<1>4. Nat \subseteq I
  <2> I \in SUBSET Nat  OBVIOUS
  <2> HIDE DEF I
  <2> QED BY <1>2, <1>3, NatSets
<1>5. r[a] + 1 \in I /\ r[a] < r[a] + 1
  <2> HIDE DEF I
  <2> QED BY <1>1, <1>4
<1>6. P(a)
  <2> HIDE DEF P
  <2> QED BY <1>5
<1> QED BY <1>6

(***************************************************************************)
(* Tables.  Each key is on the chain of its main position, whose node, if it *)
(* is another, is in its own; a live key has one node, which comes before  *)
(* the dead ones that have the same address; no key of a node belongs to   *)
(* the array part; every node that was never used is below lastfree.       *)
(***************************************************************************)
Homed(t, R, mp, n) ==
  /\ mp \in Nodes(t) /\ <<mp, n>> \in R
  /\ t.node[mp].key # NoKey /\ mainposition(t, t.node[mp].key) = mp
Placed(t, r, R) ==
  /\ \A n \in Nodes(t) : t.node[n].key # NoKey =>
       Homed(t, R, mainposition(t, t.node[n].key), n)
  /\ \A n \in Nodes(t) : t.node[n].key = NoKey =>
       n < t.lastfree /\ t.node[n].val = Nil /\ ~ t.node[n].dead /\ t.node[n].next = NoNode
  /\ \A n \in Nodes(t) : t.node[n].dead => t.node[n].val = Nil
  /\ \A n, m \in Nodes(t) : t.node[n].next = t.node[m].next /\ t.node[n].next # NoNode => n = m
  /\ \A n, m \in Nodes(t) :
       t.node[n].key # NoKey /\ ~ t.node[n].dead /\ t.node[m].key = t.node[n].key /\ m # n
         => t.node[m].dead /\ r[m] < r[n]
  /\ \A n \in Nodes(t) : ~ InArray(t, t.node[n].key)

ArrayPart(t) ==
  /\ t.array \in Seq(V)
  /\ \A i \in 1..sizearray(t) : t.array[i] # Nil => i \in IntKeys

Sound(t) ==
  /\ t = [array |-> t.array, node |-> t.node, lastfree |-> t.lastfree]
  /\ ArrayPart(t) /\ HashPart(t)
  /\ \E r, R : Chains(t, r, R) /\ Placed(t, r, R)

(* The main position of a key is one of the nodes (hashpow2, hashmod).     *)
LEMMA MainPosition ==
  ASSUME NEW t, HashPart(t), sizenode(t) # 0, NEW k \in Keys
  PROVE  mainposition(t, k) \in Nodes(t)
<1>1. Hash[k] \in Nat  BY TableAssumption DEF TableAssumption
<1> DEFINE s == sizenode(t)
           d == IF s <= 2 THEN 1 ELSE s - 1
<1>2. s \in Nat /\ s # 0 /\ d \in Nat /\ d # 0 /\ d <= s  BY DEF HashPart
<1>3. \A l \in Nat \ {0} : Hash[k] % l \in 0..(l - 1)  BY <1>1
<1>4. mainposition(t, k) = IF k \in StringKeys THEN Hash[k] % s ELSE Hash[k] % d
  BY DEF mainposition
<1> HIDE DEF d, s
<1>5. Hash[k] % s \in 0..(s - 1) /\ Hash[k] % d \in 0..(d - 1)  BY <1>2, <1>3
<1>6. Nodes(t) = 0..(s - 1)  BY DEF HashPart, s
<1> QED BY <1>2, <1>4, <1>5, <1>6

(* The main position depends on the size only.                             *)
LEMMA SamePosition ==
  ASSUME NEW t, NEW u, sizenode(u) = sizenode(t), NEW k
  PROVE  mainposition(u, k) = mainposition(t, k)
BY DEF mainposition

(* What luaH_get and findindex find.                                        *)
LEMMA Found ==
  ASSUME NEW t, HashPart(t), NEW r, NEW R, Chains(t, r, R), Placed(t, r, R), NEW k \in Keys
  PROVE  /\ \A n \in WithLiveKey(t, k) : FindNode(t, k) = n
         /\ WithLiveKey(t, k) = {} => FindNode(t, k) = NoNode
         /\ \A n \in WithLiveKey(t, k) : Chained(t, mainposition(t, k), WithKey(t, k)) = n
         /\ Chained(t, mainposition(t, k), WithKey(t, k)) \in WithKey(t, k) \cup {NoNode}
         /\ WithKey(t, k) # {} => Chained(t, mainposition(t, k), WithKey(t, k)) \in WithKey(t, k)
<1> DEFINE mp == mainposition(t, k)
           live == WithLiveKey(t, k)
           with == WithKey(t, k)
<1>1. NoKey # k  BY TableAssumption DEF TableAssumption
<1>2. live \subseteq with /\ with \subseteq Nodes(t)
  BY DEF WithLiveKey, WithKey, Nodes
<1>3. CASE sizenode(t) = 0
  <2>1. Nodes(t) = {}  BY <1>3 DEF HashPart
  <2>2. \A S : Chained(t, mp, S) = NoNode  BY <1>3 DEF Chained
  <2> QED BY <2>1, <2>2, <1>2 DEF FindNode
<1>4. CASE sizenode(t) # 0
  <2>1. mp \in Nodes(t)  BY <1>4, MainPosition
  <2>2. \A n \in with : <<mp, n>> \in R  BY <1>1 DEF WithKey, Nodes, Placed, Homed
  <2>3. \A n \in live : \A m \in with : m # n => m \notin live /\ r[m] < r[n]
    BY <1>1 DEF WithKey, WithLiveKey, Nodes, Placed
  <2>4. FindNode(t, k) = Chained(t, mp, live)  BY DEF FindNode
  <2>5. /\ Chained(t, mp, live) \in live \cup {NoNode}
        /\ \A n \in live : Chained(t, mp, live) \in live
    <3> HIDE DEF mp, live
    <3> QED BY <1>2, <1>4, <2>1, <2>2, ChainedFinds
  <2>6. /\ Chained(t, mp, with) \in with \cup {NoNode}
        /\ \A n \in with : Chained(t, mp, with) \in with /\ r[n] <= r[Chained(t, mp, with)]
    <3> HIDE DEF mp, with
    <3> QED BY <1>2, <1>4, <2>1, <2>2, ChainedFinds
  <2>7. \A n \in Nodes(t) : r[n] \in Nat  BY DEF Chains
  <2> HIDE DEF mp, live, with
  <2>8. \A n \in live : Chained(t, mp, live) = n  BY <2>3, <2>5, <1>2
  <2>9. \A n \in live : Chained(t, mp, with) = n
    <3> TAKE n \in live
    <3> DEFINE c == Chained(t, mp, with)
    <3>1. n \in with /\ n \in Nodes(t) /\ c \in with /\ c \in Nodes(t)  BY <2>6, <1>2
    <3>2. r[n] <= r[c] /\ r[n] \in Nat /\ r[c] \in Nat  BY <3>1, <2>6, <2>7
    <3>3. c # n => r[c] < r[n]  BY <3>1, <2>3
    <3> HIDE DEF c
    <3>4. c = n  BY <3>2, <3>3
    <3> QED BY <3>4 DEF c
  <2> QED BY <2>4, <2>5, <2>6, <2>8, <2>9 DEF mp, live, with
<1> QED BY <1>3, <1>4

(* luaH_get looks in the array, then in the one node with the key.         *)
LEMMA Gets ==
  ASSUME NEW t, Sound(t), NEW k \in Keys
  PROVE  /\ InArray(t, k) => luaH_get(t, k) = t.array[k]
         /\ \A n \in WithLiveKey(t, k) : luaH_get(t, k) = t.node[n].val
         /\ ~ InArray(t, k) /\ WithLiveKey(t, k) = {} => luaH_get(t, k) = Nil
         /\ IsPresent(t, k) <=> InArray(t, k) \/ WithLiveKey(t, k) # {}
         /\ luaH_get(t, k) \in V
<1>1. PICK r, R : Chains(t, r, R) /\ Placed(t, r, R)  BY DEF Sound
<1>2. HashPart(t) /\ ArrayPart(t)  BY DEF Sound
<1>3. \A n \in WithLiveKey(t, k) : FindNode(t, k) = n  BY <1>1, <1>2, Found
<1>4. WithLiveKey(t, k) = {} => FindNode(t, k) = NoNode  BY <1>1, <1>2, Found
<1>5. \A n \in WithLiveKey(t, k) : ~ InArray(t, k) /\ n # NoNode /\ t.node[n].val \in V
  BY <1>1, <1>2 DEF Placed, WithLiveKey, WithKey, Nodes, HashPart, Parts, Entry, NoNode
<1>6. InArray(t, k) => t.array[k] \in V
  <2>1. InArray(t, k) => k \in 1..Len(t.array)
    BY TableAssumption DEF TableAssumption, InArray, sizearray, ArrayPart
  <2> QED BY <2>1, <1>2 DEF ArrayPart
<1>7. Nil \in V  BY DEF V
<1> QED BY <1>3, <1>4, <1>5, <1>6, <1>7 DEF luaH_get, IsPresent

(***************************************************************************)
(* newkey.  Each of its three cases is a lemma on the nodes alone.          *)
(***************************************************************************)
SameShape(t, u) == u.array = t.array /\ Nodes(u) = Nodes(t)

(* Tables of one shape have the same main positions and array.             *)
LEMMA SameShapes ==
  ASSUME NEW t, NEW u, SameShape(t, u)
  PROVE  /\ sizenode(u) = sizenode(t) /\ sizearray(u) = sizearray(t) /\ Nodes(u) = Nodes(t)
         /\ \A k : mainposition(u, k) = mainposition(t, k) /\ (InArray(u, k) <=> InArray(t, k))
<1>1. sizenode(u) = sizenode(t)  BY DEF SameShape, sizenode, Nodes
<1> QED BY <1>1, SamePosition DEF SameShape, sizearray, InArray

(* The main position is a node without a value.                            *)
LEMMA Overwritten ==
  ASSUME NEW t, HashPart(t), sizenode(t) # 0, NEW r, NEW R, Chains(t, r, R), Placed(t, r, R),
         NEW k \in Keys, ~ InArray(t, k), WithLiveKey(t, k) = {},
         NEW mp, mp = mainposition(t, k), t.node[mp].val = Nil,
         NEW u, SameShape(t, u), u.lastfree = t.lastfree,
         u.node[mp] = [key |-> k, dead |-> FALSE, val |-> Nil, next |-> t.node[mp].next],
         \A m \in Nodes(t) \ {mp} : u.node[m] = t.node[m]
  PROVE  Chains(u, r, R) /\ Placed(u, r, R)
<1>1. mp \in Nodes(t)  BY MainPosition
<1>2. k # NoKey  BY TableAssumption DEF TableAssumption
<1>3. /\ u.node[mp].key = k /\ u.node[mp].val = Nil /\ ~ u.node[mp].dead
      /\ u.node[mp].next = t.node[mp].next
  OBVIOUS
<1>4. \A m \in Nodes(t) : u.node[m].next = t.node[m].next
  BY <1>3
<1>5. Nodes(u) = Nodes(t)  BY SameShapes
<1>6. \A j : mainposition(u, j) = mainposition(t, j) /\ (InArray(u, j) <=> InArray(t, j))
  BY SameShapes
<1>7. \A m \in Nodes(t) : t.node[m].key # NoKey => u.node[m].key # NoKey
  BY <1>2, <1>3
<1>8. Chains(u, r, R)
  <2>1. \A n \in Nodes(t) : t.node[n].next # NoNode => t.node[n].next \in Nodes(t)
    BY DEF HashPart, Parts, Entry
  <2>2. \A n \in Nodes(t) : t.node[n].next # NoNode =>
          r[t.node[n].next] < r[n] /\ t.node[t.node[n].next].key # NoKey
    BY DEF Chains
  <2>3. \A n \in Nodes(t) : u.node[n].next # NoNode =>
          r[u.node[n].next] < r[n] /\ u.node[u.node[n].next].key # NoKey
    BY <1>4, <1>7, <2>1, <2>2
  <2>4. \A a, b \in Nodes(t) : <<a, b>> \in R /\ a # b =>
          r[b] < r[a] /\ u.node[a].next # NoNode /\ <<u.node[a].next, b>> \in R
    BY <1>4 DEF Chains
  <2>5. /\ r \in [Nodes(t) -> Nat] /\ R \in SUBSET (Nodes(t) \X Nodes(t))
        /\ \A n \in Nodes(t) : <<n, n>> \in R
    BY DEF Chains
  <2> QED BY <1>5, <2>3, <2>4, <2>5 DEF Chains
<1>9. \A n \in Nodes(t) : u.node[n].key # NoKey => Homed(u, R, mainposition(t, u.node[n].key), n)
  <2> TAKE n \in Nodes(t)
  <2>1. CASE n = mp
    <3>1. <<mp, mp>> \in R  BY <1>1 DEF Chains
    <3> QED BY <2>1, <3>1, <1>1, <1>2, <1>3, <1>5, <1>6 DEF Homed
  <2>2. CASE n # mp
    <3> SUFFICES ASSUME t.node[n].key # NoKey
                 PROVE  Homed(u, R, mainposition(t, t.node[n].key), n)
      BY <2>2
    <3> DEFINE p == mainposition(t, t.node[n].key)
    <3>1. /\ p \in Nodes(t) /\ <<p, n>> \in R
          /\ t.node[p].key # NoKey /\ mainposition(t, t.node[p].key) = p
      BY DEF Placed, Homed
    <3> HIDE DEF p
    <3>2. u.node[p].key # NoKey /\ mainposition(t, u.node[p].key) = p
      BY <3>1, <1>2, <1>3
    <3> QED BY <3>1, <3>2, <1>5, <1>6 DEF p, Homed
  <2> QED BY <2>1, <2>2
<1>10. \A n \in Nodes(t) : u.node[n].key = NoKey =>
         n < u.lastfree /\ u.node[n].val = Nil /\ ~ u.node[n].dead /\ u.node[n].next = NoNode
  BY <1>2, <1>3 DEF Placed
<1>11. \A n \in Nodes(t) : u.node[n].dead => u.node[n].val = Nil
  BY <1>3 DEF Placed
<1>12. \A n, m \in Nodes(t) : u.node[n].next = u.node[m].next /\ u.node[n].next # NoNode => n = m
  BY <1>4 DEF Placed
<1>13. \A n, m \in Nodes(t) :
         u.node[n].key # NoKey /\ ~ u.node[n].dead /\ u.node[m].key = u.node[n].key /\ m # n
           => u.node[m].dead /\ r[m] < r[n]
  <2> SUFFICES ASSUME NEW n \in Nodes(t), NEW m \in Nodes(t),
                      u.node[n].key # NoKey, ~ u.node[n].dead,
                      u.node[m].key = u.node[n].key, m # n
               PROVE  u.node[m].dead /\ r[m] < r[n]
    OBVIOUS
  <2>1. \A l \in Nodes(t) : t.node[l].key = k => t.node[l].dead
    BY DEF WithLiveKey, WithKey, Nodes
  <2>2. CASE n = mp
    <3>1. t.node[m].key = k /\ t.node[m].dead /\ u.node[m] = t.node[m]
      BY <2>1, <2>2, <1>3
    <3>2. <<mp, m>> \in R  BY <3>1, <1>2 DEF Placed, Homed
    <3> QED BY <2>2, <3>1, <3>2, <1>1 DEF Chains
  <2>3. CASE m = mp
    <3>1. t.node[n].key = k /\ ~ t.node[n].dead
      BY <2>3, <1>3
    <3> QED BY <3>1, <2>1
  <2>4. CASE n # mp /\ m # mp  BY <2>4 DEF Placed
  <2> QED BY <2>2, <2>3, <2>4
<1>14. \A n \in Nodes(t) : ~ InArray(t, u.node[n].key)
  BY <1>3 DEF Placed
<1>15. Placed(u, r, R)
  BY <1>5, <1>6, <1>9, <1>10, <1>11, <1>12, <1>13, <1>14 DEF Placed
<1> QED BY <1>8, <1>15

(* The main position is taken by a key of its own: the new key is linked     *)
(* after it.  The ranks are spread to make place.                          *)
LEMMA LinkedAfter ==
  ASSUME NEW t, HashPart(t), sizenode(t) # 0, NEW r, NEW R, Chains(t, r, R), Placed(t, r, R),
         NEW k \in Keys, ~ InArray(t, k), WithLiveKey(t, k) = {},
         NEW mp, mp = mainposition(t, k), t.node[mp].val # Nil,
         mainposition(t, t.node[mp].key) = mp,
         NEW n \in Nodes(t), t.node[n].key = NoKey,
         \A m \in Nodes(t) : t.node[m].key = NoKey => m <= n,
         NEW u, SameShape(t, u), u.lastfree = n,
         u.node[n] = [key |-> k, dead |-> FALSE, val |-> Nil, next |-> t.node[mp].next],
         u.node[mp] = [t.node[mp] EXCEPT !.next = n],
         \A m \in Nodes(t) \ {mp, n} : u.node[m] = t.node[m]
  PROVE  \E r2, R2 : Chains(u, r2, R2) /\ Placed(u, r2, R2)
<1> DEFINE N == Nodes(t)
           next(m) == t.node[m].next
           r2 == [m \in N |-> IF m = n THEN 2 * r[mp] ELSE 2 * r[m] + 1]
           In(a, b) == \/ a = n /\ b = n
                       \/ a # n /\ b # n /\ <<a, b>> \in R
                       \/ a # n /\ b = n /\ <<a, mp>> \in R
                       \/ a = n /\ b # n /\ b # mp /\ <<mp, b>> \in R
           R2 == {p \in N \X N : In(p[1], p[2])}
<1>1. mp \in N  BY MainPosition
<1>2. k # NoKey  BY TableAssumption DEF TableAssumption
<1>3. t.node[mp].key # NoKey /\ ~ t.node[mp].dead /\ n # mp
  BY <1>1 DEF Placed
<1>4. /\ u.node[n].key = k /\ u.node[n].val = Nil /\ ~ u.node[n].dead
      /\ u.node[n].next = next(mp)
  OBVIOUS
<1>5. /\ u.node[mp].key = t.node[mp].key /\ u.node[mp].val = t.node[mp].val
      /\ u.node[mp].dead = t.node[mp].dead /\ u.node[mp].next = n
  <2>1. t.node[mp] \in Entry(sizenode(t))  BY <1>1 DEF HashPart, Parts
  <2> QED BY <2>1 DEF Entry
<1>6. \A m \in N \ {n} : /\ u.node[m].key = t.node[m].key /\ u.node[m].val = t.node[m].val
                         /\ u.node[m].dead = t.node[m].dead
  BY <1>5
<1>7. \A m \in N \ {mp, n} : u.node[m].next = next(m)
  OBVIOUS
<1>8. Nodes(u) = N  BY SameShapes
<1>9. \A j : mainposition(u, j) = mainposition(t, j) /\ (InArray(u, j) <=> InArray(t, j))
  BY SameShapes
<1>10. \A m \in N : r[m] \in Nat  BY DEF Chains
<1>11. \A m \in N : next(m) # NoNode =>
         next(m) \in N /\ r[next(m)] < r[m] /\ t.node[next(m)].key # NoKey /\ next(m) # n
  BY DEF HashPart, Parts, Entry, Chains
<1>12. \A a, b \in N : <<a, b>> \in R2 <=> In(a, b)
  OBVIOUS
<1>13. /\ \A m \in N : <<m, m>> \in R
       /\ \A a, b \in N : <<a, b>> \in R /\ a # b =>
            r[b] < r[a] /\ next(a) # NoNode /\ <<next(a), b>> \in R
  BY DEF Chains
<1>14. r2 \in [N -> Nat] /\ r2[n] = 2 * r[mp] /\ \A m \in N \ {n} : r2[m] = 2 * r[m] + 1
  BY <1>1, <1>10
<1>15. R2 \in SUBSET (N \X N)  OBVIOUS
<1> HIDE DEF r2, R2
<1>16. Chains(u, r2, R2)
  <2>1. ASSUME NEW m \in N, u.node[m].next # NoNode
        PROVE  r2[u.node[m].next] < r2[m] /\ u.node[u.node[m].next].key # NoKey
    <3>1. CASE m = n
      <4> DEFINE c == next(mp)
      <4>1. c \in N /\ c # n /\ r[c] < r[mp] /\ t.node[c].key # NoKey /\ u.node[m].next = c
        BY <3>1, <2>1, <1>1, <1>4, <1>11
      <4> HIDE DEF c
      <4>2. r2[c] = 2 * r[c] + 1 /\ r[c] \in Nat /\ r[mp] \in Nat  BY <4>1, <1>1, <1>10, <1>14
      <4>3. u.node[c].key # NoKey  BY <4>1, <1>6
      <4> QED BY <3>1, <4>1, <4>2, <4>3, <1>14
    <3>2. CASE m = mp
      <4>1. u.node[m].next = n  BY <3>2, <1>5
      <4>2. r2[m] = 2 * r[mp] + 1  BY <3>2, <1>1, <1>3, <1>14
      <4> QED BY <4>1, <4>2, <1>1, <1>2, <1>4, <1>10, <1>14
    <3>3. CASE m # n /\ m # mp
      <4> DEFINE c == next(m)
      <4>1. c \in N /\ c # n /\ r[c] < r[m] /\ t.node[c].key # NoKey /\ u.node[m].next = c
        BY <3>3, <2>1, <1>7, <1>11
      <4> HIDE DEF c
      <4>2. r2[c] = 2 * r[c] + 1 /\ r2[m] = 2 * r[m] + 1 /\ r[c] \in Nat /\ r[m] \in Nat
        BY <4>1, <3>3, <1>10, <1>14
      <4>3. u.node[c].key # NoKey  BY <4>1, <1>6
      <4> QED BY <4>1, <4>2, <4>3
    <3> QED BY <3>1, <3>2, <3>3
  <2>2. ASSUME NEW a \in N, NEW b \in N, <<a, b>> \in R2, a # b
        PROVE  r2[b] < r2[a] /\ u.node[a].next # NoNode /\ <<u.node[a].next, b>> \in R2
    <3>1. n # NoNode  BY DEF HashPart, NoNode
    <3>2. CASE b = n
      <4>1. a # n /\ <<a, mp>> \in R  BY <3>2, <2>2, <1>12
      <4>2. r2[a] = 2 * r[a] + 1 /\ r[a] \in Nat /\ r[mp] \in Nat  BY <4>1, <1>1, <1>10, <1>14
      <4>7. a # mp => r[mp] < r[a]  BY <4>1, <1>1, <1>13
      <4>3. r[mp] <= r[a]  BY <4>2, <4>7
      <4>4. r2[b] < r2[a]  BY <4>2, <4>3, <3>2, <1>14
      <4>5. CASE a = mp
        <5>1. <<n, n>> \in R2  BY <1>12
        <5> QED BY <4>4, <4>5, <5>1, <3>1, <3>2, <1>5
      <4>6. CASE a # mp
        <5> DEFINE c == next(a)
        <5>1. c # NoNode /\ <<c, mp>> \in R /\ u.node[a].next = c
          BY <4>1, <4>6, <1>1, <1>7, <1>13
        <5>2. c \in N /\ c # n  BY <5>1, <1>11
        <5> HIDE DEF c
        <5>3. <<c, n>> \in R2  BY <5>1, <5>2, <1>12
        <5> QED BY <4>4, <5>1, <5>3, <3>2
      <4> QED BY <4>5, <4>6
    <3>3. CASE a = n
      <4> DEFINE c == next(mp)
      <4>1. b # n /\ b # mp /\ <<mp, b>> \in R  BY <3>3, <2>2, <1>12
      <4>2. r[b] < r[mp] /\ c # NoNode /\ <<c, b>> \in R  BY <4>1, <1>1, <1>13
      <4>3. c \in N /\ c # n /\ u.node[a].next = c  BY <4>2, <3>3, <1>1, <1>4, <1>11
      <4> HIDE DEF c
      <4>4. <<c, b>> \in R2  BY <4>1, <4>2, <4>3, <1>12
      <4>5. r2[b] = 2 * r[b] + 1 /\ r2[a] = 2 * r[mp] /\ r[b] \in Nat /\ r[mp] \in Nat
        BY <4>1, <3>3, <1>1, <1>10, <1>14
      <4> QED BY <4>2, <4>3, <4>4, <4>5
    <3>4. CASE a # n /\ b # n
      <4>1. <<a, b>> \in R  BY <3>4, <2>2, <1>12
      <4>2. r[b] < r[a] /\ next(a) # NoNode /\ <<next(a), b>> \in R  BY <4>1, <2>2, <1>13
      <4>3. r2[b] = 2 * r[b] + 1 /\ r2[a] = 2 * r[a] + 1 /\ r[b] \in Nat /\ r[a] \in Nat
        BY <3>4, <1>10, <1>14
      <4>4. r2[b] < r2[a]  BY <4>2, <4>3
      <4>5. CASE a = mp
        <5>1. <<n, b>> \in R2  BY <3>4, <4>1, <4>5, <2>2, <1>12
        <5> QED BY <4>4, <4>5, <5>1, <3>1, <1>5
      <4>6. CASE a # mp
        <5>1. next(a) \in N /\ next(a) # n  BY <4>2, <1>11
        <5>2. <<next(a), b>> \in R2  BY <3>4, <4>2, <5>1, <1>12
        <5> QED BY <3>4, <4>2, <4>4, <4>6, <5>2, <1>7
      <4> QED BY <4>5, <4>6
    <3> QED BY <3>2, <3>3, <3>4
  <2>3. \A m \in N : <<m, m>> \in R2  BY <1>12, <1>13
  <2> QED BY <2>1, <2>2, <2>3, <1>8, <1>14, <1>15 DEF Chains
<1>17. Placed(u, r2, R2)
  <2>1. ASSUME NEW m \in N, u.node[m].key # NoKey
        PROVE  Homed(u, R2, mainposition(t, u.node[m].key), m)
    <3>1. CASE m = n
      <4>1. <<mp, n>> \in R2  BY <1>1, <1>3, <1>12, <1>13
      <4>2. mainposition(t, u.node[m].key) = mp  BY <3>1, <1>4
      <4>3. u.node[mp].key # NoKey /\ mainposition(u, u.node[mp].key) = mp
        BY <1>3, <1>5, <1>9
      <4> QED BY <3>1, <4>1, <4>2, <4>3, <1>1, <1>8 DEF Homed
    <3>2. CASE m # n
      <4> DEFINE p == mainposition(t, t.node[m].key)
      <4>1. /\ p \in N /\ <<p, m>> \in R
            /\ t.node[p].key # NoKey /\ mainposition(t, t.node[p].key) = p
        BY <3>2, <2>1, <1>6 DEF Placed, Homed
      <4>2. u.node[m].key = t.node[m].key  BY <3>2, <1>6
      <4> HIDE DEF p
      <4>3. p # n  BY <4>1
      <4>4. <<p, m>> \in R2  BY <3>2, <4>1, <4>3, <1>12
      <4> QED BY <4>1, <4>2, <4>3, <4>4, <1>6, <1>8, <1>9 DEF p, Homed
    <3> QED BY <3>1, <3>2
  <2>2. ASSUME NEW m \in N, u.node[m].key = NoKey
        PROVE  m < u.lastfree /\ u.node[m].val = Nil /\ ~ u.node[m].dead /\ u.node[m].next = NoNode
    <3>1. m # n  BY <2>2, <1>2, <1>4
    <3>2. t.node[m].key = NoKey  BY <3>1, <2>2, <1>6
    <3>3. m <= n /\ m \in Int /\ n \in Int  BY <3>2 DEF HashPart
    <3>4. m < n  BY <3>1, <3>3
    <3>5. m # mp  BY <3>2, <1>3
    <3> QED BY <3>1, <3>2, <3>4, <3>5, <1>6, <1>7 DEF Placed
  <2>3. \A m \in N : u.node[m].dead => u.node[m].val = Nil
    BY <1>4, <1>6 DEF Placed
  <2>4. \A a, b \in N : u.node[a].next = u.node[b].next /\ u.node[a].next # NoNode => a = b
    <3>1. \A a, b \in N : next(a) = next(b) /\ next(a) # NoNode => a = b  BY DEF Placed
    <3>2. \A a \in N : next(a) # n  BY <1>11 DEF HashPart, NoNode
    <3> SUFFICES ASSUME NEW a \in N, NEW b \in N, u.node[a].next = u.node[b].next,
                        u.node[a].next # NoNode
                 PROVE  a = b
      OBVIOUS
    <3> DEFINE o(m) == IF m = n THEN mp ELSE m
    <3>3. ASSUME NEW m \in N PROVE u.node[m].next = n <=> m = mp
      <4>1. CASE m = mp  BY <4>1, <1>5
      <4>2. CASE m = n  BY <4>2, <3>2, <1>1, <1>3, <1>4
      <4>3. CASE m # mp /\ m # n
        <5>1. u.node[m].next = next(m) /\ next(m) # n  BY <4>3, <3>2, <1>7
        <5> QED BY <5>1, <4>3
      <4> QED BY <4>1, <4>2, <4>3
    <3>4. \A m \in N \ {mp} : u.node[m].next = next(o(m)) /\ o(m) \in N
      BY <1>1, <1>4, <1>7
    <3>5. \A x, y \in N \ {mp} : o(x) = o(y) => x = y  OBVIOUS
    <3>6. CASE a = mp \/ b = mp  BY <3>3, <3>6, <1>1, <1>5
    <3>7. CASE a # mp /\ b # mp
      <4> HIDE DEF o
      <4> QED BY <3>1, <3>4, <3>5, <3>7
    <3> QED BY <3>6, <3>7
  <2>5. ASSUME NEW a \in N, NEW b \in N, u.node[a].key # NoKey, ~ u.node[a].dead,
               u.node[b].key = u.node[a].key, b # a
        PROVE  u.node[b].dead /\ r2[b] < r2[a]
    <3>1. \A l \in N : t.node[l].key = k => t.node[l].dead
      BY DEF WithLiveKey, WithKey, Nodes
    <3>2. CASE a = n
      <4>1. t.node[b].key = k /\ u.node[b].dead = t.node[b].dead /\ b # n
        BY <3>2, <2>5, <1>4, <1>6
      <4>2. t.node[b].dead /\ b # mp  BY <4>1, <3>1, <1>3
      <4>3. <<mp, b>> \in R  BY <4>1, <1>2 DEF Placed, Homed
      <4>4. r[b] < r[mp]  BY <4>2, <4>3, <1>1, <1>13
      <4>5. r2[b] = 2 * r[b] + 1 /\ r2[a] = 2 * r[mp] /\ r[b] \in Nat /\ r[mp] \in Nat
        BY <4>1, <3>2, <1>1, <1>10, <1>14
      <4> QED BY <4>1, <4>2, <4>4, <4>5
    <3>3. CASE b = n
      <4>1. t.node[a].key = k /\ ~ t.node[a].dead  BY <3>3, <2>5, <1>4, <1>6
      <4> QED BY <4>1, <3>1
    <3>4. CASE a # n /\ b # n
      <4>1. t.node[b].dead /\ r[b] < r[a]  BY <3>4, <2>5, <1>6 DEF Placed
      <4>2. r2[b] = 2 * r[b] + 1 /\ r2[a] = 2 * r[a] + 1 /\ r[b] \in Nat /\ r[a] \in Nat
        BY <3>4, <1>10, <1>14
      <4> QED BY <3>4, <4>1, <4>2, <1>6
    <3> QED BY <3>2, <3>3, <3>4
  <2>6. \A m \in N : ~ InArray(t, u.node[m].key)
    BY <1>4, <1>6 DEF Placed
  <2> QED BY <2>1, <2>2, <2>3, <2>4, <2>5, <2>6, <1>8, <1>9 DEF Placed
<1> QED BY <1>16, <1>17

(* The main position is taken by a key that belongs elsewhere: that one moves *)
(* to a free node, which takes its place in its chain.                     *)
LEMMA MovedElsewhere ==
  ASSUME NEW t, HashPart(t), sizenode(t) # 0, NEW r, NEW R, Chains(t, r, R), Placed(t, r, R),
         NEW k \in Keys, ~ InArray(t, k), WithLiveKey(t, k) = {},
         NEW mp, mp = mainposition(t, k), t.node[mp].val # Nil,
         mainposition(t, t.node[mp].key) # mp,
         NEW n \in Nodes(t), t.node[n].key = NoKey,
         \A m \in Nodes(t) : t.node[m].key = NoKey => m <= n,
         NEW prev \in Nodes(t), t.node[prev].next = mp,
         NEW u, SameShape(t, u), u.lastfree = n,
         u.node[n] = t.node[mp],
         u.node[mp] = [key |-> k, dead |-> FALSE, val |-> Nil, next |-> NoNode],
         u.node[prev] = [t.node[prev] EXCEPT !.next = n],
         \A m \in Nodes(t) \ {mp, n, prev} : u.node[m] = t.node[m]
  PROVE  \E r2, R2 : Chains(u, r2, R2) /\ Placed(u, r2, R2)
<1> DEFINE N == Nodes(t)
           next(m) == t.node[m].next
           o(m) == IF m = n THEN mp ELSE m
           s(m) == IF m = mp THEN n ELSE m
           r2 == [m \in N |-> r[o(m)]]
           In(a, b) == \/ a = mp /\ b = mp
                       \/ a # mp /\ b # mp /\ <<o(a), o(b)>> \in R
           R2 == {p \in N \X N : In(p[1], p[2])}
<1>1. mp \in N  BY MainPosition
<1>2. k # NoKey  BY TableAssumption DEF TableAssumption
<1>3. t.node[mp].key # NoKey /\ n # mp  BY <1>1 DEF Placed
<1>4. \A m \in N : m # NoNode  BY DEF HashPart, NoNode
<1>5. /\ u.node[mp].key = k /\ u.node[mp].val = Nil /\ ~ u.node[mp].dead
      /\ u.node[mp].next = NoNode
  OBVIOUS
<1>6. \A m \in N : next(m) # NoNode =>
        next(m) \in N /\ r[next(m)] < r[m] /\ t.node[next(m)].key # NoKey /\ next(m) # n
  BY DEF HashPart, Parts, Entry, Chains
<1>7. \A m \in N : r[m] \in Nat  BY DEF Chains
<1>8. prev # n /\ prev # mp
  <2>1. prev # n  BY <1>1, <1>4 DEF Placed
  <2>2. r[mp] < r[prev]  BY <1>1, <1>4, <1>6
  <2> QED BY <2>1, <2>2, <1>1, <1>7
<1>9. /\ u.node[prev].key = t.node[prev].key /\ u.node[prev].val = t.node[prev].val
      /\ u.node[prev].dead = t.node[prev].dead /\ u.node[prev].next = n
  <2>1. t.node[prev] \in Entry(sizenode(t))  BY DEF HashPart, Parts
  <2> QED BY <2>1 DEF Entry
<1>10. \A m \in N \ {mp} : /\ o(m) \in N /\ o(m) # n /\ s(o(m)) = m
                           /\ u.node[m].key = t.node[o(m)].key
                           /\ u.node[m].val = t.node[o(m)].val
                           /\ u.node[m].dead = t.node[o(m)].dead
  BY <1>1, <1>3, <1>9
<1>11. \A m \in N \ {n} : s(m) \in N /\ s(m) # mp /\ o(s(m)) = m
  BY <1>1, <1>3
<1>12. \A m \in N : next(m) = mp => m = prev
  BY <1>1, <1>4 DEF Placed
<1>13. ASSUME NEW m \in N \ {mp}
       PROVE  u.node[m].next = IF next(o(m)) = NoNode THEN NoNode ELSE s(next(o(m)))
  <2>1. CASE m = n
    <3>1. next(mp) # mp  BY <1>1, <1>8, <1>12
    <3> QED BY <2>1, <3>1
  <2>2. CASE m = prev  BY <2>2, <1>1, <1>4, <1>8, <1>9
  <2>3. CASE m # n /\ m # prev
    <3>1. u.node[m].next = next(m) /\ o(m) = m /\ next(m) # mp  BY <2>3, <1>12
    <3> QED BY <3>1
  <2> QED BY <2>1, <2>2, <2>3
<1>14. Nodes(u) = N  BY SameShapes
<1>15. \A j : mainposition(u, j) = mainposition(t, j) /\ (InArray(u, j) <=> InArray(t, j))
  BY SameShapes
<1>16. /\ \A m \in N : <<m, m>> \in R
       /\ \A a, b \in N : <<a, b>> \in R /\ a # b =>
            r[b] < r[a] /\ next(a) # NoNode /\ <<next(a), b>> \in R
  BY DEF Chains
<1>17. \A a, b \in N : <<a, b>> \in R2 <=> In(a, b)
  OBVIOUS
<1>18. r2 \in [N -> Nat] /\ \A m \in N : r2[m] = r[o(m)]
  BY <1>1, <1>7
<1>19. R2 \in SUBSET (N \X N)  OBVIOUS
<1>20. \A a, b \in N \ {mp} : o(a) = o(b) => a = b
  BY <1>10
<1> HIDE DEF r2, R2, o, s
<1>21. Chains(u, r2, R2)
  <2>1. ASSUME NEW m \in N, u.node[m].next # NoNode
        PROVE  r2[u.node[m].next] < r2[m] /\ u.node[u.node[m].next].key # NoKey
    <3> DEFINE c == next(o(m))
    <3>1. m # mp /\ o(m) \in N  BY <2>1, <1>5, <1>10
    <3>2. c # NoNode /\ u.node[m].next = s(c)  BY <2>1, <3>1, <1>13
    <3>3. c \in N /\ r[c] < r[o(m)] /\ t.node[c].key # NoKey /\ c # n  BY <3>1, <3>2, <1>6
    <3> HIDE DEF c
    <3>4. s(c) \in N /\ s(c) # mp /\ o(s(c)) = c  BY <3>3, <1>11
    <3>5. r2[s(c)] = r[c] /\ r2[m] = r[o(m)]  BY <3>4, <1>18
    <3>6. u.node[s(c)].key = t.node[c].key  BY <3>4, <1>10
    <3> QED BY <3>2, <3>3, <3>5, <3>6
  <2>2. ASSUME NEW a \in N, NEW b \in N, <<a, b>> \in R2, a # b
        PROVE  r2[b] < r2[a] /\ u.node[a].next # NoNode /\ <<u.node[a].next, b>> \in R2
    <3> DEFINE c == next(o(a))
    <3>1. a # mp /\ b # mp /\ <<o(a), o(b)>> \in R  BY <2>2, <1>17
    <3>2. o(a) \in N /\ o(b) \in N /\ o(a) # o(b)  BY <3>1, <2>2, <1>10, <1>20
    <3>3. r[o(b)] < r[o(a)] /\ c # NoNode /\ <<c, o(b)>> \in R  BY <3>1, <3>2, <1>16
    <3>4. c \in N /\ c # n  BY <3>2, <3>3, <1>6
    <3>5. u.node[a].next = s(c)  BY <3>1, <3>3, <1>13
    <3> HIDE DEF c
    <3>6. s(c) \in N /\ s(c) # mp /\ o(s(c)) = c  BY <3>4, <1>11
    <3>7. <<s(c), b>> \in R2  BY <3>1, <3>3, <3>6, <1>17
    <3>8. s(c) # NoNode  BY <3>6, <1>4
    <3> QED BY <3>3, <3>5, <3>7, <3>8, <1>18
  <2>3. ASSUME NEW m \in N PROVE <<m, m>> \in R2
    <3>1. m # mp => o(m) \in N  BY <1>10
    <3> QED BY <3>1, <1>16, <1>17
  <2> QED BY <2>1, <2>2, <2>3, <1>14, <1>18, <1>19 DEF Chains
<1>22. \A m \in N : t.node[m].key # NoKey => mainposition(t, t.node[m].key) # mp
  <2> SUFFICES ASSUME NEW m \in N, t.node[m].key # NoKey, mainposition(t, t.node[m].key) = mp
               PROVE  FALSE
    OBVIOUS
  <2>1. Homed(t, R, mainposition(t, t.node[m].key), m)  BY DEF Placed
  <2> QED BY <2>1 DEF Homed
<1>23. Placed(u, r2, R2)
  <2>1. ASSUME NEW m \in N, u.node[m].key # NoKey
        PROVE  Homed(u, R2, mainposition(t, u.node[m].key), m)
    <3>1. CASE m = mp
      <4>1. <<mp, mp>> \in R2  BY <1>1, <1>17
      <4>2. mainposition(t, u.node[m].key) = mp  BY <3>1, <1>5
      <4> QED BY <3>1, <4>1, <4>2, <1>1, <1>2, <1>5, <1>14, <1>15 DEF Homed
    <3>2. CASE m # mp
      <4> DEFINE j == t.node[o(m)].key
                 p == mainposition(t, j)
      <4>1. o(m) \in N /\ u.node[m].key = j /\ j # NoKey  BY <3>2, <2>1, <1>10
      <4>2. /\ p \in N /\ <<p, o(m)>> \in R
            /\ t.node[p].key # NoKey /\ mainposition(t, t.node[p].key) = p
        BY <4>1 DEF Placed, Homed
      <4>3. p # mp /\ p # n  BY <4>1, <4>2, <1>22
      <4> HIDE DEF p, j
      <4>4. o(p) = p  BY <4>3 DEF o
      <4>5. <<p, m>> \in R2  BY <3>2, <4>2, <4>3, <4>4, <1>17
      <4>6. u.node[p].key = t.node[p].key  BY <4>2, <4>3, <4>4, <1>10
      <4> QED BY <4>1, <4>2, <4>5, <4>6, <1>14, <1>15 DEF p, Homed
    <3> QED BY <3>1, <3>2
  <2>2. ASSUME NEW m \in N, u.node[m].key = NoKey
        PROVE  m < u.lastfree /\ u.node[m].val = Nil /\ ~ u.node[m].dead /\ u.node[m].next = NoNode
    <3>1. m # mp /\ m # n  BY <2>2, <1>2, <1>3, <1>5
    <3>2. o(m) = m  BY <3>1 DEF o
    <3>3. t.node[m].key = NoKey  BY <3>1, <3>2, <2>2, <1>10
    <3>4. m <= n /\ m \in Int /\ n \in Int  BY <3>3 DEF HashPart
    <3>5. m < n  BY <3>1, <3>4
    <3>6. t.node[m].val = Nil /\ ~ t.node[m].dead /\ next(m) = NoNode  BY <3>3 DEF Placed
    <3>7. u.node[m].next = NoNode  BY <3>1, <3>2, <3>6, <1>13
    <3> QED BY <3>1, <3>2, <3>5, <3>6, <3>7, <1>10
  <2>3. ASSUME NEW m \in N, u.node[m].dead PROVE u.node[m].val = Nil
    <3>1. m # mp  BY <2>3, <1>5
    <3>2. t.node[o(m)].dead /\ o(m) \in N /\ u.node[m].val = t.node[o(m)].val
      BY <3>1, <2>3, <1>10
    <3> QED BY <3>2 DEF Placed
  <2>4. ASSUME NEW a \in N, NEW b \in N, u.node[a].next = u.node[b].next,
               u.node[a].next # NoNode
        PROVE  a = b
    <3>1. a # mp /\ b # mp  BY <2>4, <1>5
    <3>2. /\ next(o(a)) # NoNode /\ u.node[a].next = s(next(o(a)))
          /\ next(o(b)) # NoNode /\ u.node[b].next = s(next(o(b)))
          /\ o(a) \in N /\ o(b) \in N
      BY <3>1, <2>4, <1>10, <1>13
    <3>3. next(o(a)) \in N \ {n} /\ next(o(b)) \in N \ {n}  BY <3>2, <1>6
    <3>4. next(o(a)) = next(o(b))
      <4>1. s(next(o(a))) = s(next(o(b)))  BY <3>2, <2>4
      <4>2. o(s(next(o(a)))) = next(o(a)) /\ o(s(next(o(b)))) = next(o(b))  BY <3>3, <1>11
      <4> QED BY <4>1, <4>2
    <3>5. o(a) = o(b)  BY <3>2, <3>4 DEF Placed
    <3> QED BY <3>1, <3>5, <1>20
  <2>5. ASSUME NEW a \in N, NEW b \in N, u.node[a].key # NoKey, ~ u.node[a].dead,
               u.node[b].key = u.node[a].key, b # a
        PROVE  u.node[b].dead /\ r2[b] < r2[a]
    <3>1. \A m \in N : t.node[m].key # k  BY <1>2, <1>22
    <3>2. \A m \in N \ {mp} : u.node[m].key # k  BY <3>1, <1>10
    <3>3. a # mp /\ b # mp  BY <3>2, <2>5, <1>5
    <3>4. /\ o(a) \in N /\ o(b) \in N /\ o(a) # o(b)
          /\ u.node[a].key = t.node[o(a)].key /\ u.node[b].key = t.node[o(b)].key
          /\ u.node[a].dead = t.node[o(a)].dead /\ u.node[b].dead = t.node[o(b)].dead
      BY <3>3, <2>5, <1>10, <1>20
    <3>5. t.node[o(b)].dead /\ r[o(b)] < r[o(a)]  BY ZenonT(90), <3>4, <2>5 DEF Placed
    <3> QED BY <3>4, <3>5, <1>18
  <2>6. ASSUME NEW m \in N PROVE ~ InArray(t, u.node[m].key)
    <3>1. CASE m = mp  BY <3>1, <1>5
    <3>2. CASE m # mp  BY <3>2, <1>10 DEF Placed
    <3> QED BY <3>1, <3>2
  <2> QED BY <2>1, <2>2, <2>3, <2>4, <2>5, <2>6, <1>14, <1>15 DEF Placed
<1> QED BY <1>21, <1>23

(* A node has a field with key k and value v.                               *)
Has(t, k, v) == \E n \in WithLiveKey(t, k) : t.node[n].val = v
Keyed(t) == {n \in Nodes(t) : t.node[n].key # NoKey}

(* What luaH_get finds is the value of a field, and every value of a field *)
(* is found.                                                               *)
LEMMA GetsFields ==
  ASSUME NEW t, Sound(t), NEW k \in Keys, NEW v, v # Nil
  PROVE  luaH_get(t, k) = v <=> (InArray(t, k) /\ t.array[k] = v) \/ Has(t, k, v)
<1>1. PICK r, R : Chains(t, r, R) /\ Placed(t, r, R)  BY DEF Sound
<1>2. \A n \in WithLiveKey(t, k) : ~ InArray(t, k)
  BY <1>1 DEF Placed, WithLiveKey, WithKey, Nodes
<1>3. /\ InArray(t, k) => luaH_get(t, k) = t.array[k]
      /\ \A n \in WithLiveKey(t, k) : luaH_get(t, k) = t.node[n].val
      /\ ~ InArray(t, k) /\ WithLiveKey(t, k) = {} => luaH_get(t, k) = Nil
  BY Gets
<1> QED BY <1>2, <1>3 DEF Has

(* Tables with the same array and fields give the same values.             *)
LEMMA SameGets ==
  ASSUME NEW t, NEW u, Sound(t), Sound(u), u.array = t.array, NEW k \in Keys,
         \A v : v # Nil => (Has(u, k, v) <=> Has(t, k, v))
  PROVE  luaH_get(u, k) = luaH_get(t, k)
<1>1. \A v : v # Nil => (luaH_get(u, k) = v <=> luaH_get(t, k) = v)
  BY GetsFields DEF InArray, sizearray
<1> QED BY <1>1

(* While a node is free, getfreepos returns the last of the free ones.     *)
LEMMA FreePos ==
  ASSUME NEW t, HashPart(t), FreePlaces(t) # {}
  PROVE  /\ getfreepos(t) \in Nodes(t) /\ t.node[getfreepos(t)].key = NoKey
         /\ \A m \in FreePlaces(t) : m <= getfreepos(t)
<1>1. FreePlaces(t) \in SUBSET Nat /\ \A m \in FreePlaces(t) : m <= sizenode(t) /\ m \in Nodes(t)
  BY DEF FreePlaces, HashPart
<1>2. sizenode(t) \in Nat  BY DEF HashPart
<1>3. \E n \in FreePlaces(t) : \A m \in FreePlaces(t) : m <= n  BY <1>1, <1>2, Largest
<1>4. getfreepos(t) \in FreePlaces(t) /\ \A m \in FreePlaces(t) : m <= getfreepos(t)
  BY <1>3 DEF getfreepos
<1> QED BY <1>1, <1>4 DEF FreePlaces

(* What newkey does, in all cases.                                          *)
MadeKey(t, k, u) ==
  /\ Sound(u) /\ SameShape(t, u)
  /\ WithLiveKey(u, k) # {}
  /\ luaH_get(u, k) = Nil
  /\ \A j \in Keys \ {k} : luaH_get(u, j) = luaH_get(t, j)
  /\ \E x \in Nodes(t) : Keyed(u) \subseteq Keyed(t) \cup {x}

(* A table whose only new field is k with no value is what newkey must     *)
(* return.                                                                 *)
LEMMA MakesKey ==
  ASSUME NEW t, Sound(t), NEW k \in Keys, NEW u, HashPart(u), SameShape(t, u),
         u = [array |-> u.array, node |-> u.node, lastfree |-> u.lastfree],
         \E r, R : Chains(u, r, R) /\ Placed(u, r, R),
         NEW x \in Nodes(t), u.node[x].key = k, ~ u.node[x].dead, u.node[x].val = Nil,
         NEW y \in Nodes(t), t.node[x].val # Nil => x # y /\ u.node[y] = [t.node[x] EXCEPT !.next = u.node[y].next],
         \A m \in Nodes(t) \ {x, y} : /\ u.node[m].key = t.node[m].key
                                      /\ u.node[m].dead = t.node[m].dead
                                      /\ u.node[m].val = t.node[m].val,
         t.node[x].val = Nil => y = x,
         t.node[x].val # Nil => t.node[y].key = NoKey
  PROVE  MadeKey(t, k, u)
<1>1. Sound(u)
  <2>1. ArrayPart(t) /\ u.array = t.array  BY DEF Sound, SameShape
  <2>2. ArrayPart(u)  BY <2>1 DEF ArrayPart, sizearray
  <2> QED BY <2>2 DEF Sound
<1>2. PICK r, R : Chains(u, r, R) /\ Placed(u, r, R)  BY DEF Sound
<1>3. PICK q, Q : Chains(t, q, Q) /\ Placed(t, q, Q)  BY DEF Sound
<1>4. Nodes(u) = Nodes(t) /\ u.array = t.array  BY DEF SameShape
<1>5. x \in WithLiveKey(u, k)  BY <1>4 DEF WithLiveKey, WithKey, Nodes
<1>6. luaH_get(u, k) = Nil  BY <1>1, <1>5, Gets
<1>7. NoKey \notin Keys  BY TableAssumption DEF TableAssumption
<1>8. t.node[x].val # Nil =>
        /\ u.node[y].key = t.node[x].key /\ u.node[y].dead = t.node[x].dead
        /\ u.node[y].val = t.node[x].val
  <2>1. t.node[x] \in Entry(sizenode(t))  BY DEF Sound, HashPart, Parts
  <2>2. t.node[x].val # Nil => u.node[y] = [t.node[x] EXCEPT !.next = u.node[y].next]
    OBVIOUS
  <2> DEFINE z == u.node[y].next
  <2>3. t.node[x].val # Nil => u.node[y] = [t.node[x] EXCEPT !.next = z]  BY <2>2
  <2> HIDE DEF z
  <2> QED BY <2>1, <2>3 DEF Entry
<1>9. t.node[x].val # Nil => t.node[y].val = Nil
  BY <1>3 DEF Placed
<1>10. ASSUME NEW j \in Keys \ {k} PROVE luaH_get(u, j) = luaH_get(t, j)
  <2>1. ASSUME NEW v, v # Nil PROVE Has(u, j, v) <=> Has(t, j, v)
    <3>1. ASSUME NEW n \in WithLiveKey(t, j), t.node[n].val = v PROVE Has(u, j, v)
      <4>1. n \in Nodes(t) /\ t.node[n].key = j /\ ~ t.node[n].dead
        BY DEF WithLiveKey, WithKey, Nodes
      <4>2. CASE n = x
        <5>1. y \in WithLiveKey(u, j) /\ u.node[y].val = v
          BY <3>1, <4>1, <4>2, <1>4, <1>8, <2>1 DEF WithLiveKey, WithKey, Nodes
        <5> QED BY <5>1 DEF Has
      <4>3. CASE n # x
        <5>1. n # y  BY <4>1, <4>3, <3>1, <2>1, <1>9
        <5>2. n \in WithLiveKey(u, j) /\ u.node[n].val = v
          BY <4>1, <4>3, <5>1, <3>1, <1>4 DEF WithLiveKey, WithKey, Nodes
        <5> QED BY <5>2 DEF Has
      <4> QED BY <4>2, <4>3
    <3>2. ASSUME NEW n \in WithLiveKey(u, j), u.node[n].val = v PROVE Has(t, j, v)
      <4>1. n \in Nodes(t) /\ u.node[n].key = j /\ ~ u.node[n].dead
        BY <1>4 DEF WithLiveKey, WithKey, Nodes
      <4>2. n # x  BY <4>1
      <4>3. CASE n = y
        <5>1. x \in WithLiveKey(t, j) /\ t.node[x].val = v
          BY <3>2, <4>1, <4>2, <4>3, <1>8 DEF WithLiveKey, WithKey, Nodes
        <5> QED BY <5>1 DEF Has
      <4>4. CASE n # y
        <5>1. n \in WithLiveKey(t, j) /\ t.node[n].val = v
          BY <3>2, <4>1, <4>2, <4>4 DEF WithLiveKey, WithKey, Nodes
        <5> QED BY <5>1 DEF Has
      <4> QED BY <4>3, <4>4
    <3> QED BY <3>1, <3>2 DEF Has
  <2> QED BY <2>1, <1>1, <1>4, SameGets
<1>11. \E z \in Nodes(t) : Keyed(u) \subseteq Keyed(t) \cup {z}
  <2>1. CASE t.node[x].val = Nil
    <3>1. Keyed(u) \subseteq Keyed(t) \cup {x}  BY <2>1, <1>4 DEF Keyed
    <3> QED BY <3>1
  <2>2. CASE t.node[x].val # Nil
    <3>1. x \in Keyed(t)  BY <2>2, <1>3 DEF Placed, Keyed
    <3>2. Keyed(u) \subseteq Keyed(t) \cup {y}  BY <3>1, <1>4 DEF Keyed
    <3> QED BY <3>2
  <2> QED BY <2>1, <2>2
<1> QED BY <1>1, <1>5, <1>6, <1>10, <1>11 DEF MadeKey

(* newkey makes the key in each of its cases: main position free,          *)
(* colliding node moved, new node linked behind; no other field is lost.   *)
LEMMA NewKey ==
  ASSUME NEW t, Sound(t), NEW k \in Keys, ~ IsPresent(t, k), HasRoom(t, k)
  PROVE  MadeKey(t, k, newkey(t, k))
<1> DEFINE N == Nodes(t)
           mp == mainposition(t, k)
           n == getfreepos(t)
           u == newkey(t, k)
           S == sizenode(t)
<1>1. /\ HashPart(t) /\ S # 0 /\ S \in Nat
      /\ t = [array |-> t.array, node |-> t.node, lastfree |-> t.lastfree]
      /\ t.node \in [N -> Entry(S)] /\ N = 0..(S - 1)
  BY DEF Sound, HashPart, HasRoom, Parts
<1>2. PICK r, R : Chains(t, r, R) /\ Placed(t, r, R)  BY DEF Sound
<1>3. ~ InArray(t, k) /\ WithLiveKey(t, k) = {}  BY Gets
<1>4. mp \in N  BY <1>1, MainPosition
<1>5. k \in Keys \cup {NoKey} /\ Nil \in V /\ FALSE \in BOOLEAN  BY DEF V
<1>6. t.node[mp] \in Entry(S) /\ t.node[mp].next \in (0..(S - 1)) \cup {NoNode}
  BY <1>1, <1>4 DEF Entry
<1>7. CASE IsFree(t, mp)
  <2> DEFINE new == [key |-> k, dead |-> FALSE, val |-> Nil, next |-> t.node[mp].next]
  <2>1. u = [t EXCEPT !.node = [t.node EXCEPT ![mp] = new]]
    BY <1>7 DEF newkey
  <2>2. new = [key |-> k, dead |-> FALSE, val |-> Nil, next |-> t.node[mp].next]
    OBVIOUS
  <2>3. new \in Entry(S)  BY <2>2, <1>5, <1>6 DEF Entry
  <2> HIDE DEF new, u, mp, N, S
  <2>4. /\ u.array = t.array /\ u.lastfree = t.lastfree /\ u.node = [t.node EXCEPT ![mp] = new]
        /\ u = [array |-> u.array, node |-> u.node, lastfree |-> u.lastfree]
    BY <2>1, <1>1
  <2>5. u.node \in [N -> Entry(S)]  BY <2>3, <2>4, <1>1
  <2>6. u.node[mp] = new /\ \A m \in N \ {mp} : u.node[m] = t.node[m]  BY <2>4, <1>1, <1>4
  <2>7. SameShape(t, u)  BY <2>4, <2>5 DEF SameShape, Nodes, N
  <2>8. HashPart(u)  BY <2>4, <2>5, <2>7, <1>1, SameShapes DEF HashPart, Parts, S, N
  <2>9. t.node[mp].val = Nil  BY <1>7 DEF IsFree
  <2>10. Chains(u, r, R) /\ Placed(u, r, R)
    <3>1. \A m \in Nodes(t) \ {mp} : u.node[m] = t.node[m]  BY <2>6 DEF N
    <3>2. mp = mainposition(t, k) /\ sizenode(t) # 0  BY <1>1 DEF mp, S
    <3>3. u.node[mp] = [key |-> k, dead |-> FALSE, val |-> Nil, next |-> t.node[mp].next]
      BY <2>2, <2>6
    <3>4. u.lastfree = t.lastfree  BY <2>4
    <3> QED BY <3>1, <3>2, <3>3, <3>4, <2>7, <2>9, <1>1, <1>2, <1>3, Overwritten
  <2>11. \E q, Q : Chains(u, q, Q) /\ Placed(u, q, Q)  BY <2>10
  <2>12. u.node[mp].key = k /\ ~ u.node[mp].dead /\ u.node[mp].val = Nil  BY <2>2, <2>6
  <2>13. MadeKey(t, k, u)
    <3>1. \A m \in Nodes(t) \ {mp, mp} : /\ u.node[m].key = t.node[m].key
                                          /\ u.node[m].dead = t.node[m].dead
                                          /\ u.node[m].val = t.node[m].val
      BY <2>6 DEF N
    <3>2. mp \in Nodes(t)  BY <1>4 DEF N
    <3> QED BY ZenonT(90), <3>1, <3>2, <2>4, <2>7, <2>8, <2>9, <2>11, <2>12, MakesKey
  <2> QED BY <2>13 DEF u
<1>8. CASE ~ IsFree(t, mp)
  <2>1. FreePlaces(t) # {}  BY <1>8 DEF HasRoom
  <2>2. /\ n \in N /\ t.node[n].key = NoKey
        /\ \A m \in N : t.node[m].key = NoKey => m <= n
    <3>1. \A m \in N : t.node[m].key = NoKey => m \in FreePlaces(t)
      BY <1>1, <1>2 DEF Placed, FreePlaces, HashPart
    <3> QED BY <3>1, <2>1, <1>1, FreePos
  <2>3. t.node[mp].val # Nil  BY <1>8 DEF IsFree
  <2>4. n # mp /\ n \in 0..S /\ t.node[n].val = Nil /\ t.node[mp].key \in Keys
    BY <2>2, <2>3, <1>1, <1>2, <1>4, <1>6 DEF Placed, Entry
  <2> DEFINE key(nodes, m) == [nodes EXCEPT ![m] = [key |-> k, dead |-> FALSE, val |-> Nil, next |-> @.next]]
  <2>5. CASE mainposition(t, t.node[mp].key) # mp
    <3> DEFINE q == mainposition(t, t.node[mp].key)
               prev == Chained(t, q, {m \in N : t.node[m].next = mp})
    <3>1. prev \in N /\ t.node[prev].next = mp
      <4>1. Homed(t, R, q, mp)  BY <2>4, <1>2, <1>4, TableAssumption DEF TableAssumption, Placed
      <4>2. q \in N /\ <<q, mp>> \in R  BY <4>1 DEF Homed
      <4> DEFINE P == {m \in N : t.node[m].next = mp}
      <4>3. P \subseteq Nodes(t) /\ \A m \in Nodes(t) : t.node[m].next = mp => m \in P  OBVIOUS
      <4> HIDE DEF P, q
      <4>4. q # mp  BY <2>5 DEF q
      <4>5. Chained(t, q, P) \in P
        BY ZenonT(90), <4>2, <4>3, <4>4, <1>1, <1>2, <1>4, ChainedFinds
      <4> QED BY <4>5 DEF P, q
    <3>2. prev # n /\ prev # mp
      <4>1. mp # NoNode  BY <1>1, <1>4 DEF NoNode
      <4>2. prev # n  BY <4>1, <3>1, <2>2, <1>2 DEF Placed
      <4>3. r[mp] < r[prev] /\ r[mp] \in Nat  BY <4>1, <3>1, <1>2, <1>4 DEF Chains
      <4> HIDE DEF prev
      <4> QED BY <4>2, <4>3
    <3> DEFINE moved == [t.node EXCEPT ![prev].next = n, ![n] = t.node[mp], ![mp].next = NoNode]
    <3>3. u = [t EXCEPT !.node = key(moved, mp), !.lastfree = n]
      BY <1>8, <2>5 DEF newkey, MovedAway, Nodes
    <3> HIDE DEF prev, q, u, mp, n, N, S
    <3>4. /\ moved[n] = t.node[mp]
          /\ moved[mp] = [t.node[mp] EXCEPT !.next = NoNode]
          /\ moved[prev] = [t.node[prev] EXCEPT !.next = n]
          /\ \A m \in N \ {mp, n, prev} : moved[m] = t.node[m]
          /\ DOMAIN moved = N
      BY <3>1, <3>2, <2>2, <2>4, <1>1, <1>4
    <3> HIDE DEF moved
    <3> DEFINE new == [key |-> k, dead |-> FALSE, val |-> Nil, next |-> moved[mp].next]
    <3>5. new = [key |-> k, dead |-> FALSE, val |-> Nil, next |-> NoNode]
      <4>1. moved[mp] \in Entry(S) /\ moved[mp].next = NoNode  BY <3>4, <1>6 DEF Entry
      <4> QED BY <4>1
    <3> HIDE DEF new
    <3>6. /\ u.array = t.array /\ u.lastfree = n /\ u.node = [moved EXCEPT ![mp] = new]
          /\ u = [array |-> u.array, node |-> u.node, lastfree |-> u.lastfree]
      BY <3>3, <1>1 DEF new
    <3>7. /\ u.node[n] = t.node[mp] /\ u.node[mp] = new
          /\ u.node[prev] = [t.node[prev] EXCEPT !.next = n]
          /\ \A m \in N \ {mp, n, prev} : u.node[m] = t.node[m]
          /\ DOMAIN u.node = N
      BY <3>1, <3>2, <3>4, <3>6, <2>2, <2>4, <1>4
    <3>8. t.node[prev] \in Entry(S)  BY <3>1, <1>1
    <3>9. [t.node[prev] EXCEPT !.next = n] \in Entry(S)
      BY <3>8, <2>2, <1>1 DEF Entry
    <3>10. new \in Entry(S)  BY <3>5, <1>5 DEF Entry
    <3>11. \A m \in N : u.node[m] \in Entry(S)  BY <3>7, <3>9, <3>10, <1>1, <1>6
    <3>12. u.node \in [N -> Entry(S)]
      <4>1. u.node = [m \in N |-> u.node[m]]  BY <3>6, <3>7
      <4> QED BY <4>1, <3>11
    <3>13. SameShape(t, u)  BY <3>6, <3>7 DEF SameShape, Nodes, N
    <3>14. HashPart(u)  BY <3>6, <3>12, <3>13, <2>4, <1>1, SameShapes DEF HashPart, Parts, S, N
    <3>15. \E p, P : Chains(u, p, P) /\ Placed(u, p, P)
      <4>1. \A m \in Nodes(t) \ {mp, n, prev} : u.node[m] = t.node[m]  BY <3>7 DEF N
      <4>2. mp = mainposition(t, k) /\ sizenode(t) # 0  BY <1>1 DEF mp, S
      <4>3. u.node[mp] = [key |-> k, dead |-> FALSE, val |-> Nil, next |-> NoNode]
        BY <3>5, <3>7
      <4>4. n \in Nodes(t) /\ prev \in Nodes(t) /\ t.node[n].key = NoKey /\ t.node[prev].next = mp
        BY <3>1, <2>2 DEF N
      <4>5. \A m \in Nodes(t) : t.node[m].key = NoKey => m <= n  BY <2>2 DEF N
      <4>6. u.node[n] = t.node[mp] /\ u.node[prev] = [t.node[prev] EXCEPT !.next = n]  BY <3>7
      <4>7. u.lastfree = n  BY <3>6
      <4>8. mainposition(t, t.node[mp].key) # mp  BY <2>5 DEF mp
      <4>9. HashPart(t)  BY <1>1
      <4> QED BY <4>1, <4>2, <4>3, <4>4, <4>5, <4>6, <4>7, <4>8, <4>9, <3>13, <2>3, <1>2, <1>3,
                 MovedElsewhere
    <3>16. u.node[mp].key = k /\ ~ u.node[mp].dead /\ u.node[mp].val = Nil  BY <3>5, <3>7
    <3>17. u.node[n] = [t.node[mp] EXCEPT !.next = u.node[n].next]
      BY <3>7, <1>6 DEF Entry
    <3>18. \A m \in N \ {mp, n} : /\ u.node[m].key = t.node[m].key
                                  /\ u.node[m].dead = t.node[m].dead
                                  /\ u.node[m].val = t.node[m].val
      BY <3>7, <3>8 DEF Entry
    <3>19. MadeKey(t, k, u)
      <4>1. mp \in Nodes(t) /\ n \in Nodes(t)  BY <2>2, <1>4 DEF N
      <4>2. \A m \in Nodes(t) \ {mp, n} : /\ u.node[m].key = t.node[m].key
                                          /\ u.node[m].dead = t.node[m].dead
                                          /\ u.node[m].val = t.node[m].val
        BY <3>18 DEF N
      <4>3. u = [array |-> u.array, node |-> u.node, lastfree |-> u.lastfree]  BY <3>6
      <4>4. mp # n /\ t.node[n].key = NoKey  BY <2>2, <2>4
      <4> QED BY <4>1, <4>2, <4>3, <4>4, <3>13, <3>14, <3>15, <3>16, <3>17, <2>3, MakesKey
    <3> QED BY <3>19 DEF u
  <2>6. CASE mainposition(t, t.node[mp].key) = mp
    <3> DEFINE linked == [t.node EXCEPT ![n].next = t.node[mp].next, ![mp].next = n]
    <3>1. u = [t EXCEPT !.node = key(linked, n), !.lastfree = n]
      BY <1>8, <2>6 DEF newkey, Linked
    <3> HIDE DEF u, mp, n, N, S
    <3>2. /\ linked[n] = [t.node[n] EXCEPT !.next = t.node[mp].next]
          /\ linked[mp] = [t.node[mp] EXCEPT !.next = n]
          /\ \A m \in N \ {mp, n} : linked[m] = t.node[m]
          /\ DOMAIN linked = N
      BY <2>2, <2>4, <1>1, <1>4
    <3> HIDE DEF linked
    <3> DEFINE new == [key |-> k, dead |-> FALSE, val |-> Nil, next |-> linked[n].next]
    <3>3. t.node[n] \in Entry(S)  BY <2>2, <1>1
    <3>4. new = [key |-> k, dead |-> FALSE, val |-> Nil, next |-> t.node[mp].next]
      <4>1. linked[n] \in Entry(S) /\ linked[n].next = t.node[mp].next
        BY <3>2, <3>3, <1>6 DEF Entry
      <4> QED BY <4>1
    <3> HIDE DEF new
    <3>5. /\ u.array = t.array /\ u.lastfree = n /\ u.node = [linked EXCEPT ![n] = new]
          /\ u = [array |-> u.array, node |-> u.node, lastfree |-> u.lastfree]
      BY <3>1, <1>1 DEF new
    <3>6. /\ u.node[n] = new
          /\ u.node[mp] = [t.node[mp] EXCEPT !.next = n]
          /\ \A m \in N \ {mp, n} : u.node[m] = t.node[m]
          /\ DOMAIN u.node = N
      BY <3>2, <3>5, <2>2, <2>4, <1>4
    <3>7. [t.node[mp] EXCEPT !.next = n] \in Entry(S)
      BY <1>6, <2>2, <1>1 DEF Entry
    <3>8. new \in Entry(S)  BY <3>4, <1>5, <1>6 DEF Entry
    <3>9. \A m \in N : u.node[m] \in Entry(S)  BY <3>6, <3>7, <3>8, <1>1
    <3>10. u.node \in [N -> Entry(S)]
      <4>1. u.node = [m \in N |-> u.node[m]]  BY <3>5, <3>6
      <4> QED BY <4>1, <3>9
    <3>11. SameShape(t, u)  BY <3>5, <3>6 DEF SameShape, Nodes, N
    <3>12. HashPart(u)  BY <3>5, <3>10, <3>11, <2>4, <1>1, SameShapes DEF HashPart, Parts, S, N
    <3>13. \E p, P : Chains(u, p, P) /\ Placed(u, p, P)
      <4>1. \A m \in Nodes(t) \ {mp, n} : u.node[m] = t.node[m]  BY <3>6 DEF N
      <4>2. mp = mainposition(t, k) /\ sizenode(t) # 0  BY <1>1 DEF mp, S
      <4>3. u.node[n] = [key |-> k, dead |-> FALSE, val |-> Nil, next |-> t.node[mp].next]
        BY <3>4, <3>6
      <4>4. n \in Nodes(t) /\ t.node[n].key = NoKey  BY <2>2 DEF N
      <4>5. \A m \in Nodes(t) : t.node[m].key = NoKey => m <= n  BY <2>2 DEF N
      <4>6. u.node[mp] = [t.node[mp] EXCEPT !.next = n] /\ u.lastfree = n  BY <3>5, <3>6
      <4> QED BY <4>1, <4>2, <4>3, <4>4, <4>5, <4>6, <3>11, <2>3, <2>6, <1>1, <1>2, <1>3,
                 LinkedAfter
    <3>14. u.node[n].key = k /\ ~ u.node[n].dead /\ u.node[n].val = Nil  BY <3>4, <3>6
    <3>15. \A m \in N \ {n} : /\ u.node[m].key = t.node[m].key
                              /\ u.node[m].dead = t.node[m].dead
                              /\ u.node[m].val = t.node[m].val
      BY <3>6, <1>6 DEF Entry
    <3>16. MadeKey(t, k, u)
      BY ZenonT(90), <3>5, <3>11, <3>12, <3>13, <3>14, <3>15, <2>2, <2>4, MakesKey DEF N
    <3> QED BY <3>16 DEF u
  <2> QED BY <2>5, <2>6
<1> QED BY <1>7, <1>8

(***************************************************************************)
(* Steps that change values and kill keys: chains stay as they are.         *)
(***************************************************************************)
Kept(t, u) ==
  /\ u = [array |-> u.array, node |-> u.node, lastfree |-> t.lastfree]
  /\ u.array \in Seq(V) /\ sizearray(u) = sizearray(t)
  /\ Nodes(u) = Nodes(t) /\ u.node \in Parts(sizenode(t))
  /\ \A n \in Nodes(t) : /\ u.node[n].key = t.node[n].key /\ u.node[n].next = t.node[n].next
                         /\ t.node[n].dead => u.node[n].dead

(* A table in which the keys and links were kept has the same shape and    *)
(* keys.                                                                   *)
LEMMA KeptShape ==
  ASSUME NEW t, NEW u, Kept(t, u)
  PROVE  /\ sizenode(u) = sizenode(t) /\ Nodes(u) = Nodes(t) /\ sizearray(u) = sizearray(t)
         /\ \A k : mainposition(u, k) = mainposition(t, k) /\ (InArray(u, k) <=> InArray(t, k))
         /\ \A k : WithKey(u, k) = WithKey(t, k)
         /\ Keyed(u) = Keyed(t)
<1>1. Nodes(u) = Nodes(t) /\ sizearray(u) = sizearray(t)  BY DEF Kept
<1>2. sizenode(u) = sizenode(t)  BY <1>1 DEF sizenode, Nodes
<1>3. \A k : WithKey(u, k) = WithKey(t, k)  BY <1>1 DEF Kept, WithKey, Nodes
<1>4. Keyed(u) = Keyed(t)  BY <1>1 DEF Kept, Keyed
<1> QED BY <1>1, <1>2, <1>3, <1>4, SamePosition DEF InArray

(* A table that keeps its keys and links and only loses values is sound.   *)
LEMMA KeptSound ==
  ASSUME NEW t, Sound(t), NEW u, Kept(t, u),
         \A n \in Nodes(t) : u.node[n].dead => u.node[n].val = Nil,
         \A n \in Nodes(t) : t.node[n].key = NoKey => u.node[n].val = Nil /\ ~ u.node[n].dead,
         \A i \in 1..sizearray(t) : u.array[i] # Nil => i \in IntKeys
  PROVE  Sound(u)
<1>1. PICK r, R : Chains(t, r, R) /\ Placed(t, r, R)  BY DEF Sound
<1>2. /\ sizenode(u) = sizenode(t) /\ Nodes(u) = Nodes(t) /\ sizearray(u) = sizearray(t)
      /\ \A k : mainposition(u, k) = mainposition(t, k) /\ (InArray(u, k) <=> InArray(t, k))
  BY KeptShape
<1>3. \A n \in Nodes(t) : /\ u.node[n].key = t.node[n].key /\ u.node[n].next = t.node[n].next
                          /\ t.node[n].dead => u.node[n].dead
  BY DEF Kept
<1>4. u.lastfree = t.lastfree  BY DEF Kept
<1>5. HashPart(u)  BY <1>2, <1>4 DEF Sound, HashPart, Kept
<1>6. ArrayPart(u)  BY <1>2 DEF Kept, ArrayPart
<1>7. Chains(u, r, R)
  <2>1. \A n \in Nodes(t) : t.node[n].next # NoNode => t.node[n].next \in Nodes(t)
    BY DEF Sound, HashPart, Parts, Entry
  <2>2. \A n \in Nodes(t) : u.node[n].next # NoNode =>
          r[u.node[n].next] < r[n] /\ u.node[u.node[n].next].key # NoKey
    BY <1>1, <1>3, <2>1 DEF Chains
  <2>3. \A a, b \in Nodes(t) : <<a, b>> \in R /\ a # b =>
          r[b] < r[a] /\ u.node[a].next # NoNode /\ <<u.node[a].next, b>> \in R
    BY <1>1, <1>3 DEF Chains
  <2>4. /\ r \in [Nodes(t) -> Nat] /\ R \in SUBSET (Nodes(t) \X Nodes(t))
        /\ \A n \in Nodes(t) : <<n, n>> \in R
    BY <1>1 DEF Chains
  <2> QED BY <1>2, <2>2, <2>3, <2>4 DEF Chains
<1>8. Placed(u, r, R)
  <2>1. ASSUME NEW n \in Nodes(t), u.node[n].key # NoKey
        PROVE  Homed(u, R, mainposition(t, u.node[n].key), n)
    <3> DEFINE p == mainposition(t, t.node[n].key)
    <3>1. /\ p \in Nodes(t) /\ <<p, n>> \in R
          /\ t.node[p].key # NoKey /\ mainposition(t, t.node[p].key) = p
      BY <2>1, <1>1, <1>3 DEF Placed, Homed
    <3>2. u.node[n].key = t.node[n].key  BY <1>3
    <3> HIDE DEF p
    <3> QED BY <1>2, <1>3, <3>1, <3>2 DEF p, Homed
  <2>2. \A n \in Nodes(t) : u.node[n].key = NoKey =>
          n < u.lastfree /\ u.node[n].val = Nil /\ ~ u.node[n].dead /\ u.node[n].next = NoNode
    BY <1>1, <1>3, <1>4 DEF Placed
  <2>3. \A n, m \in Nodes(t) : u.node[n].next = u.node[m].next /\ u.node[n].next # NoNode => n = m
    BY <1>1, <1>3 DEF Placed
  <2>4. \A n, m \in Nodes(t) :
          u.node[n].key # NoKey /\ ~ u.node[n].dead /\ u.node[m].key = u.node[n].key /\ m # n
            => u.node[m].dead /\ r[m] < r[n]
    BY <1>1, <1>3 DEF Placed
  <2>5. \A n \in Nodes(t) : ~ InArray(u, u.node[n].key)
    BY <1>1, <1>2, <1>3 DEF Placed
  <2> QED BY <1>2, <2>1, <2>2, <2>3, <2>4, <2>5 DEF Placed
<1>9. u = [array |-> u.array, node |-> u.node, lastfree |-> u.lastfree]
  BY <1>4 DEF Kept
<1> QED BY <1>5, <1>6, <1>7, <1>8, <1>9 DEF Sound

(* Store changes one field, and nothing but values.                         *)
LEMMA Stores ==
  ASSUME NEW t, Sound(t), NEW k \in Keys, IsPresent(t, k), NEW v \in V
  PROVE  /\ Sound(Store(t, k, v)) /\ Kept(t, Store(t, k, v))
         /\ luaH_get(Store(t, k, v), k) = v
         /\ \A j \in Keys \ {k} : luaH_get(Store(t, k, v), j) = luaH_get(t, j)
         /\ \A j \in Keys : IsPresent(Store(t, k, v), j) <=> IsPresent(t, j)
<1> DEFINE u == Store(t, k, v)
           n == FindNode(t, k)
<1>1. /\ HashPart(t) /\ ArrayPart(t)
      /\ t = [array |-> t.array, node |-> t.node, lastfree |-> t.lastfree]
  BY DEF Sound
<1>2. PICK r, R : Chains(t, r, R) /\ Placed(t, r, R)  BY DEF Sound
<1>3. t.node \in [Nodes(t) -> Entry(sizenode(t))]  BY <1>1 DEF HashPart, Parts
<1>4. CASE InArray(t, k)
  <2>1. u = [t EXCEPT !.array = [t.array EXCEPT ![k] = v]]  BY <1>4 DEF Store
  <2>2. k \in 1..Len(t.array) /\ k \in IntKeys
    BY <1>1, <1>4, TableAssumption DEF TableAssumption, InArray, sizearray, ArrayPart
  <2> HIDE DEF u
  <2>3. /\ u.array = [t.array EXCEPT ![k] = v] /\ u.node = t.node
        /\ u = [array |-> u.array, node |-> u.node, lastfree |-> t.lastfree]
    BY <2>1, <1>1
  <2>4. u.array \in Seq(V) /\ Len(u.array) = Len(t.array)
    BY <2>2, <2>3, <1>1 DEF ArrayPart
  <2>5. u.array[k] = v /\ \A i \in 1..Len(t.array) : i # k => u.array[i] = t.array[i]
    BY <2>2, <2>3, <1>1 DEF ArrayPart
  <2>6. Kept(t, u)  BY <2>3, <2>4, <1>1, <1>3 DEF Kept, sizearray, Nodes, HashPart
  <2>7. \A i \in 1..sizearray(t) : u.array[i] # Nil => i \in IntKeys
    BY <2>2, <2>5, <1>1 DEF ArrayPart, sizearray
  <2>8. Sound(u)  BY ZenonT(90), <2>3, <2>6, <2>7, <1>2, KeptSound DEF Placed
  <2>9. \A j \in Keys : WithLiveKey(u, j) = WithLiveKey(t, j) /\ (InArray(u, j) <=> InArray(t, j))
    BY <2>3, <2>4 DEF WithLiveKey, WithKey, InArray, sizearray
  <2>10. luaH_get(u, k) = v
    BY <2>5, <2>8, <2>9, <1>4, Gets
  <2>11. ASSUME NEW j \in Keys \ {k} PROVE luaH_get(u, j) = luaH_get(t, j)
    <3>1. CASE InArray(t, j)
      <4>1. j \in 1..Len(t.array)
        BY <1>1, <3>1, TableAssumption DEF TableAssumption, InArray, sizearray, ArrayPart
      <4> QED BY <3>1, <4>1, <2>5, <2>8, <2>9, Gets
    <3>2. CASE ~ InArray(t, j)
      <4>1. CASE WithLiveKey(t, j) = {}  BY <3>2, <4>1, <2>8, <2>9, Gets
      <4>2. CASE WithLiveKey(t, j) # {}
        <5>1. PICK m \in WithLiveKey(t, j) : TRUE  BY <4>2
        <5>2. luaH_get(t, j) = t.node[m].val  BY Gets
        <5>3. luaH_get(u, j) = u.node[m].val  BY <2>8, <2>9, Gets
        <5> QED BY <5>2, <5>3, <2>3
      <4> QED BY <4>1, <4>2
    <3> QED BY <3>1, <3>2
  <2>12. \A j \in Keys : IsPresent(u, j) <=> IsPresent(t, j)
    BY <2>8, <2>9, Gets
  <2> QED BY <2>6, <2>8, <2>10, <2>11, <2>12 DEF u
<1>5. CASE ~ InArray(t, k)
  <2>1. n \in WithLiveKey(t, k)
    <3>1. WithLiveKey(t, k) # {}  BY <1>5, Gets
    <3>2. \A m \in WithLiveKey(t, k) : n = m  BY <1>1, <1>2, Found
    <3> QED BY <3>1, <3>2
  <2>2. n \in Nodes(t) /\ t.node[n].key = k /\ ~ t.node[n].dead
    BY <2>1 DEF WithLiveKey, WithKey, Nodes
  <2>3. u = [t EXCEPT !.node = [t.node EXCEPT ![n] = [t.node[n] EXCEPT !.val = v]]]
    BY <1>5, <2>2, <1>1 DEF Store
  <2> HIDE DEF u, n
  <2>4. /\ u.array = t.array /\ u.node = [t.node EXCEPT ![n] = [t.node[n] EXCEPT !.val = v]]
        /\ u = [array |-> u.array, node |-> u.node, lastfree |-> t.lastfree]
    BY <2>3, <1>1
  <2>5. t.node[n] \in Entry(sizenode(t))  BY <2>2, <1>3
  <2>6. /\ u.node[n] = [t.node[n] EXCEPT !.val = v]
        /\ \A m \in Nodes(t) \ {n} : u.node[m] = t.node[m]
        /\ u.node \in [Nodes(t) -> Entry(sizenode(t))]
    <3>1. [t.node[n] EXCEPT !.val = v] \in Entry(sizenode(t))  BY <2>5 DEF Entry
    <3> QED BY <3>1, <2>2, <2>4, <1>3
  <2>7. /\ u.node[n].key = k /\ u.node[n].val = v /\ u.node[n].next = t.node[n].next
        /\ u.node[n].dead = t.node[n].dead
    BY <2>2, <2>5, <2>6 DEF Entry
  <2>8. Kept(t, u)
    <3>1. DOMAIN u.node = Nodes(t)  BY <2>6
    <3>2. \A m \in Nodes(t) : /\ u.node[m].key = t.node[m].key /\ u.node[m].next = t.node[m].next
                              /\ t.node[m].dead => u.node[m].dead
      BY <2>2, <2>6, <2>7
    <3>3. u.node \in Parts(sizenode(t))  BY <2>6, <1>1 DEF Parts, HashPart
    <3> QED BY <3>1, <3>2, <3>3, <2>4, <1>1 DEF Kept, sizearray, Nodes, ArrayPart
  <2>9. Sound(u)
    <3>1. \A m \in Nodes(t) : u.node[m].dead => u.node[m].val = Nil
      BY <2>2, <2>6, <2>7, <1>2 DEF Placed
    <3>2. k # NoKey  BY TableAssumption DEF TableAssumption
    <3>3. \A m \in Nodes(t) : t.node[m].key = NoKey => u.node[m].val = Nil /\ ~ u.node[m].dead
      BY <3>2, <2>2, <2>6, <1>2 DEF Placed
    <3>4. \A i \in 1..sizearray(t) : u.array[i] # Nil => i \in IntKeys
      BY <2>4, <1>1 DEF ArrayPart
    <3> QED BY <3>1, <3>3, <3>4, <2>8, KeptSound
  <2>10. \A j : WithLiveKey(u, j) = WithLiveKey(t, j) /\ (InArray(u, j) <=> InArray(t, j))
    <3>1. \A m \in Nodes(t) : u.node[m].dead = t.node[m].dead /\ u.node[m].key = t.node[m].key
      BY <2>2, <2>6, <2>7
    <3>2. DOMAIN u.node = DOMAIN t.node  BY <2>6 DEF Nodes
    <3> QED BY <3>1, <3>2, <2>4 DEF WithLiveKey, WithKey, InArray, sizearray, Nodes
  <2>11. luaH_get(u, k) = v
    BY <2>1, <2>7, <2>9, <2>10, Gets
  <2>12. ASSUME NEW j \in Keys \ {k} PROVE luaH_get(u, j) = luaH_get(t, j)
    <3>1. CASE InArray(t, j)  BY <3>1, <2>4, <2>9, <2>10, Gets
    <3>2. CASE ~ InArray(t, j)
      <4>1. CASE WithLiveKey(t, j) = {}  BY <3>2, <4>1, <2>9, <2>10, Gets
      <4>2. CASE WithLiveKey(t, j) # {}
        <5>1. PICK m \in WithLiveKey(t, j) : TRUE  BY <4>2
        <5>2. m # n /\ m \in Nodes(t)  BY <2>2 DEF WithLiveKey, WithKey, Nodes
        <5>3. luaH_get(t, j) = t.node[m].val  BY Gets
        <5>4. luaH_get(u, j) = u.node[m].val  BY <2>9, <2>10, Gets
        <5> QED BY <5>2, <5>3, <5>4, <2>6
      <4> QED BY <4>1, <4>2
    <3> QED BY <3>1, <3>2
  <2>13. \A j \in Keys : IsPresent(u, j) <=> IsPresent(t, j)
    BY <2>9, <2>10, Gets
  <2> QED BY <2>8, <2>9, <2>11, <2>12, <2>13 DEF u
<1> QED BY <1>4, <1>5

(***************************************************************************)
(* Powers of 2, by counting subsets.                                       *)
(***************************************************************************)
LEMMA Power ==
  ASSUME NEW n \in Nat
  PROVE  /\ 2^n \in Nat /\ 2^n = Cardinality(SUBSET (1..n)) /\ IsFiniteSet(SUBSET (1..n))
<1>1. IsFiniteSet(1..n) /\ Cardinality(1..n) = n  BY FS_Interval
<1>2. IsFiniteSet(SUBSET (1..n)) /\ Cardinality(SUBSET (1..n)) = 2^Cardinality(1..n)
  BY <1>1, FS_SUBSET
<1>3. Cardinality(SUBSET (1..n)) \in Nat  BY <1>2, FS_CardinalityType
<1> QED BY <1>1, <1>2, <1>3

(* The powers of two, which the model defines by counting subsets.         *)
LEMMA PowerZero == 2^0 = 1
<1>1. SUBSET (1..0) = {{}}  OBVIOUS
<1>2. Cardinality({{}}) = 1  BY FS_Singleton
<1> QED BY <1>1, <1>2, Power

(* Each power of two is twice the one before.                              *)
LEMMA PowerNext ==
  ASSUME NEW n \in Nat
  PROVE  2^(n + 1) = 2 * 2^n
<1> DEFINE A == SUBSET (1..n)
           f == [T \in A |-> T \cup {n + 1}]
           B == {f[T] : T \in A}
<1>1. n + 1 \in Nat /\ n + 1 \notin 1..n /\ 1..(n + 1) = 1..n \cup {n + 1}  OBVIOUS
<1>2. SUBSET (1..(n + 1)) = A \cup B
  <2>1. ASSUME NEW T \in SUBSET (1..(n + 1)) PROVE T \in A \cup B
    <3>1. CASE n + 1 \in T
      <4>1. T \ {n + 1} \in A /\ T = (T \ {n + 1}) \cup {n + 1}  BY <3>1, <1>1
      <4>2. f[T \ {n + 1}] = T  BY <4>1
      <4> QED BY <4>1, <4>2
    <3>2. CASE n + 1 \notin T  BY <3>2, <1>1
    <3> QED BY <3>1, <3>2
  <2>2. ASSUME NEW T \in A \cup B PROVE T \in SUBSET (1..(n + 1))  BY <1>1
  <2> QED BY <2>1, <2>2
<1>3. A \cap B = {}  BY <1>1
<1>4. f \in [A -> B] /\ \A S, T \in A : f[S] = f[T] => S = T
  <2>1. \A S, T \in A : S \cup {n + 1} = T \cup {n + 1} => S = T
    <3> TAKE S, T \in A
    <3>1. S = (S \cup {n + 1}) \ {n + 1} /\ T = (T \cup {n + 1}) \ {n + 1}  BY <1>1
    <3> QED BY <3>1
  <2> QED BY <2>1
<1>5. \A y \in B : \E T \in A : f[T] = y  OBVIOUS
<1>6. 2^n = Cardinality(A) /\ IsFiniteSet(A) /\ 2^n \in Nat  BY Power
<1>7. 2^(n + 1) = Cardinality(SUBSET (1..(n + 1)))  BY <1>1, Power
<1> HIDE DEF A, B, f
<1>8. f \in Bijection(A, B)
  BY <1>4, <1>5 DEF Bijection, Injection, IsInjective, Surjection
<1>9. IsFiniteSet(B) /\ Cardinality(B) = Cardinality(A)
  <2>1. ExistsBijection(A, B)  BY <1>8 DEF ExistsBijection
  <2> QED BY <2>1, <1>6, FS_Bijection
<1>10. Cardinality(A \cup B) = Cardinality(A) + Cardinality(B) - Cardinality(A \cap B)
  BY <1>6, <1>9, FS_Union
<1>11. Cardinality(A \cap B) = 0  BY <1>3, FS_EmptySet
<1> DEFINE a == Cardinality(A)
<1>12. a \in Nat /\ 2^n = a  BY <1>6
<1> HIDE DEF a
<1>13. a + a - 0 = 2 * a  BY <1>12
<1>14. 2^(n + 1) = a + a - 0  BY <1>2, <1>7, <1>9, <1>10, <1>11 DEF a
<1> QED BY <1>12, <1>13, <1>14

(* A number is below its power of two.                                     *)
LEMMA PowerGrows ==
  ASSUME NEW n \in Nat
  PROVE  n < 2^n
<1> DEFINE S == {m \in Nat : m < 2^m}
<1>1. 0 \in S  BY PowerZero
<1>2. ASSUME NEW m \in S PROVE m + 1 \in S
  <2>1. m \in Nat /\ m < 2^m /\ m + 1 \in Nat  OBVIOUS
  <2>2. 2^(m + 1) = 2 * 2^m /\ 2^m \in Nat  BY <2>1, PowerNext, Power
  <2> DEFINE x == 2^m  y == 2^(m + 1)
  <2>3. m < x /\ y = 2 * x /\ x \in Nat  BY <2>1, <2>2
  <2> HIDE DEF x, y
  <2>4. m + 1 < y  BY <2>1, <2>3
  <2> QED BY <2>1, <2>4 DEF y
<1>3. Nat \subseteq S
  <2> S \in SUBSET Nat  OBVIOUS
  <2> HIDE DEF S
  <2> QED BY <1>1, <1>2, NatSets
<1> QED BY <1>3

(* Powers of two grow with their exponents.                                *)
LEMMA PowerMonotone ==
  ASSUME NEW i \in Nat, NEW j \in Nat, i <= j
  PROVE  2^i <= 2^j
<1> DEFINE w(n) == 2^n
           S == {d \in Nat : w(i) <= w(i + d)}
<1>1. \A n \in Nat : w(n) \in Nat /\ w(n + 1) = 2 * w(n)  BY Power, PowerNext
<1> HIDE DEF w
<1>2. 0 \in S  BY <1>1
<1>3. ASSUME NEW d \in S PROVE d + 1 \in S
  <2>1. d \in Nat /\ i + d \in Nat /\ i + (d + 1) = (i + d) + 1 /\ w(i) <= w(i + d)  OBVIOUS
  <2>2. w(i) \in Nat /\ w(i + d) \in Nat /\ w((i + d) + 1) = 2 * w(i + d)  BY <2>1, <1>1
  <2> QED BY <2>1, <2>2
<1>4. Nat \subseteq S
  <2> S \in SUBSET Nat  OBVIOUS
  <2> HIDE DEF S
  <2> QED BY <1>2, <1>3, NatSets
<1>5. j - i \in S /\ i + (j - i) = j
  <2>1. j - i \in Nat /\ i + (j - i) = j  OBVIOUS
  <2> HIDE DEF S
  <2> QED BY <2>1, <1>4
<1>6. w(i) <= w(j)  BY <1>5
<1> QED BY <1>6 DEF w

(* ceillog2 rounds up.                                                     *)
LEMMA CeilLog ==
  ASSUME NEW n \in Nat
  PROVE  /\ ceillog2(n) \in 0..n
         /\ \A p \in Nat : ceillog2(n) <= p <=> n <= 2^p
<1> DEFINE w(i) == 2^i
           S == {i \in Nat : w(i) >= n}
           c == ceillog2(n)
<1>1. \A i \in Nat : w(i) \in Nat /\ i < w(i)  BY Power, PowerGrows
<1>2. \A i, j \in Nat : i <= j => w(i) <= w(j)  BY PowerMonotone
<1>3. (\E i \in 0..n : w(i) >= n /\ \A j \in 0..(i - 1) : w(j) < n)
        => c \in 0..n /\ w(c) >= n /\ \A j \in 0..(c - 1) : w(j) < n
  BY DEF ceillog2
<1> HIDE DEF w, c
<1>4. n \in S  BY <1>1
<1>5. PICK i \in S : \A j \in S : i <= j
  <2> S \in SUBSET Nat  OBVIOUS
  <2> HIDE DEF S
  <2> QED BY <1>4, Least
<1>6. i \in 0..n /\ w(i) >= n  BY <1>4, <1>5
<1>7. \A j \in 0..(i - 1) : w(j) < n
  <2> TAKE j \in 0..(i - 1)
  <2>1. j \in Nat /\ ~ (i <= j)  BY <1>6
  <2>2. j \notin S  BY <2>1, <1>5
  <2> QED BY <2>1, <2>2, <1>1
<1>8. c \in 0..n /\ w(c) >= n /\ \A j \in 0..(c - 1) : w(j) < n
  BY <1>3, <1>6, <1>7
<1>9. ASSUME NEW p \in Nat PROVE c <= p <=> n <= w(p)
  <2>1. c \in Nat /\ w(c) \in Nat /\ w(p) \in Nat /\ n <= w(c)  BY <1>1, <1>8
  <2>2. CASE c <= p
    <3>1. w(c) <= w(p)  BY <2>1, <2>2, <1>2
    <3> QED BY <2>1, <2>2, <3>1
  <2>3. CASE ~ (c <= p)
    <3>1. p \in 0..(c - 1)  BY <2>1, <2>3
    <3>2. w(p) < n  BY <3>1, <1>8
    <3> QED BY <2>1, <2>3, <3>2
  <2> QED BY <2>2, <2>3
<1> QED BY <1>8, <1>9 DEF w, c

(* The size of the hash part that setnodevector makes.                     *)
LEMMA VectorSize ==
  ASSUME NEW n \in Nat
  PROVE  /\ nodevectorsize(n) \in Nat /\ n <= nodevectorsize(n)
         /\ nodevectorsize(n) < 2 * n + 1
         /\ nodevectorsize(n) = 0 \/ \E l \in 0..nodevectorsize(n) : nodevectorsize(n) = 2^l
<1>1. CASE n = 0  BY <1>1 DEF nodevectorsize
<1>2. CASE n # 0
  <2> DEFINE c == ceillog2(n)
             w(i) == 2^i
  <2>1. c \in 0..n /\ \A p \in Nat : c <= p <=> n <= w(p)  BY CeilLog
  <2>2. nodevectorsize(n) = w(c)  BY <1>2 DEF nodevectorsize
  <2>3. \A i \in Nat : w(i) \in Nat /\ i < w(i) /\ w(i + 1) = 2 * w(i)
    BY Power, PowerGrows, PowerNext
  <2>4. w(0) = 1  BY PowerZero
  <2> HIDE DEF c, w
  <2>5. c \in Nat /\ c <= c  BY <2>1
  <2>6. w(c) \in Nat /\ c < w(c) /\ n <= w(c)  BY <2>1, <2>3, <2>5
  <2>7. w(c) < 2 * n + 1
    <3>1. CASE c = 0  BY <3>1, <2>4, <1>2
    <3>2. CASE c # 0
      <4>1. c - 1 \in Nat /\ ~ (c <= c - 1) /\ (c - 1) + 1 = c  BY <3>2, <2>5
      <4>2. ~ (n <= w(c - 1))  BY <4>1, <2>1
      <4>3. w(c - 1) \in Nat /\ w(c) = 2 * w(c - 1)
        <5>1. w(c - 1) \in Nat /\ w((c - 1) + 1) = 2 * w(c - 1)  BY <4>1, <2>3
        <5> QED BY <4>1, <5>1
      <4> QED BY <4>2, <4>3
    <3> QED BY <3>1, <3>2
  <2>8. \E l \in 0..w(c) : w(c) = w(l)  BY <2>5, <2>6
  <2> QED BY <2>2, <2>6, <2>7, <2>8 DEF w
<1> QED BY <1>1, <1>2

(***************************************************************************)
(* Reinsertion.                                                            *)
(***************************************************************************)

(* As long as a node was not used, there is room.                          *)
LEMMA RoomLeft ==
  ASSUME NEW t, Sound(t), Cardinality(Keyed(t)) < sizenode(t), NEW k
  PROVE  HasRoom(t, k)
<1>1. HashPart(t) /\ sizenode(t) \in Nat /\ Nodes(t) = 0..(sizenode(t) - 1)  BY DEF Sound, HashPart
<1>2. IsFiniteSet(Nodes(t)) /\ Cardinality(Nodes(t)) = sizenode(t)  BY <1>1, FS_Interval
<1>3. Keyed(t) \subseteq Nodes(t)  BY DEF Keyed
<1>4. IsFiniteSet(Keyed(t)) /\ Cardinality(Keyed(t)) \in Nat
  BY <1>2, <1>3, FS_Subset, FS_CardinalityType
<1>5. Keyed(t) # Nodes(t)  BY <1>1, <1>2, <1>4
<1>6. PICK n \in Nodes(t) : t.node[n].key = NoKey  BY <1>3, <1>5 DEF Keyed
<1>7. n < t.lastfree /\ n \in Nat /\ t.lastfree \in Nat  BY <1>1, <1>6 DEF Sound, Placed, HashPart
<1>8. n \in FreePlaces(t)  BY <1>6, <1>7 DEF FreePlaces
<1>9. sizenode(t) # 0  BY <1>1, <1>4
<1> QED BY <1>8, <1>9 DEF HasRoom

(* The number of used nodes grows by one at most.                          *)
LEMMA OneMore ==
  ASSUME NEW t, HashPart(t), NEW u, NEW x, Keyed(u) \subseteq Keyed(t) \cup {x}
  PROVE  /\ Cardinality(Keyed(u)) <= Cardinality(Keyed(t)) + 1
         /\ Cardinality(Keyed(t)) \in Nat /\ Cardinality(Keyed(u)) \in Nat
         /\ Cardinality(Keyed(t)) <= sizenode(t)
<1>1. IsFiniteSet(Nodes(t)) /\ Cardinality(Nodes(t)) = sizenode(t)  BY FS_Interval DEF HashPart
<1>2. Keyed(t) \subseteq Nodes(t)  BY DEF Keyed
<1>3. IsFiniteSet(Keyed(t)) /\ Cardinality(Keyed(t)) \in Nat /\ Cardinality(Keyed(t)) <= sizenode(t)
  BY <1>1, <1>2, FS_Subset, FS_CardinalityType
<1>4. /\ IsFiniteSet(Keyed(t) \cup {x})
      /\ Cardinality(Keyed(t) \cup {x}) = IF x \in Keyed(t) THEN Cardinality(Keyed(t))
                                          ELSE Cardinality(Keyed(t)) + 1
  BY <1>3, FS_AddElement
<1>5. /\ IsFiniteSet(Keyed(u)) /\ Cardinality(Keyed(u)) \in Nat
      /\ Cardinality(Keyed(u)) <= Cardinality(Keyed(t) \cup {x})
  BY <1>4, FS_Subset, FS_CardinalityType
<1> QED BY <1>3, <1>4, <1>5

(* Reinsertion of one field keeps the others, and has room for it.         *)
LEMMA Reinserts ==
  ASSUME NEW t, Sound(t), NEW f, f.val \in V,
         f.val # Nil => f.key \in Keys,
         f.val # Nil /\ ~ InArray(t, f.key) => Cardinality(Keyed(t)) < sizenode(t)
  PROVE  /\ Sound(Reinsert(t, f)) /\ sizearray(Reinsert(t, f)) = sizearray(t)
         /\ Nodes(Reinsert(t, f)) = Nodes(t)
         /\ f.val = Nil => Reinsert(t, f) = t
         /\ f.val # Nil => luaH_get(Reinsert(t, f), f.key) = f.val
         /\ \A k \in Keys : (f.val # Nil => k # f.key) => luaH_get(Reinsert(t, f), k) = luaH_get(t, k)
         /\ \E x : Keyed(Reinsert(t, f)) \subseteq Keyed(t) \cup {x}
         /\ f.val = Nil \/ InArray(t, f.key) => Keyed(Reinsert(t, f)) = Keyed(t)
<1>1. CASE f.val = Nil
  <2>1. Reinsert(t, f) = t  BY <1>1 DEF Reinsert
  <2> QED BY <1>1, <2>1
<1>2. CASE f.val # Nil
  <2> DEFINE k == f.key
             u == IF IsPresent(t, k) THEN t ELSE IF HasRoom(t, k) THEN newkey(t, k) ELSE t
             w == Store(u, k, f.val)
  <2>1. k \in Keys  BY <1>2
  <2>2. IsPresent(t, k) \/ HasRoom(t, k)
    <3>1. CASE InArray(t, k)  BY <3>1, <2>1, Gets
    <3>2. CASE ~ InArray(t, k)  BY <3>2, <1>2, RoomLeft
    <3> QED BY <3>1, <3>2
  <2>3. /\ Sound(u) /\ IsPresent(u, k) /\ sizearray(u) = sizearray(t) /\ Nodes(u) = Nodes(t)
        /\ \A j \in Keys \ {k} : luaH_get(u, j) = luaH_get(t, j)
        /\ \E x : Keyed(u) \subseteq Keyed(t) \cup {x}
        /\ InArray(t, k) => Keyed(u) = Keyed(t)
    <3>1. CASE IsPresent(t, k)  BY <3>1
    <3>2. CASE ~ IsPresent(t, k)
      <4>1. MadeKey(t, k, newkey(t, k)) /\ u = newkey(t, k)  BY <3>2, <2>1, <2>2, NewKey
      <4> HIDE DEF u, k
      <4>2. MadeKey(t, k, u)  BY <4>1
      <4>3. Sound(u) /\ WithLiveKey(u, k) # {}  BY <4>2 DEF MadeKey
      <4>4. IsPresent(u, k)  BY <4>3, <2>1, Gets
      <4>5. ~ InArray(t, k)  BY <3>2, <2>1, Gets
      <4> QED BY <4>2, <4>3, <4>4, <4>5, SameShapes DEF MadeKey
    <3> QED BY <3>1, <3>2
  <2>4. Reinsert(t, f) = w  BY <1>2, <2>3 DEF Reinsert
  <2> HIDE DEF u, k
  <2>5. /\ Sound(w) /\ Kept(u, w) /\ luaH_get(w, k) = f.val
        /\ \A j \in Keys \ {k} : luaH_get(w, j) = luaH_get(u, j)
    BY <2>1, <2>3, Stores
  <2> HIDE DEF w
  <2>6. sizearray(w) = sizearray(u) /\ Nodes(w) = Nodes(u) /\ Keyed(w) = Keyed(u)
    BY <2>5, KeptShape
  <2> QED BY <1>2, <2>3, <2>4, <2>5, <2>6 DEF k
<1> QED BY <1>1, <1>2

(* The recursive function of ReinsertAll exists.                            *)
LEMMA ReinsertAllUnfolds ==
  ASSUME NEW t, NEW field, NEW N \in Nat
  PROVE  \E f : /\ f[0] = t /\ \A i \in 1..N : f[i] = Reinsert(f[i - 1], field[i])
                /\ ReinsertAll(t, field, N) = f[N]
<1> DEFINE Upto(n, f) == f[0] = t /\ \A i \in 1..n : f[i] = Reinsert(f[i - 1], field[i])
           S == {n \in 0..N : \E f : Upto(n, f)}
           Eqn(f) == f = [i \in 0..N |-> IF i = 0 THEN t ELSE Reinsert(f[i - 1], field[i])]
           after == CHOOSE f : Eqn(f)
<1>1. 0 \in S
  <2> DEFINE f == [i \in 0..0 |-> t]
  <2>1. Upto(0, f)  OBVIOUS
  <2>2. 0 \in 0..N  OBVIOUS
  <2> HIDE DEF f, Upto
  <2> QED BY <2>1, <2>2
<1>2. ASSUME NEW n \in 0..N, n \in S, n < N PROVE n + 1 \in S
  <2>1. PICK f : Upto(n, f)  BY <1>2
  <2> DEFINE v == Reinsert(f[n], field[n + 1])
             g == [i \in 0..(n + 1) |-> IF i = n + 1 THEN v ELSE f[i]]
  <2>2. g[0] = t  BY <2>1
  <2>3. ASSUME NEW i \in 1..(n + 1) PROVE g[i] = Reinsert(g[i - 1], field[i])
    <3>1. CASE i = n + 1
      <4>1. i - 1 = n /\ n \in 0..(n + 1) /\ n # n + 1  BY <3>1
      <4>2. g[i - 1] = f[n] /\ g[i] = v  BY <3>1, <4>1
      <4> QED BY <3>1, <4>2
    <3>2. CASE i # n + 1
      <4>1. i \in 1..n /\ i \in 0..(n + 1) /\ i - 1 \in 0..(n + 1) /\ i - 1 # n + 1  BY <3>2
      <4>2. g[i] = f[i] /\ g[i - 1] = f[i - 1]  BY <3>2, <4>1
      <4> HIDE DEF g
      <4>3. f[i] = Reinsert(f[i - 1], field[i])  BY <4>1, <2>1
      <4> QED BY <4>2, <4>3
    <3> QED BY <3>1, <3>2
  <2> HIDE DEF g
  <2>4. Upto(n + 1, g)  BY <2>2, <2>3
  <2>5. n + 1 \in 0..N  BY <1>2
  <2> HIDE DEF Upto
  <2> QED BY <2>4, <2>5
<1>3. N \in S
  <2> HIDE DEF S
  <2>1. 0..N \subseteq S  BY <1>1, <1>2, IntervalSets
  <2> QED BY <2>1
<1>4. \E f : Eqn(f)
  <2>1. PICK f : Upto(N, f)  BY <1>3
  <2> DEFINE g == [i \in 0..N |-> f[i]]
  <2>2. Eqn(g)
    <3> SUFFICES ASSUME NEW i \in 0..N
                 PROVE  g[i] = IF i = 0 THEN t ELSE Reinsert(g[i - 1], field[i])
      OBVIOUS
    <3>1. CASE i = 0  BY <3>1, <2>1
    <3>2. CASE i # 0
      <4>1. i \in 1..N /\ i - 1 \in 0..N  BY <3>2
      <4>2. g[i] = f[i] /\ g[i - 1] = f[i - 1]  BY <4>1
      <4> HIDE DEF g
      <4>3. f[i] = Reinsert(f[i - 1], field[i])  BY <4>1, <2>1
      <4> QED BY <3>2, <4>2, <4>3
    <3> QED BY <3>1, <3>2
  <2> HIDE DEF g, Eqn
  <2> QED BY <2>2
<1>5. Eqn(after)
  <2> HIDE DEF Eqn
  <2> QED BY <1>4
<1>6. ReinsertAll(t, field, N) = after[N]  BY DEF ReinsertAll
<1> HIDE DEF after
<1>7. after[0] = t  BY <1>5
<1>8. \A i \in 1..N : after[i] = Reinsert(after[i - 1], field[i])  BY <1>5
<1> QED BY <1>6, <1>7, <1>8

(***************************************************************************)
(* Slots.  A key that has a value has one slot with a value, and findindex *)
(* tells which; so next and rehash, which go through the slots, go through *)
(* the fields of the map.                                                  *)
(***************************************************************************)
LEMMA UsedSlot ==
  ASSUME NEW t, Sound(t), NEW j \in UsedSlots(t)
  PROVE  /\ j \in Nat /\ j \in 1..(sizearray(t) + sizenode(t))
         /\ KeyAt(t, j) \in Keys
         /\ luaH_get(t, KeyAt(t, j)) = ValueAt(t, j) /\ ValueAt(t, j) # Nil
         /\ findindex(t, KeyAt(t, j)) = j
<1> DEFINE k == KeyAt(t, j)
           a == sizearray(t)
           s == sizenode(t)
<1>1. HashPart(t) /\ ArrayPart(t)  BY DEF Sound
<1>2. PICK r, R : Chains(t, r, R) /\ Placed(t, r, R)  BY DEF Sound
<1>3. a \in Nat /\ s \in Nat  BY <1>1 DEF ArrayPart, HashPart, sizearray
<1>4. j \in 1..(a + s) /\ ValueAt(t, j) # Nil  BY DEF UsedSlots
<1>5. First \notin Keys  BY TableAssumption DEF TableAssumption
<1>6. CASE j <= a
  <2>1. k = j /\ ValueAt(t, j) = t.array[j] /\ j \in 1..a  BY <1>3, <1>4, <1>6 DEF KeyAt, ValueAt
  <2>2. k \in IntKeys /\ InArray(t, k)  BY <1>1, <1>4, <1>6, <2>1 DEF ArrayPart, InArray
  <2>3. k \in Keys  BY <2>2 DEF Keys
  <2>4. luaH_get(t, k) = ValueAt(t, j)  BY <2>1, <2>2, <2>3, Gets
  <2>5. findindex(t, k) = j  BY <2>1, <2>2, <2>3, <1>5 DEF findindex
  <2> QED BY <1>3, <1>4, <2>3, <2>4, <2>5
<1>7. CASE ~ (j <= a)
  <2> DEFINE n == j - a - 1
  <2>1. n \in 0..(s - 1) /\ a + n + 1 = j  BY <1>3, <1>4, <1>7
  <2>2. n \in Nodes(t) /\ n # NoNode  BY <1>1, <2>1 DEF HashPart, NoNode
  <2>3. k = t.node[n].key /\ ValueAt(t, j) = t.node[n].val  BY <1>7 DEF KeyAt, ValueAt
  <2> HIDE DEF n, k
  <2>4. k # NoKey /\ ~ t.node[n].dead  BY <1>2, <1>4, <2>2, <2>3 DEF Placed
  <2>5. k \in Keys  BY <1>1, <2>2, <2>3, <2>4 DEF HashPart, Parts, Entry
  <2>6. n \in WithLiveKey(t, k)  BY <2>2, <2>3, <2>4 DEF WithLiveKey, WithKey, Nodes
  <2>7. luaH_get(t, k) = ValueAt(t, j)  BY <2>3, <2>5, <2>6, Gets
  <2>8. Chained(t, mainposition(t, k), WithKey(t, k)) = n  BY <1>1, <1>2, <2>5, <2>6, Found
  <2>9. ~ InArray(t, k)  BY <1>2, <2>2, <2>3 DEF Placed
  <2>10. findindex(t, k) = a + n + 1  BY <1>5, <2>2, <2>5, <2>8, <2>9 DEF findindex
  <2> QED BY <1>3, <1>4, <2>1, <2>5, <2>7, <2>10 DEF k
<1> QED BY <1>6, <1>7

(* findindex finds the slot of every field, and only that one.             *)
LEMMA SlotOf ==
  ASSUME NEW t, Sound(t), NEW k \in Keys, luaH_get(t, k) # Nil
  PROVE  /\ findindex(t, k) \in UsedSlots(t)
         /\ KeyAt(t, findindex(t, k)) = k
         /\ ValueAt(t, findindex(t, k)) = luaH_get(t, k)
<1> DEFINE a == sizearray(t)
           s == sizenode(t)
<1>1. HashPart(t) /\ ArrayPart(t)  BY DEF Sound
<1>2. PICK r, R : Chains(t, r, R) /\ Placed(t, r, R)  BY DEF Sound
<1>3. a \in Nat /\ s \in Nat  BY <1>1 DEF ArrayPart, HashPart, sizearray
<1>4. First \notin Keys  BY TableAssumption DEF TableAssumption
<1>5. CASE InArray(t, k)
  <2>1. k \in 1..a  BY <1>3, <1>5, TableAssumption DEF TableAssumption, InArray
  <2>2. findindex(t, k) = k  BY <1>4, <1>5 DEF findindex
  <2>3. luaH_get(t, k) = t.array[k]  BY <1>5, Gets
  <2>4. KeyAt(t, k) = k /\ ValueAt(t, k) = t.array[k]  BY <2>1 DEF KeyAt, ValueAt
  <2>5. k \in 1..(a + s)  BY <1>3, <2>1
  <2> QED BY <2>2, <2>3, <2>4, <2>5 DEF UsedSlots
<1>6. CASE ~ InArray(t, k)
  <2>1. PICK n \in WithLiveKey(t, k) : TRUE  BY <1>6, Gets
  <2>2. luaH_get(t, k) = t.node[n].val  BY Gets
  <2>3. Chained(t, mainposition(t, k), WithKey(t, k)) = n  BY <1>1, <1>2, Found
  <2>4. n \in Nodes(t) /\ t.node[n].key = k  BY DEF WithLiveKey, WithKey, Nodes
  <2>5. n \in 0..(s - 1)  BY <1>1, <2>4 DEF HashPart
  <2>6. findindex(t, k) = a + n + 1  BY <1>4, <1>6, <2>3, <2>5 DEF findindex, NoNode
  <2>7. a + n + 1 \in 1..(a + s) /\ ~ (a + n + 1 <= a) /\ (a + n + 1) - a - 1 = n  BY <1>3, <2>5
  <2>8. KeyAt(t, a + n + 1) = k /\ ValueAt(t, a + n + 1) = t.node[n].val
    BY <2>4, <2>7 DEF KeyAt, ValueAt
  <2> HIDE DEF a, s
  <2> QED BY <2>2, <2>6, <2>7, <2>8 DEF UsedSlots, a, s
<1> QED BY <1>5, <1>6

(***************************************************************************)
(* resize.                                                                 *)
(***************************************************************************)

(* The table into which the fields are reinserted.                          *)
LEMMA EmptiedSound ==
  ASSUME NEW t, Sound(t), NEW nasize \in Nat, NEW size \in Nat
  PROVE  /\ Sound(Emptied(t, nasize, size)) /\ sizearray(Emptied(t, nasize, size)) = nasize
         /\ sizenode(Emptied(t, nasize, size)) = size
         /\ Cardinality(Keyed(Emptied(t, nasize, size))) = 0
         /\ \A k \in Keys : luaH_get(Emptied(t, nasize, size), k) =
              IF InArray(t, k) /\ k <= nasize THEN luaH_get(t, k) ELSE Nil
<1> DEFINE u == Emptied(t, nasize, size)
           array == [i \in 1..nasize |-> IF i <= sizearray(t) THEN t.array[i] ELSE Nil]
           node == [n \in 0..(size - 1) |-> FreeNode]
<1>1. HashPart(t) /\ ArrayPart(t) /\ sizearray(t) \in Nat  BY DEF Sound, ArrayPart, sizearray
<1>2. u = [array |-> array, node |-> node, lastfree |-> size]  BY DEF Emptied
<1>3. \A i \in 1..nasize : array[i] = IF i <= sizearray(t) THEN t.array[i] ELSE Nil  OBVIOUS
<1>4. \A n \in 0..(size - 1) : node[n] = FreeNode  OBVIOUS
<1>5. array \in [1..nasize -> V]
  <2>1. \A i \in 1..nasize : i <= sizearray(t) => t.array[i] \in V
    BY <1>1 DEF ArrayPart, sizearray
  <2> QED BY <2>1 DEF V
<1>6. node \in Parts(size) /\ DOMAIN node = 0..(size - 1)  BY DEF Parts, Entry, FreeNode, V
<1> HIDE DEF u, array, node
<1>7. u.array = array /\ u.node = node /\ u.lastfree = size  BY <1>2
<1>8. array \in Seq(V) /\ Len(array) = nasize  BY <1>5
<1>9. sizearray(u) = nasize  BY <1>7, <1>8 DEF sizearray
<1>10. sizenode(u) = size
  <2>1. Cardinality(0..(size - 1)) = size  BY FS_Interval
  <2> QED BY <1>6, <1>7, <2>1 DEF sizenode
<1>11. ArrayPart(u)
  <2>1. \A i \in 1..nasize : array[i] # Nil => i \in IntKeys  BY <1>1, <1>3 DEF ArrayPart
  <2> QED BY <1>7, <1>8, <1>9, <2>1 DEF ArrayPart
<1>12. HashPart(u)  BY <1>6, <1>7, <1>10 DEF HashPart, Nodes
<1>13. Nodes(u) = 0..(size - 1)  BY <1>6, <1>7 DEF Nodes
<1>14. \A n \in Nodes(u) : /\ u.node[n].key = NoKey /\ ~ u.node[n].dead
                           /\ u.node[n].val = Nil /\ u.node[n].next = NoNode
  BY <1>4, <1>7, <1>13 DEF FreeNode
<1>15. \E r, R : Chains(u, r, R) /\ Placed(u, r, R)
  <2> DEFINE r == [n \in Nodes(u) |-> 0]
             R == {p \in Nodes(u) \X Nodes(u) : p[1] = p[2]}
  <2>1. Chains(u, r, R)
    <3>1. \A a, b \in Nodes(u) : <<a, b>> \in R <=> a = b  OBVIOUS
    <3>2. r \in [Nodes(u) -> Nat] /\ R \in SUBSET (Nodes(u) \X Nodes(u))  OBVIOUS
    <3> HIDE DEF r, R
    <3> QED BY <3>1, <3>2, <1>14 DEF Chains
  <2>2. Placed(u, r, R)
    <3>1. \A n \in Nodes(u) : n < u.lastfree  BY <1>7, <1>13
    <3>2. NoKey \notin IntKeys  BY TableAssumption DEF TableAssumption, Keys
    <3> HIDE DEF r, R
    <3> QED BY <3>1, <3>2, <1>14 DEF Placed, InArray
  <2> QED BY <2>1, <2>2
<1>16. Sound(u)  BY <1>2, <1>7, <1>11, <1>12, <1>15 DEF Sound
<1>17. Cardinality(Keyed(u)) = 0
  <2>1. Keyed(u) = {}  BY <1>14 DEF Keyed
  <2> QED BY <2>1, FS_EmptySet
<1>18. ASSUME NEW k \in Keys
       PROVE  luaH_get(u, k) = IF InArray(t, k) /\ k <= nasize THEN luaH_get(t, k) ELSE Nil
  <2>1. WithLiveKey(u, k) = {}
    <3>1. k # NoKey  BY TableAssumption DEF TableAssumption
    <3> QED BY <3>1, <1>14 DEF WithLiveKey, WithKey, Nodes
  <2>2. CASE InArray(u, k)
    <3>1. k \in 1..nasize /\ k \in IntKeys
      BY <2>2, <1>9, TableAssumption DEF TableAssumption, InArray
    <3>2. luaH_get(u, k) = array[k]  BY <2>2, <1>7, <1>16, Gets
    <3>3. InArray(t, k) => luaH_get(t, k) = t.array[k]  BY Gets
    <3> QED BY <3>1, <3>2, <3>3, <1>3 DEF InArray
  <2>3. CASE ~ InArray(u, k)
    <3>1. luaH_get(u, k) = Nil  BY <2>1, <2>3, <1>16, Gets
    <3> QED BY <2>3, <3>1, <1>9 DEF InArray
  <2> QED BY <2>2, <2>3
<1> QED BY <1>9, <1>10, <1>16, <1>17, <1>18 DEF u

(* The slot that field i comes from.                                        *)
SlotAt(t, nasize, i) ==
  IF i <= Slice(t, nasize) THEN nasize + i
  ELSE sizearray(t) + (sizenode(t) - (i - Slice(t, nasize))) + 1
Kinds(t, nasize) == 1..(Slice(t, nasize) + sizenode(t))
(* The fields that have to go to a node.                                   *)
Moving(t, nasize) ==
  {i \in Kinds(t, nasize) :
     /\ Fields(t, nasize)[i].val # Nil
     /\ ~ (Fields(t, nasize)[i].key \in IntKeys /\ Fields(t, nasize)[i].key <= nasize)}

(* What resize reinserts are the fields of the table, each from a slot of  *)
(* its own.                                                                *)
LEMMA FieldsOf ==
  ASSUME NEW t, Sound(t), NEW nasize \in Nat
  PROVE  /\ Slice(t, nasize) + sizenode(t) \in Nat
         /\ \A i \in Kinds(t, nasize) :
              /\ Fields(t, nasize)[i].val \in V
              /\ Fields(t, nasize)[i].key = KeyAt(t, SlotAt(t, nasize, i))
              /\ Fields(t, nasize)[i].val = ValueAt(t, SlotAt(t, nasize, i))
              /\ SlotAt(t, nasize, i) \in 1..(sizearray(t) + sizenode(t))
         /\ \A i, j \in Kinds(t, nasize) : SlotAt(t, nasize, i) = SlotAt(t, nasize, j) => i = j
         /\ \A n \in 1..(sizearray(t) + sizenode(t)) :
              \/ n <= sizearray(t) /\ n <= nasize
              \/ \E i \in Kinds(t, nasize) : SlotAt(t, nasize, i) = n
<1> DEFINE a == sizearray(t)
           s == sizenode(t)
           l == Slice(t, nasize)
           F == Fields(t, nasize)
           K == Kinds(t, nasize)
<1>1. HashPart(t) /\ ArrayPart(t) /\ a \in Nat /\ s \in Nat
  BY DEF Sound, ArrayPart, HashPart, sizearray
<1>2. l \in Nat /\ l = (IF nasize < a THEN a - nasize ELSE 0)  BY <1>1 DEF Slice
<1>3. K = 1..(l + s)  BY DEF Kinds
<1>4. \A i \in K : SlotAt(t, nasize, i) = IF i <= l THEN nasize + i ELSE a + (s - (i - l)) + 1
  BY DEF SlotAt
<1>5. \A i \in K : F[i] = IF i <= l THEN [key |-> nasize + i, val |-> t.array[nasize + i]]
                          ELSE [key |-> t.node[s - (i - l)].key, val |-> t.node[s - (i - l)].val]
  BY <1>3 DEF Fields
<1> HIDE DEF a, s, l, F, K
<1>6. ASSUME NEW i \in K
      PROVE  /\ F[i].val \in V
             /\ F[i].key = KeyAt(t, SlotAt(t, nasize, i))
             /\ F[i].val = ValueAt(t, SlotAt(t, nasize, i))
             /\ SlotAt(t, nasize, i) \in 1..(a + s)
  <2>1. CASE i <= l
    <3> DEFINE n == nasize + i
    <3>1. n \in 1..a /\ SlotAt(t, nasize, i) = n  BY <1>1, <1>2, <1>3, <1>4, <2>1
    <3>2. F[i] = [key |-> n, val |-> t.array[n]]  BY <1>5, <2>1
    <3> HIDE DEF n
    <3>3. n \in 1..(a + s)  BY <1>1, <3>1
    <3>4. KeyAt(t, n) = n /\ ValueAt(t, n) = t.array[n]  BY <3>1 DEF KeyAt, ValueAt, a
    <3>5. t.array[n] \in V  BY <1>1, <3>1 DEF ArrayPart, a, sizearray
    <3> QED BY <3>1, <3>2, <3>3, <3>4, <3>5
  <2>2. CASE ~ (i <= l)
    <3> DEFINE n == s - (i - l)
    <3>1. n \in 0..(s - 1) /\ SlotAt(t, nasize, i) = a + n + 1
      BY <1>1, <1>2, <1>3, <1>4, <2>2
    <3>2. F[i] = [key |-> t.node[n].key, val |-> t.node[n].val]  BY <1>5, <2>2
    <3> HIDE DEF n
    <3>3. a + n + 1 \in 1..(a + s) /\ ~ (a + n + 1 <= a) /\ (a + n + 1) - a - 1 = n
      BY <1>1, <3>1
    <3>4. KeyAt(t, a + n + 1) = t.node[n].key /\ ValueAt(t, a + n + 1) = t.node[n].val
      BY <3>3 DEF KeyAt, ValueAt, a
    <3>5. t.node[n].val \in V  BY <1>1, <3>1 DEF HashPart, Parts, Entry, s
    <3> QED BY <3>1, <3>2, <3>3, <3>4, <3>5
  <2> QED BY <2>1, <2>2
<1>7. ASSUME NEW i \in K, NEW j \in K, SlotAt(t, nasize, i) = SlotAt(t, nasize, j)
      PROVE  i = j
  BY <1>1, <1>2, <1>3, <1>4, <1>7
<1>8. ASSUME NEW n \in 1..(a + s), ~ (n <= a /\ n <= nasize)
      PROVE  \E i \in K : SlotAt(t, nasize, i) = n
  <2>1. CASE n <= a
    <3> DEFINE i == n - nasize
    <3>1. i \in 1..l /\ nasize + i = n  BY <1>1, <1>2, <1>8, <2>1
    <3>2. i \in K /\ i <= l  BY <1>1, <1>2, <1>3, <3>1
    <3> QED BY <1>4, <3>1, <3>2
  <2>2. CASE ~ (n <= a)
    <3> DEFINE i == l + s - (n - a - 1)
    <3>1. i \in 1..(l + s) /\ ~ (i <= l) /\ a + (s - (i - l)) + 1 = n  BY <1>1, <1>2, <2>2
    <3>2. i \in K  BY <1>3, <3>1
    <3> HIDE DEF i
    <3> QED BY <1>4, <3>1, <3>2
  <2> QED BY <2>1, <2>2
<1>9. l + s \in Nat  BY <1>1, <1>2
<1> QED BY <1>6, <1>7, <1>8, <1>9 DEF a, s, l, F, K

(* If the new hash part is large enough, nothing is lost, and it has a free *)
(* node for each field that did not come.                                  *)
LEMMA Rebuilds ==
  ASSUME NEW t, Sound(t), NEW nasize \in Nat, NEW nhsize \in Nat,
         Cardinality(Moving(t, nasize)) <= nodevectorsize(nhsize)
  PROVE  /\ Sound(resize(t, nasize, nhsize))
         /\ sizearray(resize(t, nasize, nhsize)) = nasize
         /\ sizenode(resize(t, nasize, nhsize)) = nodevectorsize(nhsize)
         /\ Cardinality(Keyed(resize(t, nasize, nhsize))) <= Cardinality(Moving(t, nasize))
         /\ Cardinality(Moving(t, nasize)) \in Nat
         /\ \A k \in Keys : luaH_get(resize(t, nasize, nhsize), k) = luaH_get(t, k)
<1> DEFINE size == nodevectorsize(nhsize)
           u0 == Emptied(t, nasize, size)
           F == Fields(t, nasize)
           N == Slice(t, nasize) + sizenode(t)
           M == Moving(t, nasize)
           Upto(i) == {j \in M : j <= i}
<1>1. size \in Nat  BY VectorSize
<1>2. /\ Sound(u0) /\ sizearray(u0) = nasize /\ sizenode(u0) = size
      /\ Cardinality(Keyed(u0)) = 0
      /\ \A k \in Keys : luaH_get(u0, k) =
           IF InArray(t, k) /\ k <= nasize THEN luaH_get(t, k) ELSE Nil
  BY SMTT(60), <1>1, EmptiedSound
<1>3. N \in Nat  BY FieldsOf
<1>4. ASSUME NEW i \in 1..N
      PROVE  F[i].val \in V /\ (F[i].val # Nil => F[i].key \in Keys /\ luaH_get(t, F[i].key) = F[i].val)
  <2>1. /\ F[i].val \in V
        /\ F[i].key = KeyAt(t, SlotAt(t, nasize, i))
        /\ F[i].val = ValueAt(t, SlotAt(t, nasize, i))
        /\ SlotAt(t, nasize, i) \in 1..(sizearray(t) + sizenode(t))
    BY FieldsOf DEF Kinds
  <2>2. F[i].val # Nil => SlotAt(t, nasize, i) \in UsedSlots(t)  BY <2>1 DEF UsedSlots
  <2>3. F[i].val # Nil => /\ KeyAt(t, SlotAt(t, nasize, i)) \in Keys
                          /\ luaH_get(t, KeyAt(t, SlotAt(t, nasize, i))) = ValueAt(t, SlotAt(t, nasize, i))
    BY <2>2, UsedSlot
  <2> QED BY <2>1, <2>3
<1>5. M \subseteq 1..N /\ IsFiniteSet(M) /\ Cardinality(M) \in Nat
  <2>1. M \subseteq 1..N  BY DEF Moving, Kinds
  <2>2. IsFiniteSet(1..N)  BY <1>3, FS_Interval
  <2> QED BY <2>1, <2>2, FS_Subset, FS_CardinalityType
<1>6. PICK f : /\ f[0] = u0 /\ \A i \in 1..N : f[i] = Reinsert(f[i - 1], F[i])
               /\ ReinsertAll(u0, F, N) = f[N]
  BY <1>3, ReinsertAllUnfolds
<1>7. resize(t, nasize, nhsize) = f[N]  BY <1>6 DEF resize
<1>8. ASSUME NEW i \in Nat
      PROVE  /\ Cardinality(Upto(i)) \in Nat /\ Cardinality(Upto(i)) <= Cardinality(M)
             /\ Cardinality(Upto(i)) <= Cardinality(Upto(i + 1))
             /\ i + 1 \in M => Cardinality(Upto(i + 1)) = Cardinality(Upto(i)) + 1
  <2>1. Upto(i) \subseteq M /\ Upto(i + 1) \subseteq M /\ Upto(i) \subseteq Upto(i + 1)
    BY <1>5
  <2>2. IsFiniteSet(Upto(i)) /\ IsFiniteSet(Upto(i + 1))  BY <2>1, <1>5, FS_Subset
  <2>3. i + 1 \in M => Upto(i + 1) = Upto(i) \cup {i + 1} /\ i + 1 \notin Upto(i)
    BY <1>5
  <2> HIDE DEF Upto, M
  <2>4. i + 1 \in M => Cardinality(Upto(i + 1)) = Cardinality(Upto(i)) + 1
    BY <2>2, <2>3, FS_AddElement
  <2>5. Cardinality(Upto(i)) \in Nat  BY <2>2, FS_CardinalityType
  <2>6. Cardinality(Upto(i)) <= Cardinality(M)  BY <2>1, <1>5, FS_Subset
  <2>7. Cardinality(Upto(i)) <= Cardinality(Upto(i + 1))  BY <2>1, <2>2, FS_Subset
  <2> QED BY <2>4, <2>5, <2>6, <2>7
<1> DEFINE Set(i, k) == \E j \in 1..i : F[j].val # Nil /\ F[j].key = k
           Done(i) == /\ Sound(f[i]) /\ sizearray(f[i]) = nasize /\ sizenode(f[i]) = size
                      /\ Cardinality(Keyed(f[i])) <= Cardinality(Upto(i))
                      /\ \A k \in Keys : luaH_get(f[i], k) =
                           IF Set(i, k) THEN luaH_get(t, k) ELSE luaH_get(u0, k)
           S == {i \in 0..N : Done(i)}
<1>9. 0 \in S
  <2>1. \A k : ~ Set(0, k)  OBVIOUS
  <2>2. Cardinality(Upto(0)) \in Nat  BY <1>8
  <2>3. 0 \in 0..N  BY <1>3
  <2> HIDE DEF Set, Upto, u0, size, F, N, M
  <2> QED BY <2>1, <2>2, <2>3, <1>2, <1>6
<1>10. ASSUME NEW i \in 0..N, i \in S, i < N PROVE i + 1 \in S
  <2> DEFINE g == F[i + 1]
  <2>1. /\ i \in Nat /\ i + 1 \in 1..N /\ i + 1 \in 0..N /\ (i + 1) - 1 = i
    BY <1>3, <1>10
  <2>2. f[i + 1] = Reinsert(f[i], g)  BY <2>1, <1>6
  <2>3. g.val \in V /\ (g.val # Nil => g.key \in Keys /\ luaH_get(t, g.key) = g.val)
    BY <2>1, <1>4
  <2>4. Done(i)  BY <1>10
  <2>5. InArray(f[i], g.key) <=> g.key \in IntKeys /\ g.key <= nasize
    BY <2>4 DEF InArray
  <2>6. g.val # Nil /\ ~ InArray(f[i], g.key) => i + 1 \in M
    BY <2>1, <2>5 DEF Moving, Kinds
  <2>7. \A k \in Keys : Set(i + 1, k) <=> Set(i, k) \/ (g.val # Nil /\ g.key = k)
    <3> TAKE k \in Keys
    <3>1. 1..(i + 1) = 1..i \cup {i + 1}  BY <2>1
    <3> QED BY <3>1
  <2>8. /\ Cardinality(Upto(i)) \in Nat /\ Cardinality(Upto(i + 1)) \in Nat
        /\ Cardinality(Upto(i + 1)) <= Cardinality(M)
        /\ Cardinality(Upto(i)) <= Cardinality(Upto(i + 1))
        /\ i + 1 \in M => Cardinality(Upto(i + 1)) = Cardinality(Upto(i)) + 1
    <3>1. i + 1 \in Nat  BY <2>1
    <3> HIDE DEF Upto, M
    <3> QED BY <2>1, <3>1, <1>8
  <2> HIDE DEF Set, Upto, u0, size, F, N, M, g
  <2>9. Sound(f[i]) /\ sizearray(f[i]) = nasize /\ sizenode(f[i]) = size
    BY <2>4
  <2>10. Cardinality(Keyed(f[i])) <= Cardinality(Upto(i))
    BY <2>4
  <2>11. HashPart(f[i])  BY <2>9 DEF Sound
  <2>12. Cardinality(Keyed(f[i])) \in Nat  BY <2>11, OneMore
  <2>13. Cardinality(M) <= size  BY DEF M, size
  <2>14. g.val # Nil /\ ~ InArray(f[i], g.key) => Cardinality(Keyed(f[i])) < sizenode(f[i])
    BY <2>6, <2>8, <2>9, <2>10, <2>12, <2>13, <1>1, <1>5
  <2> DEFINE u == Reinsert(f[i], g)
  <2>15. /\ Sound(u) /\ sizearray(u) = sizearray(f[i])
         /\ Nodes(u) = Nodes(f[i])
         /\ g.val # Nil => luaH_get(u, g.key) = g.val
         /\ \A k \in Keys : (g.val # Nil => k # g.key) => luaH_get(u, k) = luaH_get(f[i], k)
         /\ \E x : Keyed(u) \subseteq Keyed(f[i]) \cup {x}
         /\ g.val = Nil \/ InArray(f[i], g.key) => Keyed(u) = Keyed(f[i])
    BY <2>3, <2>9, <2>14, Reinserts
  <2> HIDE DEF u
  <2>16. sizenode(u) = size  BY <2>9, <2>15 DEF sizenode, Nodes
  <2>17. Cardinality(Keyed(u)) <= Cardinality(Upto(i + 1))
    <3>1. CASE g.val = Nil \/ InArray(f[i], g.key)
      BY <3>1, <2>8, <2>10, <2>12, <2>15
    <3>2. CASE ~ (g.val = Nil \/ InArray(f[i], g.key))
      <4>1. Cardinality(Keyed(u)) <= Cardinality(Keyed(f[i])) + 1 /\ Cardinality(Keyed(u)) \in Nat
        BY <2>11, <2>15, OneMore
      <4> QED BY <3>2, <4>1, <2>6, <2>8, <2>10, <2>12
    <3> QED BY <3>1, <3>2
  <2>18. ASSUME NEW k \in Keys
         PROVE  luaH_get(u, k) = IF Set(i + 1, k) THEN luaH_get(t, k) ELSE luaH_get(u0, k)
    <3>1. CASE g.val # Nil /\ k = g.key  BY <3>1, <2>3, <2>7, <2>15
    <3>2. CASE ~ (g.val # Nil /\ k = g.key)
      <4>1. luaH_get(u, k) = luaH_get(f[i], k)  BY <3>2, <2>15
      <4>2. Set(i + 1, k) <=> Set(i, k)  BY <3>2, <2>7
      <4>3. luaH_get(f[i], k) = IF Set(i, k) THEN luaH_get(t, k) ELSE luaH_get(u0, k)
        BY <2>4
      <4> QED BY <4>1, <4>2, <4>3
    <3> QED BY <3>1, <3>2
  <2>19. f[i + 1] = u  BY <2>2 DEF u
  <2>20. Done(i + 1)  BY <2>9, <2>15, <2>16, <2>17, <2>18, <2>19
  <2> HIDE DEF Done
  <2> QED BY <2>1, <2>20
<1>11. 0..N \subseteq S
  <2> HIDE DEF S, N
  <2> QED BY <1>3, <1>9, <1>10, IntervalSets
<1>12. Done(N)
  <2>1. N \in 0..N  BY <1>3
  <2> HIDE DEF Done, N
  <2> QED BY <1>11, <2>1
<1>13. Cardinality(Upto(N)) <= Cardinality(M) /\ Cardinality(Upto(N)) \in Nat
  <2> HIDE DEF Upto, M, N
  <2> QED BY <1>3, <1>8
<1>14. ASSUME NEW k \in Keys PROVE luaH_get(f[N], k) = luaH_get(t, k)
  <2>1. luaH_get(f[N], k) = IF Set(N, k) THEN luaH_get(t, k) ELSE luaH_get(u0, k)
    BY <1>12
  <2>2. luaH_get(u0, k) = IF InArray(t, k) /\ k <= nasize THEN luaH_get(t, k) ELSE Nil
    BY <1>2
  <2>3. CASE luaH_get(t, k) = Nil  BY <2>1, <2>2, <2>3
  <2>4. CASE luaH_get(t, k) # Nil /\ ~ (InArray(t, k) /\ k <= nasize)
    <3> DEFINE n == findindex(t, k)
    <3>1. n \in UsedSlots(t) /\ KeyAt(t, n) = k /\ ValueAt(t, n) = luaH_get(t, k)
      BY <2>4, SlotOf
    <3>2. n \in 1..(sizearray(t) + sizenode(t))  BY <3>1 DEF UsedSlots
    <3>3. ~ (n <= sizearray(t) /\ n <= nasize)
      <4>1. SUFFICES ASSUME n <= sizearray(t), n <= nasize PROVE FALSE  OBVIOUS
      <4>2. k = n  BY <3>1, <4>1 DEF KeyAt
      <4>3. n \in 1..sizearray(t) /\ ValueAt(t, n) = t.array[n]
        BY <3>2, <4>1 DEF ValueAt, Sound, HashPart, ArrayPart, sizearray
      <4>4. k \in IntKeys  BY <2>4, <3>1, <4>2, <4>3 DEF Sound, ArrayPart
      <4> QED BY <2>4, <4>1, <4>2, <4>4 DEF InArray
    <3> HIDE DEF n
    <3>4. PICK i \in Kinds(t, nasize) : SlotAt(t, nasize, i) = n  BY <3>2, <3>3, FieldsOf
    <3>5. F[i].key = k /\ F[i].val # Nil  BY <2>4, <3>1, <3>4, FieldsOf
    <3>6. Set(N, k)  BY <3>4, <3>5 DEF Kinds
    <3> QED BY <2>1, <3>6
  <2>5. CASE InArray(t, k) /\ k <= nasize  BY <2>1, <2>2, <2>5
  <2> QED BY <2>3, <2>4, <2>5
<1>15. HashPart(f[N])  BY <1>12 DEF Sound
<1>16. Cardinality(Keyed(f[N])) \in Nat  BY <1>15, OneMore
<1>17. Cardinality(Keyed(f[N])) <= Cardinality(M)
  <2>1. Cardinality(Keyed(f[N])) <= Cardinality(Upto(N))  BY <1>12
  <2> HIDE DEF Upto, M, N
  <2> QED BY <2>1, <1>5, <1>13, <1>16
<1>18. Sound(f[N]) /\ sizearray(f[N]) = nasize /\ sizenode(f[N]) = size  BY <1>12
<1> HIDE DEF Set, Upto, u0, F, N, Done, S
<1> QED BY <1>5, <1>7, <1>14, <1>17, <1>18

(***************************************************************************)
(* computesizes: the counts of keys up to each power of 2 lead to the       *)
(* largest size that more than half of is in use.                          *)
(***************************************************************************)
Turn(nums, narray, i, l) ==
  LET a == l.a + nums[i - 1]
  IN  IF 2^(i - 1) \div 2 >= narray \/ l.a = narray THEN l
      ELSE IF nums[i - 1] > 0 /\ a > 2^(i - 1) \div 2
      THEN [a |-> a, n |-> 2^(i - 1)]
      ELSE [a |-> a, n |-> l.n]
Sums == [a : Nat, n : Nat]

(* The loop of computesizes, turn by turn.                                 *)
LEMMA SizesUnfold ==
  ASSUME NEW nums \in [0..MaxBits -> Nat], NEW narray
  PROVE  \E after \in [0..(MaxBits + 1) -> Sums] :
           /\ after[0] = [a |-> 0, n |-> 0]
           /\ \A i \in 1..(MaxBits + 1) : after[i] = Turn(nums, narray, i, after[i - 1])
           /\ computesizes(nums, narray) = after[MaxBits + 1].n
<1> DEFINE X == Sums
           b == [a |-> 0, n |-> 0]
           N == MaxBits + 1
           turn(i, l) == Turn(nums, narray, i, l)
           G == [i \in 1..N |-> [l \in X |-> turn(i, l)]]
           Eqn(f) == f = [i \in 0..N |-> IF i = 0 THEN b ELSE turn(i, f[i - 1])]
           after == CHOOSE f : Eqn(f)
<1>1. N \in Nat /\ b \in X  BY TableAssumption DEF TableAssumption, Sums
<1>2. ASSUME NEW i \in 1..N, NEW l \in X PROVE turn(i, l) \in X
  <2>1. i - 1 \in 0..MaxBits /\ i - 1 \in Nat  BY TableAssumption DEF TableAssumption
  <2>2. nums[i - 1] \in Nat /\ 2^(i - 1) \in Nat  BY <2>1, Power
  <2> DEFINE x == 2^(i - 1)
             y == nums[i - 1]
  <2>3. x \in Nat /\ y \in Nat  BY <2>2
  <2>4. turn(i, l) \in {l, [a |-> l.a + y, n |-> x], [a |-> l.a + y, n |-> l.n]}  BY DEF Turn
  <2> HIDE DEF x, y, turn
  <2>5. l.a + y \in Nat /\ l.n \in Nat  BY <2>3 DEF Sums
  <2> QED BY <2>3, <2>4, <2>5 DEF Sums
<1>3. G \in [1..N -> [X -> X]]
  <2> HIDE DEF turn, X
  <2> QED BY <1>2
<1>4. \A i \in 1..N, l \in X : G[i][l] = turn(i, l)  OBVIOUS
<1>5. computesizes(nums, narray) = after[N].n  BY DEF computesizes, Turn
<1> HIDE DEF G, X, b, N, turn
<1>6. PICK f \in [0..N -> X] : f[0] = b /\ \A i \in 1..N : f[i] = G[i][f[i - 1]]
  BY <1>1, <1>3, Iterated
<1>7. Eqn(f)
  <2>1. \A i \in 0..N : f[i] = IF i = 0 THEN b ELSE turn(i, f[i - 1])
    <3> TAKE i \in 0..N
    <3>1. i # 0 => i \in 1..N /\ i - 1 \in 0..N  BY <1>1
    <3> QED BY <3>1, <1>4, <1>6
  <2> QED BY <2>1
<1>8. Eqn(after)
  <2> HIDE DEF Eqn
  <2> QED BY <1>7
<1> HIDE DEF after
<1>9. \A i \in 1..N : i \in 0..N /\ i # 0 /\ i - 1 \in 0..N  BY <1>1
<1>10. after[0] = b /\ \A i \in 1..N : after[i] = turn(i, after[i - 1])
  BY <1>1, <1>8, <1>9
<1>11. after \in [0..N -> X]
  <2> DEFINE S == {i \in 0..N : after[i] \in X}
  <2>1. 0 \in S  BY <1>1, <1>10
  <2>2. ASSUME NEW i \in 0..N, i \in S, i < N PROVE i + 1 \in S
    <3>1. i + 1 \in 1..N /\ i + 1 \in 0..N /\ (i + 1) - 1 = i  BY <1>1, <2>2
    <3>2. after[i + 1] = turn(i + 1, after[i])
      <4>1. after[i + 1] = turn(i + 1, after[(i + 1) - 1])  BY <1>10, <3>1
      <4> QED BY <3>1, <4>1
    <3> QED BY <3>1, <3>2, <2>2, <1>2
  <2>3. 0..N \subseteq S
    <3> HIDE DEF S
    <3> QED BY <1>1, <2>1, <2>2, IntervalSets
  <2>4. \A i \in 0..N : after[i] \in X  BY <2>3
  <2> QED BY <2>4, <1>8
<1> QED BY <1>5, <1>10, <1>11 DEF X, b, N, turn

Below(K, p) == {k \in K : k <= 2^p}

(* How many keys are at most a power of two, and between two of them.      *)
LEMMA Counts ==
  ASSUME NEW K \in SUBSET (Nat \ {0}), IsFiniteSet(K), NEW p \in Nat
  PROVE  /\ Cardinality(Below(K, p)) \in Nat /\ Cardinality(Below(K, p)) <= 2^p
         /\ Cardinality(Below(K, p)) <= Cardinality(K)
         /\ Cardinality({k \in K : ceillog2(k) = p}) \in Nat
         /\ p = 0 => Cardinality(Below(K, 0)) = Cardinality({k \in K : ceillog2(k) = 0})
         /\ Cardinality(Below(K, p + 1))
              = Cardinality(Below(K, p)) + Cardinality({k \in K : ceillog2(k) = p + 1})
<1> DEFINE B(q) == Below(K, q)
           E(q) == {k \in K : ceillog2(k) = q}
           w == 2^p
<1>1. w \in Nat  BY Power
<1>2. \A q \in Nat : B(q) = {k \in K : ceillog2(k) <= q}
  <2> TAKE q \in Nat
  <2>1. \A k \in K : ceillog2(k) <= q <=> k <= 2^q  BY CeilLog
  <2> QED BY <2>1 DEF Below
<1>3. \A k \in K : ceillog2(k) \in Nat
  <2> TAKE k \in K
  <2>1. ceillog2(k) \in 0..k /\ k \in Nat  BY CeilLog
  <2> QED BY <2>1
<1>4. B(p) \subseteq 1..w
  <2> HIDE DEF w
  <2>1. \A k \in B(p) : k \in Nat /\ k # 0 /\ k <= w  BY DEF Below, w
  <2> HIDE DEF B
  <2> QED BY <2>1, <1>1
<1>5. \A q : B(q) \subseteq K /\ E(q) \subseteq K  BY DEF Below
<1>6. p \in Nat /\ p + 1 \in Nat  OBVIOUS
<1>7. B(p + 1) = B(p) \cup E(p + 1) /\ B(p) \cap E(p + 1) = {}
  <2>1. B(p + 1) = {k \in K : ceillog2(k) <= p + 1} /\ B(p) = {k \in K : ceillog2(k) <= p}
    BY <1>2, <1>6
  <2> HIDE DEF B
  <2>2. \A k \in K : /\ ceillog2(k) <= p + 1 <=> ceillog2(k) <= p \/ ceillog2(k) = p + 1
                     /\ ~ (ceillog2(k) <= p /\ ceillog2(k) = p + 1)
    BY <1>3
  <2> QED BY <2>1, <2>2
<1>8. B(0) = E(0)
  <2>1. B(0) = {k \in K : ceillog2(k) <= 0}  BY <1>2
  <2> HIDE DEF B
  <2>2. \A k \in K : ceillog2(k) <= 0 <=> ceillog2(k) = 0  BY <1>3
  <2> QED BY <2>1, <2>2
<1> HIDE DEF B, E, w
<1>9. \A q : /\ IsFiniteSet(B(q)) /\ IsFiniteSet(E(q))
             /\ Cardinality(B(q)) \in Nat /\ Cardinality(E(q)) \in Nat
             /\ Cardinality(B(q)) <= Cardinality(K)
  BY <1>5, FS_Subset, FS_CardinalityType
<1>10. Cardinality(B(p)) <= w
  <2>1. IsFiniteSet(1..w) /\ Cardinality(1..w) = w  BY <1>1, FS_Interval
  <2> QED BY <2>1, <1>4, FS_Subset
<1>11. Cardinality(B(p + 1)) = Cardinality(B(p)) + Cardinality(E(p + 1))
  <2>1. Cardinality(B(p) \cup E(p + 1))
          = Cardinality(B(p)) + Cardinality(E(p + 1)) - Cardinality(B(p) \cap E(p + 1))
    BY <1>9, FS_Union
  <2>2. Cardinality(B(p) \cap E(p + 1)) = 0  BY <1>7, FS_EmptySet
  <2>3. Cardinality(B(p)) \in Nat /\ Cardinality(E(p + 1)) \in Nat  BY <1>9
  <2>4. Cardinality(B(p + 1)) = Cardinality(B(p)) + Cardinality(E(p + 1)) - 0
    BY <2>1, <2>2, <1>7
  <2> QED BY <2>3, <2>4
<1> QED BY <1>8, <1>9, <1>10, <1>11 DEF B, E, w

(* computesizes, given the counts of numusehash and numusearray, chooses   *)
(* the largest array size that more than half of is used.                  *)
LEMMA SizeChosen ==
  ASSUME NEW K \in SUBSET (Nat \ {0}), IsFiniteSet(K), NEW nums \in [0..MaxBits -> Nat],
         \A l \in 0..MaxBits : nums[l] = Cardinality({k \in K : ceillog2(k) = l})
  PROVE  /\ computesizes(nums, Cardinality(K)) \in HalfUsed(K)
         /\ \A m \in HalfUsed(K) : m <= computesizes(nums, Cardinality(K))
<1> DEFINE narray == Cardinality(K)
           X == Sums
           b == [a |-> 0, n |-> 0]
           N == MaxBits + 1
           w(i) == 2^i
           c(i) == Cardinality(Below(K, i))
           cc(i) == IF i = 0 THEN 0 ELSE c(i - 1)
           turn(i, l) == Turn(nums, narray, i, l)
           Half(i) == 2 * c(i) > w(i)
           Good(i, l) == /\ l \in X
                         /\ l.n = 0 \/ \E q \in 0..MaxBits : l.n = w(q) /\ Half(q)
                         /\ \A q \in 0..(i - 1) : Half(q) => w(q) <= l.n
                         /\ l.a = cc(i) \/ (i # 0 /\ narray <= w(i - 1) \div 2)
<1>1. N \in Nat /\ MaxBits \in Nat /\ b \in X  BY TableAssumption DEF TableAssumption, Sums
<1>2. \A i \in Nat : w(i) \in Nat /\ i < w(i) /\ w(i + 1) = 2 * w(i)
  BY Power, PowerGrows, PowerNext
<1>3. w(0) = 1 /\ \A i, j \in Nat : i <= j => w(i) <= w(j)
  BY PowerZero, PowerMonotone
<1>4. narray \in Nat  BY FS_CardinalityType
<1>5. \A i \in Nat : /\ c(i) \in Nat /\ c(i) <= w(i) /\ c(i) <= narray
  BY Counts
<1>6. \A i \in 0..MaxBits : nums[i] \in Nat /\ c(i) = cc(i) + nums[i]
  <2> TAKE i \in 0..MaxBits
  <2>1. nums[i] = Cardinality({k \in K : ceillog2(k) = i}) /\ i \in Nat  BY <1>1
  <2>2. nums[i] \in Nat  BY <2>1, Counts
  <2>3. CASE i = 0
    <3>1. c(0) = nums[0]  BY <2>1, <2>3, Counts
    <3> HIDE DEF c
    <3> QED BY <2>2, <2>3, <3>1
  <2>4. CASE i # 0
    <3>1. i - 1 \in Nat /\ (i - 1) + 1 = i  BY <2>1, <2>4
    <3>2. c((i - 1) + 1) = c(i - 1) + Cardinality({k \in K : ceillog2(k) = (i - 1) + 1})
      BY <3>1, Counts
    <3>3. c(i) = c(i - 1) + nums[i]
      <4> HIDE DEF c
      <4> QED BY <2>1, <3>1, <3>2
    <3> HIDE DEF c
    <3> QED BY <2>2, <2>4, <3>3
  <2> QED BY <2>3, <2>4
<1>7. PICK after \in [0..N -> X] :
         /\ after[0] = b /\ \A i \in 1..N : after[i] = turn(i, after[i - 1])
         /\ computesizes(nums, narray) = after[N].n
  BY SizesUnfold
<1>8. ASSUME NEW q \in 0..MaxBits
      PROVE  w(q) # 0 /\ (w(q) \in HalfUsed(K) <=> Half(q))
  <2>1. q \in Nat /\ w(q) \in Nat /\ w(q) # 0  BY <1>1, <1>2
  <2>2. {k \in K : k <= w(q)} = Below(K, q)  BY DEF Below
  <2>3. w(q) \in HalfUsed(K) <=> w(q) = 0 \/ 2 * Cardinality({k \in K : k <= w(q)}) > w(q)
    BY DEF HalfUsed
  <2> HIDE DEF w
  <2> QED BY <2>1, <2>2, <2>3
<1>9. /\ 0 \in HalfUsed(K)
      /\ \A m \in HalfUsed(K) : m = 0 \/ \E q \in 0..MaxBits : m = w(q)
  BY DEF HalfUsed
<1>10. \A i \in Nat : \A l : turn(i + 1, l) =
         IF w(i) \div 2 >= narray \/ l.a = narray THEN l
         ELSE IF nums[i] > 0 /\ l.a + nums[i] > w(i) \div 2
         THEN [a |-> l.a + nums[i], n |-> w(i)]
         ELSE [a |-> l.a + nums[i], n |-> l.n]
  <2> TAKE i \in Nat
  <2> TAKE l
  <2>1. (i + 1) - 1 = i  OBVIOUS
  <2> QED BY <2>1 DEF Turn
<1> HIDE DEF w, c, narray, turn
<1>12. Good(0, b)  BY <1>1
<1>13. ASSUME NEW i \in 0..MaxBits, NEW l, Good(i, l) PROVE Good(i + 1, turn(i + 1, l))
  <2> DEFINE h == w(i) \div 2
             y == nums[i]
             u == turn(i + 1, l)
  <2>1. i \in Nat /\ (i + 1) - 1 = i /\ i + 1 \in 1..N /\ i + 1 # 0  BY <1>1
  <2>2. w(i) \in Nat /\ c(i) \in Nat /\ y \in Nat /\ c(i) = cc(i) + y /\ c(i) <= narray
    BY <2>1, <1>2, <1>5, <1>6
  <2>3. h \in Nat /\ 2 * h <= w(i) /\ w(i) <= 2 * h + 1  BY <2>2
  <2>4. cc(i) <= h /\ cc(i) \in Nat
    <3>1. CASE i = 0  BY <3>1, <2>3
    <3>2. CASE i # 0
      <4>1. i - 1 \in Nat /\ (i - 1) + 1 = i  BY <2>1, <3>2
      <4>2. c(i - 1) <= w(i - 1) /\ c(i - 1) \in Nat /\ w(i - 1) \in Nat /\ w((i - 1) + 1) = 2 * w(i - 1)
        BY <4>1, <1>2, <1>5
      <4>3. w(i) = 2 * w(i - 1)  BY <4>1, <4>2
      <4>4. c(i - 1) <= h  BY <2>3, <4>2, <4>3
      <4>5. cc(i) = c(i - 1)  BY <3>2
      <4> QED BY <4>2, <4>4, <4>5
    <3> QED BY <3>1, <3>2
  <2>5. /\ l \in X
        /\ l.n = 0 \/ \E q \in 0..MaxBits : l.n = w(q) /\ Half(q)
        /\ \A q \in 0..(i - 1) : Half(q) => w(q) <= l.n
    BY <1>13
  <2>6. l.a = cc(i) \/ narray <= h
    <3>1. CASE l.a = cc(i)  BY <3>1
    <3>2. CASE i # 0 /\ narray <= w(i - 1) \div 2
      <4>1. i - 1 \in Nat /\ i - 1 <= i  BY <2>1, <3>2
      <4>2. w(i - 1) <= w(i) /\ w(i - 1) \in Nat  BY <4>1, <2>1, <1>2, <1>3
      <4>3. w(i - 1) \div 2 <= h /\ w(i - 1) \div 2 \in Nat  BY <2>2, <2>3, <4>2
      <4> DEFINE z == w(i - 1) \div 2
      <4>4. narray <= z /\ z <= h /\ z \in Nat  BY <3>2, <4>3
      <4> HIDE DEF z, h
      <4> QED BY <4>4, <2>3, <1>4
    <3> QED BY <3>1, <3>2, <1>13
  <2>7. cc(i + 1) = c(i)  BY <2>1
  <2>8. u = IF h >= narray \/ l.a = narray THEN l
            ELSE IF y > 0 /\ l.a + y > h
            THEN [a |-> l.a + y, n |-> w(i)]
            ELSE [a |-> l.a + y, n |-> l.n]
    BY <2>1, <1>10
  <2>9. h = w((i + 1) - 1) \div 2  BY <2>1
  <2> HIDE DEF h, y, cc, u
  <2>10. \A q \in 0..((i + 1) - 1) : q = i \/ q \in 0..(i - 1)  BY <2>1
  <2>11. CASE h >= narray \/ l.a = narray
    <3>1. narray <= h  BY <2>3, <2>4, <2>6, <2>11, <1>4
    <3>2. ~ Half(i)  BY <3>1, <2>2, <2>3, <1>4
    <3>3. u = l  BY <2>8, <2>11
    <3>4. \A q \in 0..((i + 1) - 1) : Half(q) => w(q) <= u.n
      BY <2>5, <2>10, <3>2, <3>3
    <3>5. narray <= w((i + 1) - 1) \div 2  BY <3>1, <2>9
    <3> HIDE DEF Half
    <3> QED BY <2>1, <2>5, <3>3, <3>4, <3>5 DEF u
  <2>12. CASE ~ (h >= narray \/ l.a = narray)
    <3>1. l.a = cc(i)  BY <2>3, <2>6, <2>12, <1>4
    <3>2. l.a + y = c(i)  BY <2>2, <3>1
    <3>3. CASE y > 0 /\ l.a + y > h
      <4>1. u = [a |-> c(i), n |-> w(i)]  BY <2>8, <2>12, <3>2, <3>3
      <4>2. Half(i)  BY <2>2, <2>3, <3>2, <3>3
      <4>3. \A q \in 0..((i + 1) - 1) : w(q) <= w(i)
        <5> TAKE q \in 0..((i + 1) - 1)
        <5>1. q \in Nat /\ q <= i  BY <2>1
        <5> QED BY <5>1, <2>1, <1>3
      <4>4. u \in X /\ u.n = w(i) /\ u.a = cc(i + 1)  BY <2>2, <2>7, <4>1 DEF Sums
      <4> HIDE DEF Half
      <4> QED BY <4>2, <4>3, <4>4 DEF u
    <3>4. CASE ~ (y > 0 /\ l.a + y > h)
      <4>1. u = [a |-> c(i), n |-> l.n]  BY <2>8, <2>12, <3>2, <3>4
      <4>2. ~ Half(i)  BY <2>2, <2>3, <2>4, <3>2, <3>4
      <4>3. u \in X /\ u.n = l.n /\ u.a = cc(i + 1)  BY <2>2, <2>5, <2>7, <4>1 DEF Sums
      <4>4. \A q \in 0..((i + 1) - 1) : Half(q) => w(q) <= u.n
        BY <2>5, <2>10, <4>2, <4>3
      <4> HIDE DEF Half
      <4> QED BY <2>5, <4>3, <4>4 DEF u
    <3> QED BY <3>3, <3>4
  <2> QED BY <2>11, <2>12
<1> HIDE DEF Good, X, b, N
<1> DEFINE J == {i \in 0..N : Good(i, after[i])}
<1>19. 0 \in J  BY <1>1, <1>7, <1>12
<1>20. ASSUME NEW i \in 0..N, i \in J, i < N PROVE i + 1 \in J
  <2>1. i + 1 \in 0..N /\ i + 1 # 0 /\ (i + 1) - 1 = i /\ i \in 0..MaxBits
    BY <1>1, <1>20 DEF N
  <2>2. after[i + 1] = turn(i + 1, after[i])
    <3>1. i + 1 \in 1..N  BY <1>1, <1>20
    <3>2. after[i + 1] = turn(i + 1, after[(i + 1) - 1])  BY <1>7, <3>1
    <3> QED BY <2>1, <3>2
  <2> QED BY <1>13, <1>20, <2>1, <2>2
<1>21. 0..N \subseteq J
  <2> HIDE DEF J
  <2> QED BY <1>1, <1>19, <1>20, IntervalSets
<1>22. Good(N, after[N])  BY <1>1, <1>21
<1> DEFINE n == computesizes(nums, narray)
<1>23. /\ n \in Nat
       /\ n = 0 \/ \E q \in 0..MaxBits : n = w(q) /\ Half(q)
       /\ \A q \in 0..MaxBits : Half(q) => w(q) <= n
  <2>1. n = after[N].n /\ 0..(N - 1) = 0..MaxBits  BY <1>1, <1>7 DEF N
  <2> HIDE DEF n, Half
  <2> QED BY <2>1, <1>22 DEF Good, X, Sums
<1> HIDE DEF n, Half
<1>24. n \in HalfUsed(K)  BY <1>8, <1>9, <1>23
<1>25. \A m \in HalfUsed(K) : m <= n
  <2> TAKE m \in HalfUsed(K)
  <2>1. CASE m = 0  BY <2>1, <1>23
  <2>2. CASE m # 0
    <3>1. PICK q \in 0..MaxBits : m = w(q)  BY <2>2, <1>9
    <3> QED BY <3>1, <1>8, <1>23
  <2> QED BY <2>1, <2>2
<1> QED BY <1>24, <1>25 DEF n, narray

(***************************************************************************)
(* rehash, and the slot that luaH_set finds or makes.                       *)
(***************************************************************************)
LEMMA ArraySize ==
  ASSUME NEW nums \in [0..MaxBits -> Nat], NEW narray
  PROVE  computesizes(nums, narray) \in Nat
<1>1. PICK after \in [0..(MaxBits + 1) -> Sums] :
         computesizes(nums, narray) = after[MaxBits + 1].n
  BY SizesUnfold
<1>2. MaxBits + 1 \in 0..(MaxBits + 1)  BY TableAssumption DEF TableAssumption
<1>3. after[MaxBits + 1] \in Sums  BY <1>2
<1> QED BY <1>1, <1>3 DEF Sums

(* The parts of rehash.                                                     *)
KeyFor(t, k, i) == IF i = 0 THEN k ELSE KeyAt(t, i)
Counted(t) == UsedSlots(t) \cup {0}
Ints(t, k) == {i \in Counted(t) : arrayindex(KeyFor(t, k, i))}
Nums(t, k) ==
  [l \in 0..MaxBits |-> Cardinality({i \in Ints(t, k) : ceillog2(KeyFor(t, k, i)) = l})]
ArrayFor(t, k) == computesizes(Nums(t, k), Cardinality(Ints(t, k)))
Low(t, k) == {i \in Ints(t, k) : KeyFor(t, k, i) <= ArrayFor(t, k)}
NodesFor(t, k) == Cardinality(Counted(t)) - Cardinality(Low(t, k))

(* The keys that do not go to the array part get nodes, and so can k.       *)
LEMMA Rehashes ==
  ASSUME NEW t, Sound(t), NEW k \in Keys
  PROVE  /\ Sound(rehash(t, k))
         /\ \A j \in Keys : luaH_get(rehash(t, k), j) = luaH_get(t, j)
         /\ IsPresent(rehash(t, k), k) \/ HasRoom(rehash(t, k), k)
         /\ sizenode(rehash(t, k)) = 0
              \/ \E l \in 0..sizenode(rehash(t, k)) : sizenode(rehash(t, k)) = 2^l
         /\ sizearray(rehash(t, k)) = ArrayFor(t, k) /\ NodesFor(t, k) \in Nat
         /\ sizenode(rehash(t, k)) = nodevectorsize(NodesFor(t, k))
<1> DEFINE key(i) == KeyFor(t, k, i)
           used == Counted(t)
           ints == Ints(t, k)
           nums == Nums(t, k)
           nasize == ArrayFor(t, k)
           low == Low(t, k)
           nhsize == NodesFor(t, k)
           u == rehash(t, k)
<1>1. u = resize(t, nasize, nhsize)
  BY DEF rehash, ArrayFor, NodesFor, Low, Nums, Ints, Counted, KeyFor
<1> USE DEF KeyFor, Counted, Ints, Nums, Low
<1>2. sizearray(t) \in Nat /\ sizenode(t) \in Nat
  BY DEF Sound, ArrayPart, HashPart, sizearray
<1>3. /\ IsFiniteSet(UsedSlots(t)) /\ 0 \notin UsedSlots(t)
      /\ IsFiniteSet(used) /\ low \subseteq ints /\ ints \subseteq used
  <2>1. UsedSlots(t) \subseteq 1..(sizearray(t) + sizenode(t))  BY DEF UsedSlots
  <2>2. IsFiniteSet(1..(sizearray(t) + sizenode(t)))  BY <1>2, FS_Interval
  <2>3. IsFiniteSet(UsedSlots(t))  BY <2>1, <2>2, FS_Subset
  <2>4. IsFiniteSet(used)  BY <2>3, FS_AddElement
  <2> QED BY <2>1, <2>3, <2>4
<1>4. nasize \in Nat
  <2>1. ASSUME NEW l \in 0..MaxBits
        PROVE  Cardinality({i \in ints : ceillog2(key(i)) = l}) \in Nat
    <3>1. {i \in ints : ceillog2(key(i)) = l} \subseteq used  OBVIOUS
    <3> QED BY <3>1, <1>3, FS_Subset, FS_CardinalityType
  <2>2. nums \in [0..MaxBits -> Nat]  BY <2>1
  <2> HIDE DEF Nums, Ints
  <2> QED BY <2>2, ArraySize DEF ArrayFor
<1> HIDE DEF Nums
<1> DEFINE M == Moving(t, nasize)
           rest == UsedSlots(t) \ low
           s(i) == SlotAt(t, nasize, i)
<1>5. /\ M \subseteq Kinds(t, nasize) /\ \A i \in M : s(i) \in rest
      /\ \A i, j \in M : s(i) = s(j) => i = j
  <2>1. M \subseteq Kinds(t, nasize)  BY DEF Moving
  <2>2. ASSUME NEW i \in M PROVE s(i) \in rest
    <3>1. /\ Fields(t, nasize)[i].key = KeyAt(t, s(i))
          /\ Fields(t, nasize)[i].val = ValueAt(t, s(i))
          /\ s(i) \in 1..(sizearray(t) + sizenode(t))
      BY <2>1, <1>4, FieldsOf
    <3>2. s(i) \in UsedSlots(t) /\ ~ (KeyAt(t, s(i)) \in IntKeys /\ KeyAt(t, s(i)) <= nasize)
      BY <3>1 DEF Moving, UsedSlots
    <3>3. key(s(i)) = KeyAt(t, s(i))  BY <3>1, <1>2
    <3> QED BY <3>2, <3>3 DEF arrayindex
  <2>3. \A i, j \in M : s(i) = s(j) => i = j  BY <2>1, <1>4, FieldsOf
  <2> QED BY <2>1, <2>2, <2>3
<1> HIDE DEF key, ints, low, u, KeyFor, Ints, Low
<1>6. IsFiniteSet(rest) /\ Cardinality(rest) \in Nat  BY <1>3, FS_Subset, FS_CardinalityType
<1>7. Cardinality(M) <= Cardinality(rest) /\ Cardinality(M) \in Nat /\ IsFiniteSet(M)
  <2> DEFINE f == [i \in M |-> s(i)]
  <2>1. f \in [M -> rest] /\ \A i, j \in M : f[i] = f[j] => i = j  BY <1>5
  <2>2. IsFiniteSet(M)
    <3>1. IsFiniteSet(Kinds(t, nasize))  BY <1>4, FieldsOf, FS_Interval DEF Kinds
    <3> QED BY <3>1, <1>5, FS_Subset
  <2> HIDE DEF f, M, rest
  <2>3. f \in Injection(M, rest)  BY <2>1 DEF Injection, IsInjective
  <2> QED BY <2>2, <2>3, <1>6, FS_Injection, FS_CardinalityType
<1>8. /\ nhsize = Cardinality(used \ low) /\ nhsize \in Nat
      /\ Cardinality(rest) <= nhsize /\ (0 \notin low => nhsize = Cardinality(rest) + 1)
  <2>1. IsFiniteSet(low) /\ IsFiniteSet(used \ low)  BY <1>3, FS_Subset
  <2>2. low \cap used = low /\ used \cap low = low  BY <1>3
  <2>3. Cardinality(used \ low) = Cardinality(used) - Cardinality(used \cap low)
    BY <1>3, FS_Difference
  <2>4. nhsize = Cardinality(used \ low)  BY <2>2, <2>3 DEF NodesFor, low, used
  <2>5. Cardinality(used \ low) \in Nat  BY <2>1, FS_CardinalityType
  <2>6. Cardinality(rest) <= Cardinality(used \ low)
    <3>1. rest \subseteq used \ low  OBVIOUS
    <3> QED BY <3>1, <2>1, FS_Subset
  <2>7. 0 \notin low => Cardinality(used \ low) = Cardinality(rest) + 1
    <3>1. 0 \notin low => used \ low = rest \cup {0} /\ 0 \notin rest  BY <1>3
    <3> QED BY <3>1, <1>6, FS_AddElement
  <2> HIDE DEF nhsize
  <2> QED BY <2>4, <2>5, <2>6, <2>7
<1> HIDE DEF nhsize, rest
<1> DEFINE size == nodevectorsize(nhsize)
<1>9. size \in Nat /\ nhsize <= size /\ (size = 0 \/ \E l \in 0..size : size = 2^l)
  BY <1>8, VectorSize
<1>10. Cardinality(M) <= size
  <2> HIDE DEF M, size
  <2> QED BY <1>6, <1>7, <1>8, <1>9
<1>11. /\ Sound(u) /\ sizearray(u) = nasize /\ sizenode(u) = size
       /\ Cardinality(Keyed(u)) <= Cardinality(M)
       /\ \A j \in Keys : luaH_get(u, j) = luaH_get(t, j)
  <2>1. nhsize \in Nat  BY <1>8
  <2>2. Cardinality(Moving(t, nasize)) <= nodevectorsize(nhsize)  BY <1>10
  <2> QED BY <1>1, <1>4, <2>1, <2>2, Rebuilds
<1>12. IsPresent(u, k) \/ HasRoom(u, k)
  <2>1. CASE 0 \in low
    <3>1. k \in IntKeys /\ k <= nasize  BY <2>1, <1>3 DEF low, ints, key, arrayindex, Low, Ints, KeyFor
    <3>2. InArray(u, k)  BY <3>1, <1>11 DEF InArray
    <3> QED BY <3>2 DEF IsPresent
  <2>2. CASE 0 \notin low
    <3>1. HashPart(u)  BY <1>11 DEF Sound
    <3>2. Cardinality(Keyed(u)) \in Nat  BY <3>1, OneMore
    <3> HIDE DEF M, size
    <3>3. Cardinality(Keyed(u)) < sizenode(u)
      BY <2>2, <3>2, <1>6, <1>7, <1>8, <1>9, <1>11
    <3> QED BY <3>3, <1>11, RoomLeft
  <2> QED BY <2>1, <2>2
<1>13. sizearray(u) = ArrayFor(t, k) /\ sizenode(u) = nodevectorsize(NodesFor(t, k)) /\ NodesFor(t, k) \in Nat
  BY <1>8, <1>11 DEF nhsize
<1> HIDE DEF size
<1> QED BY <1>9, <1>11, <1>12, <1>13 DEF u

SizeOK(t) == sizenode(t) = 0 \/ \E l \in 0..sizenode(t) : sizenode(t) = 2^l

(* luaH_set leaves a field for the key and changes no other; without a     *)
(* free node it does so by a rehash, whose sizes stay.                     *)
LEMMA Sets ==
  ASSUME NEW t, Sound(t), SizeOK(t), NEW k \in Keys
  PROVE  /\ Sound(luaH_set(t, k)) /\ SizeOK(luaH_set(t, k)) /\ IsPresent(luaH_set(t, k), k)
         /\ \A j \in Keys : luaH_get(luaH_set(t, k), j) = luaH_get(t, j)
         /\ ~ IsPresent(t, k) /\ ~ HasRoom(t, k) =>
              /\ sizearray(luaH_set(t, k)) = sizearray(rehash(t, k))
              /\ sizenode(luaH_set(t, k)) = sizenode(rehash(t, k))
<1> DEFINE w == rehash(t, k)
           u == luaH_set(t, k)
<1>1. ASSUME NEW x, Sound(x), SizeOK(x), ~ IsPresent(x, k), HasRoom(x, k), luaH_get(x, k) = Nil
      PROVE  /\ Sound(newkey(x, k)) /\ SizeOK(newkey(x, k)) /\ IsPresent(newkey(x, k), k)
             /\ \A j \in Keys : luaH_get(newkey(x, k), j) = luaH_get(x, j)
             /\ sizearray(newkey(x, k)) = sizearray(x) /\ sizenode(newkey(x, k)) = sizenode(x)
  <2> DEFINE y == newkey(x, k)
  <2>1. MadeKey(x, k, y)  BY <1>1, NewKey
  <2> HIDE DEF y
  <2>2. /\ Sound(y) /\ SameShape(x, y) /\ WithLiveKey(y, k) # {} /\ luaH_get(y, k) = Nil
        /\ \A j \in Keys \ {k} : luaH_get(y, j) = luaH_get(x, j)
    BY <2>1 DEF MadeKey
  <2>3. IsPresent(y, k)  BY <2>2, Gets
  <2>4. sizenode(y) = sizenode(x) /\ sizearray(y) = sizearray(x)  BY <2>2, SameShapes
  <2>5. SizeOK(y)  BY <2>4, <1>1 DEF SizeOK
  <2> QED BY <2>2, <2>3, <2>4, <2>5, <1>1 DEF y
<1>2. ~ IsPresent(t, k) => luaH_get(t, k) = Nil
  BY DEF luaH_get, IsPresent
<1>3. CASE IsPresent(t, k)  BY <1>3 DEF luaH_set
<1>4. CASE ~ IsPresent(t, k) /\ HasRoom(t, k)
  <2>1. u = newkey(t, k)  BY <1>4 DEF luaH_set
  <2> QED BY <2>1, <1>1, <1>2, <1>4
<1>5. CASE ~ IsPresent(t, k) /\ ~ HasRoom(t, k)
  <2>1. /\ Sound(w) /\ SizeOK(w) /\ (IsPresent(w, k) \/ HasRoom(w, k))
        /\ \A j \in Keys : luaH_get(w, j) = luaH_get(t, j)
    BY Rehashes DEF SizeOK
  <2>2. u = IF IsPresent(w, k) THEN w ELSE newkey(w, k)  BY <1>5 DEF luaH_set
  <2> HIDE DEF w, u
  <2>3. CASE IsPresent(w, k)  BY <2>1, <2>2, <2>3 DEF u, w
  <2>4. CASE ~ IsPresent(w, k)
    <3>1. luaH_get(w, k) = Nil  BY <1>2, <1>5, <2>1
    <3>2. u = newkey(w, k)  BY <2>2, <2>4
    <3>3. /\ Sound(u) /\ SizeOK(u) /\ IsPresent(u, k)
          /\ \A j \in Keys : luaH_get(u, j) = luaH_get(w, j)
          /\ sizearray(u) = sizearray(w) /\ sizenode(u) = sizenode(w)
      BY <2>1, <2>4, <3>1, <3>2, <1>1
    <3> QED BY <2>1, <3>3 DEF u, w
  <2> QED BY <2>3, <2>4
<1> QED BY <1>3, <1>4, <1>5

(***************************************************************************)
(* The collector, and where findindex is while it works.                   *)
(***************************************************************************)
Reads(t, u) ==
  \A k \in Keys : /\ InArray(t, k) => luaH_get(u, k) = u.array[k]
                  /\ \A n \in WithLiveKey(t, k) : luaH_get(u, k) = u.node[n].val
                  /\ ~ InArray(t, k) /\ WithLiveKey(t, k) = {} => luaH_get(u, k) = Nil

(* A table that loses only values reads the same where it keeps them.      *)
LEMMA Collected ==
  ASSUME NEW t, Sound(t), NEW u, Kept(t, u),
         \A n \in Nodes(t) : u.node[n].dead => u.node[n].val = Nil,
         \A n \in Nodes(t) : t.node[n].key = NoKey => u.node[n].val = Nil /\ ~ u.node[n].dead,
         \A i \in 1..sizearray(t) : u.array[i] # Nil => i \in IntKeys
  PROVE  Sound(u) /\ Reads(t, u)
<1>1. Sound(u)  BY KeptSound
<1>2. PICK r, R : Chains(t, r, R) /\ Placed(t, r, R)  BY DEF Sound
<1>3. /\ \A k : InArray(u, k) <=> InArray(t, k)
      /\ Nodes(u) = Nodes(t)
      /\ \A n \in Nodes(t) : /\ u.node[n].key = t.node[n].key
                             /\ t.node[n].dead => u.node[n].dead
  BY KeptShape DEF Kept
<1>4. ASSUME NEW k \in Keys
      PROVE  WithLiveKey(u, k) = {n \in WithLiveKey(t, k) : ~ u.node[n].dead}
  BY <1>3 DEF WithLiveKey, WithKey, Nodes
<1>5. ASSUME NEW k \in Keys, NEW n \in WithLiveKey(t, k) PROVE luaH_get(u, k) = u.node[n].val
  <2>1. n \in Nodes(t) /\ t.node[n].key = k /\ k # NoKey
    BY TableAssumption DEF TableAssumption, WithLiveKey, WithKey, Nodes
  <2>2. CASE ~ u.node[n].dead
    <3>1. n \in WithLiveKey(u, k)  BY <2>2, <1>4
    <3> QED BY <3>1, <1>1, Gets
  <2>3. CASE u.node[n].dead
    <3>1. u.node[n].val = Nil  BY <2>1, <2>3
    <3>2. ~ t.node[n].dead  BY DEF WithLiveKey
    <3>3. \A m \in WithLiveKey(t, k) : m = n
      BY <1>2, <2>1, <3>2 DEF Placed, WithLiveKey, WithKey, Nodes
    <3>4. WithLiveKey(u, k) = {}  BY <2>3, <3>3, <1>4
    <3>5. ~ InArray(u, k)  BY <1>2, <1>3, <2>1 DEF Placed
    <3> QED BY <3>1, <3>4, <3>5, <1>1, Gets
  <2> QED BY <2>2, <2>3
<1>6. ASSUME NEW k \in Keys
      PROVE  /\ InArray(t, k) => luaH_get(u, k) = u.array[k]
             /\ ~ InArray(t, k) /\ WithLiveKey(t, k) = {} => luaH_get(u, k) = Nil
  BY <1>1, <1>3, <1>4, Gets
<1> QED BY <1>1, <1>5, <1>6 DEF Reads

(* A chain is the same in a table that kept its keys and links.            *)
LEMMA SameChained ==
  ASSUME NEW t, Sound(t), NEW u, Sound(u), Kept(t, u), sizenode(t) # 0,
         NEW S, S \subseteq Nodes(t), NEW n \in Nodes(t)
  PROVE  Chained(u, n, S) = Chained(t, n, S)
<1>1. PICK r, R : Chains(t, r, R) /\ Placed(t, r, R)  BY DEF Sound
<1>2. PICK q, Q : Chains(u, q, Q) /\ Placed(u, q, Q)  BY DEF Sound
<1>3. HashPart(t) /\ HashPart(u)  BY DEF Sound
<1>4. Nodes(u) = Nodes(t) /\ sizenode(u) = sizenode(t)  BY KeptShape
<1> DEFINE I == {l \in Nat : \A m \in Nodes(t) : r[m] < l => Chained(u, m, S) = Chained(t, m, S)}
<1>5. \A m \in Nodes(t) : /\ r[m] \in Nat /\ u.node[m].next = t.node[m].next
                          /\ t.node[m].next # NoNode =>
                               t.node[m].next \in Nodes(t) /\ r[t.node[m].next] < r[m]
  BY <1>1, <1>3 DEF Chains, Kept, HashPart, Parts, Entry
<1>6. 0 \in I
  <2>1. \A m \in Nodes(t) : ~ (r[m] < 0)  BY <1>5
  <2> QED BY <2>1
<1>7. ASSUME NEW l \in I PROVE l + 1 \in I
  <2> SUFFICES ASSUME NEW m \in Nodes(t), r[m] < l + 1
               PROVE  Chained(u, m, S) = Chained(t, m, S)
    OBVIOUS
  <2>1. /\ m \in S => Chained(t, m, S) = m
        /\ m \notin S /\ t.node[m].next = NoNode => Chained(t, m, S) = NoNode
        /\ m \notin S /\ t.node[m].next # NoNode =>
             Chained(t, m, S) = Chained(t, t.node[m].next, S)
    BY <1>1, <1>3, ChainedUnfolds
  <2>2. S \subseteq Nodes(u) /\ m \in Nodes(u) /\ sizenode(u) # 0  BY <1>4
  <2>3. /\ m \in S => Chained(u, m, S) = m
        /\ m \notin S /\ u.node[m].next = NoNode => Chained(u, m, S) = NoNode
        /\ m \notin S /\ u.node[m].next # NoNode =>
             Chained(u, m, S) = Chained(u, u.node[m].next, S)
    BY <1>2, <1>3, <2>2, ChainedUnfolds
  <2>4. t.node[m].next # NoNode =>
          Chained(u, t.node[m].next, S) = Chained(t, t.node[m].next, S)
    <3>1. t.node[m].next # NoNode => t.node[m].next \in Nodes(t) /\ r[t.node[m].next] < l
      BY <1>5
    <3> QED BY <3>1
  <2> QED BY <1>5, <2>1, <2>3, <2>4
<1>8. Nat \subseteq I
  <2> I \in SUBSET Nat  OBVIOUS
  <2> HIDE DEF I
  <2> QED BY <1>6, <1>7, NatSets
<1>9. r[n] + 1 \in I /\ r[n] < r[n] + 1
  <2> HIDE DEF I
  <2> QED BY <1>5, <1>8
<1> QED BY <1>9

(* findindex gives the same index in a table that kept its keys and links, *)
(* dead keys included.                                                     *)
LEMMA SameIndex ==
  ASSUME NEW t, Sound(t), NEW u, Sound(u), Kept(t, u)
  PROVE  /\ NoIndex(u) = NoIndex(t)
         /\ \A k \in Keys \cup {First} : findindex(u, k) = findindex(t, k)
<1>1. /\ sizenode(u) = sizenode(t) /\ Nodes(u) = Nodes(t) /\ sizearray(u) = sizearray(t)
      /\ \A k : mainposition(u, k) = mainposition(t, k) /\ (InArray(u, k) <=> InArray(t, k))
      /\ \A k : WithKey(u, k) = WithKey(t, k)
  BY KeptShape
<1>2. NoIndex(u) = NoIndex(t)  BY <1>1 DEF NoIndex
<1>3. ASSUME NEW k \in Keys
      PROVE  Chained(u, mainposition(u, k), WithKey(u, k))
               = Chained(t, mainposition(t, k), WithKey(t, k))
  <2>1. CASE sizenode(t) = 0  BY <2>1, <1>1 DEF Chained
  <2>2. CASE sizenode(t) # 0
    <3>1. HashPart(t)  BY DEF Sound
    <3>2. mainposition(t, k) \in Nodes(t)  BY <2>2, <3>1, MainPosition
    <3>3. WithKey(t, k) \subseteq Nodes(t)  BY DEF WithKey, Nodes
    <3>4. Chained(u, mainposition(t, k), WithKey(t, k))
            = Chained(t, mainposition(t, k), WithKey(t, k))
      BY <2>2, <3>2, <3>3, SameChained
    <3> QED BY <3>4, <1>1
  <2> QED BY <2>1, <2>2
<1>4. ASSUME NEW k \in Keys \cup {First} PROVE findindex(u, k) = findindex(t, k)
  <2>1. CASE k = First  BY <2>1 DEF findindex
  <2>2. CASE k # First  BY <2>2, <1>1, <1>2, <1>3 DEF findindex
  <2> QED BY <2>1, <2>2
<1> QED BY <1>2, <1>4

(* removeentry keeps the key and the link of a node, and makes dead only   *)
(* the key of an empty one.                                                *)
LEMMA Removed ==
  ASSUME NEW s, NEW n \in Entry(s)
  PROVE  /\ removeentry(n) \in Entry(s)
         /\ removeentry(n).key = n.key /\ removeentry(n).next = n.next
         /\ removeentry(n).val = n.val
         /\ n.dead => removeentry(n).dead
         /\ removeentry(n).dead => n.dead \/ (n.val = Nil /\ n.key # NoKey)
<1>1. CASE n.val = Nil /\ n.key \in StringKeys \cup ObjectKeys
  <2>1. removeentry(n) = [n EXCEPT !.dead = TRUE]  BY <1>1 DEF removeentry
  <2>2. n.key # NoKey  BY <1>1, TableAssumption DEF TableAssumption, Keys
  <2> QED BY <1>1, <2>1, <2>2 DEF Entry
<1>2. CASE ~ (n.val = Nil /\ n.key \in StringKeys \cup ObjectKeys)
  <2>1. removeentry(n) = n  BY <1>2 DEF removeentry
  <2> QED BY <2>1
<1> QED BY <1>1, <1>2

(* traversetable kills keys and leaves the map as it is.                   *)
LEMMA Traverses ==
  ASSUME NEW t, Sound(t), NEW u,
         u = [t EXCEPT !.node = [n \in DOMAIN t.node |-> removeentry(t.node[n])]]
  PROVE  /\ Sound(u) /\ Kept(t, u)
         /\ \A k \in Keys : luaH_get(u, k) = luaH_get(t, k)
<1>1. PICK r, R : Chains(t, r, R) /\ Placed(t, r, R)  BY DEF Sound
<1>2. /\ HashPart(t) /\ ArrayPart(t)
      /\ t = [array |-> t.array, node |-> t.node, lastfree |-> t.lastfree]
  BY DEF Sound
<1>3. \A n \in Nodes(t) : t.node[n] \in Entry(sizenode(t))  BY <1>2 DEF HashPart, Parts
<1> DEFINE node == [n \in Nodes(t) |-> removeentry(t.node[n])]
<1>4. \A n \in Nodes(t) :
        /\ node[n] \in Entry(sizenode(t))
        /\ node[n].key = t.node[n].key /\ node[n].next = t.node[n].next
        /\ node[n].val = t.node[n].val
        /\ t.node[n].dead => node[n].dead
        /\ node[n].dead => t.node[n].dead \/ (t.node[n].val = Nil /\ t.node[n].key # NoKey)
  BY <1>3, Removed
<1>5. u = [t EXCEPT !.node = node]  BY DEF Nodes
<1>6. DOMAIN node = Nodes(t)  OBVIOUS
<1> HIDE DEF node
<1>7. /\ u.array = t.array /\ u.node = node
      /\ u = [array |-> u.array, node |-> u.node, lastfree |-> t.lastfree]
  BY <1>2, <1>5
<1>8. node \in Parts(sizenode(t))  BY <1>2, <1>4, <1>6 DEF node, Parts, HashPart
<1>9. Kept(t, u)
  BY <1>2, <1>4, <1>6, <1>7, <1>8 DEF Kept, ArrayPart, sizearray, Nodes
<1>10. \A n \in Nodes(t) : u.node[n].dead => u.node[n].val = Nil
  BY <1>1, <1>4, <1>7 DEF Placed
<1>11. \A n \in Nodes(t) : t.node[n].key = NoKey => u.node[n].val = Nil /\ ~ u.node[n].dead
  BY <1>1, <1>4, <1>7 DEF Placed
<1>12. \A i \in 1..sizearray(t) : u.array[i] # Nil => i \in IntKeys
  BY <1>2, <1>7 DEF ArrayPart
<1>13. /\ Sound(u)
       /\ Reads(t, u)
  BY <1>9, <1>10, <1>11, <1>12, Collected
<1>14. ASSUME NEW k \in Keys PROVE luaH_get(u, k) = luaH_get(t, k)
  <2>1. /\ InArray(t, k) => luaH_get(u, k) = u.array[k]
        /\ \A n \in WithLiveKey(t, k) : luaH_get(u, k) = u.node[n].val
        /\ ~ InArray(t, k) /\ WithLiveKey(t, k) = {} => luaH_get(u, k) = Nil
    BY <1>13 DEF Reads
  <2>2. /\ InArray(t, k) => luaH_get(t, k) = t.array[k]
        /\ \A n \in WithLiveKey(t, k) : luaH_get(t, k) = t.node[n].val
        /\ ~ InArray(t, k) /\ WithLiveKey(t, k) = {} => luaH_get(t, k) = Nil
    BY Gets
  <2>3. \A n \in WithLiveKey(t, k) : n \in Nodes(t)  BY DEF WithLiveKey, WithKey, Nodes
  <2> QED BY <2>1, <2>2, <2>3, <1>4, <1>7
<1> QED BY <1>9, <1>13, <1>14

(* cleartable takes fields away that may go when the objects D do.          *)
cleared(n, D) ==
  IF n.val # Nil /\ iscleared(n.key, n.val, D)
  THEN removeentry([n EXCEPT !.val = Nil]) ELSE n

(* cleartable keeps the table sound, its keys where they are, and every    *)
(* field that refers to no object freed.                                   *)
LEMMA Clears ==
  ASSUME NEW t, Sound(t), NEW D, NEW u,
         u = [array |-> [i \in DOMAIN t.array |->
                           IF WeakValues /\ t.array[i] \in D THEN Nil ELSE t.array[i]],
              node |-> [n \in DOMAIN t.node |-> cleared(t.node[n], D)],
              lastfree |-> t.lastfree]
  PROVE  /\ Sound(u) /\ Kept(t, u)
         /\ \A k \in Keys : \/ luaH_get(u, k) = luaH_get(t, k)
                            \/ luaH_get(u, k) = Nil /\ iscleared(k, luaH_get(t, k), D)
<1>1. PICK r, R : Chains(t, r, R) /\ Placed(t, r, R)  BY DEF Sound
<1>2. /\ HashPart(t) /\ ArrayPart(t)
      /\ t = [array |-> t.array, node |-> t.node, lastfree |-> t.lastfree]
  BY DEF Sound
<1>3. \A n \in Nodes(t) : t.node[n] \in Entry(sizenode(t))  BY <1>2 DEF HashPart, Parts
<1> DEFINE node == [n \in Nodes(t) |-> cleared(t.node[n], D)]
           array == [i \in DOMAIN t.array |-> IF WeakValues /\ t.array[i] \in D THEN Nil ELSE t.array[i]]
<1>4. ASSUME NEW n \in Nodes(t)
      PROVE  /\ node[n] \in Entry(sizenode(t))
             /\ node[n].key = t.node[n].key /\ node[n].next = t.node[n].next
             /\ \/ node[n].val = t.node[n].val
                \/ node[n].val = Nil /\ iscleared(t.node[n].key, t.node[n].val, D)
             /\ t.node[n].dead => node[n].dead
             /\ node[n].dead => node[n].val = Nil
             /\ t.node[n].key = NoKey => node[n].val = Nil /\ ~ node[n].dead
  <2> DEFINE x == t.node[n]
             y == [x EXCEPT !.val = Nil]
  <2>1. x \in Entry(sizenode(t))  BY <1>3
  <2>2. node[n] = cleared(x, D)  OBVIOUS
  <2>3. (x.dead => x.val = Nil) /\ (x.key = NoKey => x.val = Nil /\ ~ x.dead)
    BY <1>1 DEF Placed
  <2> HIDE DEF node, x
  <2>4. CASE x.val # Nil /\ iscleared(x.key, x.val, D)
    <3>1. y \in Entry(sizenode(t)) /\ y.val = Nil /\ y.key = x.key /\ y.next = x.next /\ y.dead = x.dead
      BY <2>1 DEF Entry, V
    <3>2. node[n] = removeentry(y)  BY <2>2, <2>4 DEF cleared
    <3> HIDE DEF y
    <3>3. /\ removeentry(y) \in Entry(sizenode(t))
          /\ removeentry(y).key = y.key /\ removeentry(y).next = y.next
          /\ removeentry(y).val = y.val
          /\ y.dead => removeentry(y).dead
      BY <3>1, Removed
    <3> QED BY <2>3, <2>4, <3>1, <3>2, <3>3 DEF x
  <2>5. CASE ~ (x.val # Nil /\ iscleared(x.key, x.val, D))
    <3>1. node[n] = x  BY <2>2, <2>5 DEF cleared
    <3> QED BY <2>1, <2>3, <3>1 DEF x
  <2> QED BY <2>4, <2>5
<1>5. array \in Seq(V) /\ Len(array) = sizearray(t)
  <2>1. t.array \in Seq(V) /\ DOMAIN t.array = 1..sizearray(t) /\ sizearray(t) \in Nat
    BY <1>2 DEF ArrayPart, sizearray
  <2>2. array \in [1..sizearray(t) -> V]  BY <2>1 DEF V
  <2> HIDE DEF array
  <2> QED BY <2>1, <2>2
<1>6. \A i \in 1..sizearray(t) :
        array[i] = t.array[i] \/ (array[i] = Nil /\ WeakValues /\ t.array[i] \in D)
  <2>1. DOMAIN t.array = 1..sizearray(t)  BY <1>2 DEF ArrayPart, sizearray
  <2> QED BY <2>1
<1>7. DOMAIN node = Nodes(t)  OBVIOUS
<1>9. u = [array |-> array, node |-> node, lastfree |-> t.lastfree]  BY DEF Nodes
<1> HIDE DEF array
<1>10. node \in Parts(sizenode(t))
  <2>1. Nodes(t) = 0..(sizenode(t) - 1)  BY <1>2 DEF HashPart
  <2>2. node \in [Nodes(t) -> Entry(sizenode(t))]  BY <1>4
  <2> HIDE DEF node
  <2> QED BY <2>1, <2>2 DEF Parts
<1> HIDE DEF node
<1>11. u.array = array /\ u.node = node  BY <1>9
<1>12. Kept(t, u)
  <2>1. u = [array |-> u.array, node |-> u.node, lastfree |-> t.lastfree]  BY <1>9, <1>11
  <2> QED BY <2>1, <1>4, <1>5, <1>7, <1>10, <1>11 DEF Kept, sizearray, Nodes
<1>13. \A n \in Nodes(t) : u.node[n].dead => u.node[n].val = Nil  BY <1>4, <1>11
<1>14. \A n \in Nodes(t) : t.node[n].key = NoKey => u.node[n].val = Nil /\ ~ u.node[n].dead
  BY <1>4, <1>11
<1>15. \A i \in 1..sizearray(t) : u.array[i] # Nil => i \in IntKeys
  BY <1>2, <1>6, <1>11 DEF ArrayPart
<1>16. /\ Sound(u)
       /\ Reads(t, u)
  BY <1>12, <1>13, <1>14, <1>15, Collected
<1>17. ASSUME NEW k \in Keys
       PROVE  \/ luaH_get(u, k) = luaH_get(t, k)
              \/ luaH_get(u, k) = Nil /\ iscleared(k, luaH_get(t, k), D)
  <2>1. /\ InArray(t, k) => luaH_get(t, k) = t.array[k]
        /\ \A n \in WithLiveKey(t, k) : luaH_get(t, k) = t.node[n].val
        /\ ~ InArray(t, k) /\ WithLiveKey(t, k) = {} => luaH_get(t, k) = Nil
    BY Gets
  <2>2. CASE InArray(t, k)
    <3>1. k \in 1..sizearray(t)
      BY <2>2, <1>2, TableAssumption DEF TableAssumption, InArray, ArrayPart, sizearray
    <3>2. array[k] = t.array[k] \/ (array[k] = Nil /\ WeakValues /\ t.array[k] \in D)
      BY <3>1, <1>6
    <3>3. luaH_get(u, k) = array[k] /\ luaH_get(t, k) = t.array[k]  BY <2>1, <2>2, <1>11, <1>16 DEF Reads
    <3> QED BY <3>2, <3>3 DEF iscleared
  <2>3. CASE ~ InArray(t, k) /\ WithLiveKey(t, k) = {}  BY <2>1, <2>3, <1>16 DEF Reads
  <2>4. CASE WithLiveKey(t, k) # {}
    <3>1. PICK n \in WithLiveKey(t, k) : TRUE  BY <2>4
    <3>2. n \in Nodes(t) /\ t.node[n].key = k  BY DEF WithLiveKey, WithKey, Nodes
    <3>3. luaH_get(u, k) = node[n].val /\ luaH_get(t, k) = t.node[n].val  BY <2>1, <1>11, <1>16 DEF Reads
    <3> QED BY <3>2, <3>3, <1>4
  <2> QED BY <2>2, <2>3, <2>4
<1> QED BY <1>12, <1>16, <1>17

(***************************************************************************)
(* The inductive invariant.  The table is sound, and a traversal has left   *)
(* the fields whose slots come after that of its key: no step moves a      *)
(* field while it runs.                                                    *)
(***************************************************************************)
Later(t, k) == {j \in Keys : luaH_get(t, j) # Nil /\ findindex(t, j) > findindex(t, k)}
Traversal ==
  /\ at \in Keys \cup {Idle, First}
  /\ at = Idle => toVisit = {}
  /\ at # Idle => findindex(table, at) # NoIndex(table) /\ toVisit = Later(table, at)
IInv == Sound(table) /\ SizeOK(table) /\ Traversal

(* The empty table is sound, and an empty map.                             *)
LEMMA Starts ==
  Init => IInv /\ AbstractMap!Init
<1> SUFFICES ASSUME Init PROVE IInv /\ AbstractMap!Init
  OBVIOUS
<1> DEFINE node == [n \in {} |-> FreeNode]
<1>1. table = [array |-> <<>>, node |-> node, lastfree |-> 0] /\ at = Idle /\ toVisit = {}
  BY DEF Init
<1>2. DOMAIN node = {}  OBVIOUS
<1> HIDE DEF node
<1>3. table.array = <<>> /\ table.node = node /\ table.lastfree = 0  BY <1>1
<1>4. sizenode(table) = 0 /\ sizearray(table) = 0 /\ Nodes(table) = {}
  BY <1>2, <1>3, FS_EmptySet DEF sizenode, sizearray, Nodes
<1>5. ArrayPart(table)
  <2>1. <<>> \in Seq(V)  OBVIOUS
  <2> QED BY <1>3, <1>4, <2>1 DEF ArrayPart
<1>6. HashPart(table)
  <2>1. node \in [{} -> Entry(0)] /\ {} = 0..(0 - 1)  BY DEF node
  <2> QED BY <1>3, <1>4, <2>1 DEF HashPart, Parts
<1>7. \E r, R : Chains(table, r, R) /\ Placed(table, r, R)
  <2> DEFINE r == [n \in {} |-> 0]
  <2>1. r \in [{} -> Nat]  OBVIOUS
  <2> HIDE DEF r
  <2>2. Chains(table, r, {})  BY <1>4, <2>1 DEF Chains
  <2>3. Placed(table, r, {})  BY <1>4 DEF Placed
  <2> QED BY <2>2, <2>3
<1>8. Sound(table)  BY <1>1, <1>3, <1>5, <1>6, <1>7 DEF Sound
<1>9. IInv  BY <1>1, <1>4, <1>8 DEF IInv, SizeOK, Traversal
<1>10. \A k \in Keys : luaH_get(table, k) = Nil
  <2> TAKE k \in Keys
  <2>1. ~ InArray(table, k)
    <3>1. k \in IntKeys => k \in Nat /\ ~ (k <= 0)  BY TableAssumption DEF TableAssumption
    <3> QED BY <3>1, <1>4 DEF InArray
  <2>2. WithLiveKey(table, k) = {}  BY <1>4 DEF WithLiveKey, WithKey, Nodes
  <2> QED BY <2>1, <2>2, <1>8, Gets
<1>11. AbstractMap!Init  BY <1>1, <1>10 DEF AbstractMap!Init
<1> QED BY <1>9, <1>11

(* Steps that change no more than values, and add no field to a traversal.  *)
LEMMA KeptTraversal ==
  ASSUME IInv, Sound(table'), Kept(table, table'), UNCHANGED at,
         at # Idle => \A k \in Keys : luaH_get(table', k) # Nil => luaH_get(table, k) # Nil,
         at # Idle => toVisit' = {k \in toVisit : luaH_get(table', k) # Nil},
         at = Idle => toVisit' = {}
  PROVE  IInv'
<1>1. Sound(table) /\ SizeOK(table) /\ Traversal  BY DEF IInv
<1>2. sizenode(table') = sizenode(table)  BY KeptShape
<1>3. SizeOK(table')  BY <1>1, <1>2 DEF SizeOK
<1>4. /\ NoIndex(table') = NoIndex(table)
      /\ \A k \in Keys \cup {First} : findindex(table', k) = findindex(table, k)
  BY <1>1, SameIndex
<1>5. at # Idle =>
        findindex(table', at) # NoIndex(table') /\ toVisit' = Later(table', at)
  <2> SUFFICES ASSUME at # Idle
               PROVE  findindex(table', at) # NoIndex(table') /\ toVisit' = Later(table', at)
    OBVIOUS
  <2>1. /\ at \in Keys \cup {First} /\ findindex(table, at) # NoIndex(table)
        /\ toVisit = Later(table, at)
    BY <1>1 DEF Traversal
  <2>2. findindex(table', at) = findindex(table, at)  BY <1>4, <2>1
  <2>3. ASSUME NEW k \in Keys PROVE k \in toVisit' <=> k \in Later(table', at)
    <3>1. findindex(table', k) = findindex(table, k)  BY <1>4
    <3> QED BY <2>1, <2>2, <3>1 DEF Later
  <2>4. toVisit' \subseteq Keys /\ Later(table', at) \subseteq Keys  BY <2>1 DEF Later
  <2> QED BY <1>4, <2>1, <2>2, <2>3, <2>4
<1>6. Traversal'  BY <1>1, <1>5 DEF Traversal
<1> QED BY <1>3, <1>6 DEF IInv

(* An assignment changes one field of the table and keeps the invariant.   *)
LEMMA Assigns ==
  ASSUME IInv, NEW k \in Keys, NEW v \in V, Assign(k, v)
  PROVE  /\ IInv'
         /\ luaH_get(table', k) = v
         /\ \A j \in Keys \ {k} : luaH_get(table', j) = luaH_get(table, j)
<1> DEFINE w == luaH_set(table, k)
<1>1. Sound(table) /\ SizeOK(table) /\ Traversal  BY DEF IInv
<1>2. /\ Sound(w) /\ SizeOK(w) /\ IsPresent(w, k)
      /\ \A j \in Keys : luaH_get(w, j) = luaH_get(table, j)
  BY <1>1, Sets
<1>3. /\ table' = Store(w, k, v) /\ at' = at
      /\ toVisit' = IF v = Nil THEN toVisit \ {k} ELSE toVisit
      /\ at = Idle \/ luaH_get(table, k) # Nil
  BY DEF Assign
<1> HIDE DEF w
<1>4. /\ Sound(table') /\ Kept(w, table') /\ luaH_get(table', k) = v
      /\ \A j \in Keys \ {k} : luaH_get(table', j) = luaH_get(w, j)
  BY <1>2, <1>3, Stores
<1>5. \A j \in Keys \ {k} : luaH_get(table', j) = luaH_get(table, j)  BY <1>2, <1>4
<1>6. CASE at = Idle
  <2>1. sizenode(table') = sizenode(w)  BY <1>4, KeptShape
  <2>2. SizeOK(table')  BY <1>2, <2>1 DEF SizeOK
  <2>3. Traversal'  BY <1>1, <1>3, <1>6 DEF Traversal
  <2>4. IInv'  BY <1>4, <2>2, <2>3 DEF IInv
  <2> QED BY <1>4, <1>5, <2>4
<1>7. CASE at # Idle
  <2>1. luaH_get(table, k) # Nil  BY <1>3, <1>7
  <2>2. IsPresent(table, k)  BY <2>1 DEF luaH_get, IsPresent
  <2>3. w = table  BY <2>2 DEF luaH_set, w
  <2>4. \A j \in Keys : luaH_get(table', j) # Nil => luaH_get(table, j) # Nil
    BY <1>5, <2>1
  <2>5. toVisit = Later(table, at)  BY <1>1, <1>7 DEF Traversal
  <2>6. toVisit' = {j \in toVisit : luaH_get(table', j) # Nil}
    <3>1. \A j \in toVisit : j \in Keys /\ luaH_get(table, j) # Nil  BY <2>5 DEF Later
    <3>2. \A j \in toVisit : luaH_get(table', j) # Nil <=> ~ (j = k /\ v = Nil)
      BY <3>1, <1>4, <1>5
    <3> QED BY <3>2, <1>3
  <2>7. IInv'  BY <1>3, <1>4, <1>7, <2>3, <2>4, <2>6, KeptTraversal
  <2> QED BY <1>4, <1>5, <2>7
<1> QED BY <1>6, <1>7

(* luaH_resizearray changes no field and keeps the invariant.              *)
LEMMA Resizes ==
  ASSUME IInv, NEW n \in Nat, luaH_resizearray(n)
  PROVE  IInv' /\ \A k \in Keys : luaH_get(table', k) = luaH_get(table, k)
<1> DEFINE nh == sizenode(table)
           M == Moving(table, n)
<1>1. Sound(table) /\ Traversal /\ HashPart(table) /\ nh \in Nat /\ sizearray(table) \in Nat
  BY DEF IInv, Sound, HashPart, ArrayPart, sizearray
<1>2. /\ at = Idle /\ n > sizearray(table) /\ at' = at /\ toVisit' = toVisit
      /\ table' = resize(table, n, nh)
  BY DEF luaH_resizearray
<1>3. nodevectorsize(nh) \in Nat /\ nh <= nodevectorsize(nh)
  BY <1>1, VectorSize
<1>4. IsFiniteSet(M) /\ Cardinality(M) \in Nat /\ Cardinality(M) <= nh
  <2>1. Slice(table, n) = 0  BY <1>1, <1>2 DEF Slice
  <2>2. M \subseteq 1..nh  BY <1>1, <2>1 DEF Moving, Kinds
  <2>3. IsFiniteSet(1..nh) /\ Cardinality(1..nh) = nh  BY <1>1, FS_Interval
  <2> HIDE DEF M, nh
  <2> QED BY <2>2, <2>3, FS_Subset, FS_CardinalityType
<1>5. Cardinality(Moving(table, n)) <= nodevectorsize(nh)
  <2> DEFINE x == nodevectorsize(nh)  m == Cardinality(M)
  <2>1. x \in Nat /\ m \in Nat /\ nh \in Nat /\ nh <= x /\ m <= nh  BY <1>1, <1>3, <1>4
  <2> HIDE DEF x, m, nh
  <2>2. m <= x  BY <2>1
  <2> QED BY <2>2 DEF x, m
<1> HIDE DEF nh
<1>6. /\ Sound(table') /\ sizenode(table') = nodevectorsize(nh)
      /\ \A k \in Keys : luaH_get(table', k) = luaH_get(table, k)
  BY <1>1, <1>2, <1>5, Rebuilds
<1>7. SizeOK(table')  BY <1>1, <1>6, VectorSize DEF SizeOK
<1>8. Traversal'  BY <1>1, <1>2 DEF Traversal
<1> QED BY <1>6, <1>7, <1>8 DEF IInv

(* The collector keeps the invariant, and clears only fields that it may.  *)
LEMMA Collects ==
  ASSUME IInv
  PROVE  /\ traversetable => IInv' /\ \A k \in Keys : luaH_get(table', k) = luaH_get(table, k)
         /\ \A D : cleartable(D) =>
              /\ IInv'
              /\ \A k \in Keys :
                   \/ luaH_get(table', k) = luaH_get(table, k)
                   \/ luaH_get(table', k) = Nil /\ iscleared(k, luaH_get(table, k), D)
              /\ toVisit' = {k \in toVisit : luaH_get(table', k) # Nil}
<1>1. Sound(table) /\ Traversal  BY DEF IInv
<1>2. toVisit \subseteq Keys /\ (at = Idle => toVisit = {})
      /\ (at # Idle => \A k \in toVisit : luaH_get(table, k) # Nil)
  BY <1>1 DEF Traversal, Later
<1>3. ASSUME traversetable
      PROVE  IInv' /\ \A k \in Keys : luaH_get(table', k) = luaH_get(table, k)
  <2>1. /\ table' = [table EXCEPT !.node = [n \in DOMAIN table.node |-> removeentry(table.node[n])]]
        /\ at' = at /\ toVisit' = toVisit
    BY <1>3 DEF traversetable
  <2>2. /\ Sound(table') /\ Kept(table, table')
        /\ \A k \in Keys : luaH_get(table', k) = luaH_get(table, k)
    BY <1>1, <2>1, Traverses
  <2>3. at # Idle => toVisit' = {k \in toVisit : luaH_get(table', k) # Nil}
    BY <1>2, <2>1, <2>2
  <2>4. IInv'
    BY <1>2, <2>1, <2>2, <2>3, KeptTraversal
  <2> QED BY <2>2, <2>4
<1>4. ASSUME NEW D, cleartable(D)
      PROVE  /\ IInv'
             /\ \A k \in Keys :
                   \/ luaH_get(table', k) = luaH_get(table, k)
                   \/ luaH_get(table', k) = Nil /\ iscleared(k, luaH_get(table, k), D)
             /\ toVisit' = {k \in toVisit : luaH_get(table', k) # Nil}
  <2>1. /\ table' = [array |-> [i \in DOMAIN table.array |->
                                  IF WeakValues /\ table.array[i] \in D THEN Nil ELSE table.array[i]],
                     node |-> [n \in DOMAIN table.node |-> cleared(table.node[n], D)],
                     lastfree |-> table.lastfree]
        /\ at' = at /\ toVisit' = toVisit \cap Used(table')
    BY <1>4 DEF cleartable, cleared
  <2>2. /\ Sound(table') /\ Kept(table, table')
        /\ \A k \in Keys :
              \/ luaH_get(table', k) = luaH_get(table, k)
              \/ luaH_get(table', k) = Nil /\ iscleared(k, luaH_get(table, k), D)
    BY <1>1, <2>1, Clears
  <2>3. toVisit' = {k \in toVisit : luaH_get(table', k) # Nil}
    BY <1>2, <2>1 DEF Used
  <2>4. \A k \in Keys : luaH_get(table', k) # Nil => luaH_get(table, k) # Nil
    BY <2>2
  <2>5. IInv'
    BY <1>2, <2>1, <2>2, <2>3, <2>4, KeptTraversal
  <2> QED BY <2>2, <2>3, <2>5
<1> QED BY <1>3, <1>4

(* The index of a key in a traversal is a number.                          *)
LEMMA IndexIsNat ==
  ASSUME NEW t, Sound(t), NEW k \in Keys
  PROVE  findindex(t, k) \in Nat
<1>1. PICK r, R : Chains(t, r, R) /\ Placed(t, r, R)  BY DEF Sound
<1>2. HashPart(t) /\ sizearray(t) \in Nat /\ sizenode(t) \in Nat
  BY DEF Sound, ArrayPart, HashPart, sizearray
<1>3. InArray(t, k) => k \in Nat  BY TableAssumption DEF TableAssumption, InArray
<1> DEFINE n == Chained(t, mainposition(t, k), WithKey(t, k))
<1>4. n \in WithKey(t, k) \cup {NoNode}  BY <1>1, <1>2, Found
<1>5. n \in WithKey(t, k) => n \in Nat  BY <1>2 DEF WithKey, HashPart, Nodes
<1> HIDE DEF n
<1> QED BY <1>2, <1>3, <1>4, <1>5 DEF findindex, NoIndex, n

(* A traversal starts with all the fields of the table to visit.           *)
LEMMA StartsTraversal ==
  ASSUME IInv, Start
  PROVE  IInv' /\ toVisit' = {k \in Keys : luaH_get(table, k) # Nil}
<1>1. Sound(table) /\ SizeOK(table)  BY DEF IInv
<1>2. at = Idle /\ at' = First /\ toVisit' = {k \in Keys : luaH_get(table, k) # Nil} /\ table' = table
  BY DEF Start, Used
<1>3. sizearray(table) \in Nat /\ sizenode(table) \in Nat
  BY <1>1 DEF Sound, ArrayPart, HashPart, sizearray
<1>4. findindex(table, First) = 0  BY DEF findindex
<1>5. \A k \in Keys : luaH_get(table, k) # Nil => findindex(table, k) > 0
  <2> TAKE k \in Keys
  <2>1. luaH_get(table, k) # Nil => findindex(table, k) \in UsedSlots(table)  BY <1>1, SlotOf
  <2>2. \A j \in UsedSlots(table) : j > 0  BY <1>1, UsedSlot
  <2> QED BY <2>1, <2>2
<1>6. 0 # NoIndex(table)  BY <1>3 DEF NoIndex
<1>7. First # Idle  BY TableAssumption DEF TableAssumption
<1>8. toVisit' = Later(table, First)  BY <1>2, <1>4, <1>5 DEF Later
<1>9. Traversal'  BY <1>2, <1>4, <1>6, <1>7, <1>8 DEF Traversal
<1> QED BY <1>1, <1>2, <1>9 DEF IInv

(* next returns the field of the next slot, and ends when there is none.    *)
LEMMA Visits ==
  ASSUME IInv, Step
  PROVE  /\ IInv'
         /\ \/ at' \in toVisit /\ toVisit' = toVisit \ {at'}
            \/ toVisit = {} /\ at' = Idle /\ toVisit' = toVisit
<1> DEFINE i == findindex(table, at)
           later == {j \in UsedSlots(table) : j > i}
<1>1. Sound(table) /\ SizeOK(table) /\ Traversal  BY DEF IInv
<1>2. /\ at # Idle /\ at' = luaH_next(table, at) /\ toVisit' = toVisit \ {at'} /\ table' = table
  BY DEF Step
<1>3. i # NoIndex(table) /\ toVisit = Later(table, at)  BY <1>1, <1>2 DEF Traversal
<1>4. Idle \notin Keys  BY TableAssumption DEF TableAssumption
<1>5. CASE later = {}
  <2>1. at' = Idle  BY <1>2, <1>3, <1>5 DEF luaH_next
  <2>2. toVisit = {}
    <3> SUFFICES ASSUME NEW k \in toVisit PROVE FALSE  OBVIOUS
    <3>1. k \in Keys /\ luaH_get(table, k) # Nil /\ findindex(table, k) > i
      BY <1>3 DEF Later
    <3>2. findindex(table, k) \in UsedSlots(table)  BY <1>1, <3>1, SlotOf
    <3> QED BY <1>5, <3>1, <3>2
  <2>3. Traversal'  BY <1>2, <2>1, <2>2 DEF Traversal
  <2> QED BY <1>1, <1>2, <2>1, <2>2, <2>3 DEF IInv
<1>6. CASE later # {}
  <2> DEFINE j == CHOOSE n \in later : \A l \in later : n <= l
             k == KeyAt(table, j)
  <2>1. j \in later /\ \A l \in later : j <= l
    <3>1. later \in SUBSET Nat  BY <1>1, UsedSlot
    <3> HIDE DEF later
    <3>2. \E n \in later : \A l \in later : n <= l  BY <1>6, <3>1, Least
    <3> QED BY <3>2
  <2>2. at' = k  BY <1>2, <1>3, <1>6 DEF luaH_next
  <2> HIDE DEF j
  <2>3. j \in UsedSlots(table) /\ j > i  BY <2>1
  <2>4. /\ k \in Keys /\ luaH_get(table, k) # Nil /\ findindex(table, k) = j
        /\ j \in 1..(sizearray(table) + sizenode(table))
    BY <1>1, <2>3, UsedSlot
  <2> HIDE DEF k
  <2>5. k \in toVisit  BY <1>3, <2>3, <2>4 DEF Later
  <2>6. j # NoIndex(table)
    <3>1. sizearray(table) \in Nat /\ sizenode(table) \in Nat
      BY <1>1 DEF Sound, ArrayPart, HashPart, sizearray
    <3> QED BY <2>4, <3>1 DEF NoIndex
  <2>7. ASSUME NEW l \in Keys PROVE l \in toVisit \ {k} <=> l \in Later(table, k)
    <3>1. CASE luaH_get(table, l) = Nil  BY <3>1, <1>3 DEF Later
    <3>2. CASE luaH_get(table, l) # Nil
      <4> DEFINE n == findindex(table, l)
      <4>1. n \in UsedSlots(table) /\ KeyAt(table, n) = l  BY <1>1, <3>2, SlotOf
      <4>2. n \in Nat  BY <4>1, <1>1, UsedSlot
      <4>3. n > i => j <= n  BY <2>1, <4>1
      <4>4. l = k <=> n = j  BY <2>4, <4>1 DEF k
      <4>5. j \in Nat  BY <2>4
      <4>7. l \in toVisit <=> n > i  BY <1>3, <3>2 DEF Later
      <4>8. l \in Later(table, k) <=> n > j  BY <2>4, <3>2 DEF Later
      <4>9. i \in Nat
        <5>1. CASE at = First  BY <5>1 DEF findindex
        <5>2. CASE at # First
          <6>1. at \in Keys  BY <1>1, <1>2, <5>2 DEF Traversal
          <6> QED BY <6>1, <1>1, IndexIsNat
        <5> QED BY <5>1, <5>2
      <4> HIDE DEF n, i
      <4> QED BY <2>3, <4>2, <4>3, <4>4, <4>5, <4>7, <4>8, <4>9
    <3> QED BY <3>1, <3>2
  <2>8. toVisit' = Later(table, k)
    <3>1. toVisit \subseteq Keys /\ Later(table, k) \subseteq Keys  BY <1>3 DEF Later
    <3> QED BY <1>2, <2>2, <2>7, <3>1
  <2>9. k # Idle  BY <1>4, <2>4
  <2>10. Traversal'  BY <1>2, <2>2, <2>4, <2>6, <2>8, <2>9 DEF Traversal
  <2> QED BY <1>1, <1>2, <2>2, <2>5, <2>10 DEF IInv
<1> QED BY <1>5, <1>6

(* Each step keeps the invariant, and is one of LuaMap or changes nothing   *)
(* there.                                                                  *)
LEMMA StepsMap ==
  ASSUME IInv, [Next]_vars
  PROVE  /\ IInv'
         /\ AbstractMap!Next \/ UNCHANGED <<[k \in Keys |-> luaH_get(table, k)], at, toVisit>>
<1> DEFINE map == [k \in Keys |-> luaH_get(table, k)]
           Same == \A k \in Keys : luaH_get(table', k) = luaH_get(table, k)
           Goal == IInv' /\ (AbstractMap!Next \/ UNCHANGED <<map, at, toVisit>>)
<1>1. map' = [k \in Keys |-> luaH_get(table', k)]  OBVIOUS
<1>2. Same => map' = map  BY <1>1
<1>3. Sound(table)  BY DEF IInv
<1>4. ASSUME NEW k \in Keys, NEW v \in V, Assign(k, v) PROVE Goal
  <2>1. /\ IInv' /\ luaH_get(table', k) = v
        /\ \A j \in Keys \ {k} : luaH_get(table', j) = luaH_get(table, j)
    BY <1>4, Assigns
  <2>2. map' = [map EXCEPT ![k] = v]
    <3>1. \A j \in Keys : luaH_get(table', j) = IF j = k THEN v ELSE luaH_get(table, j)
      BY <2>1
    <3> QED BY <1>1, <3>1
  <2>3. AbstractMap!Assign(k, v)
    <3>1. map[k] = luaH_get(table, k)  OBVIOUS
    <3> HIDE DEF map
    <3>2. /\ at' = at /\ toVisit' = IF v = Nil THEN toVisit \ {k} ELSE toVisit
          /\ at = Idle \/ map[k] # Nil
      BY <1>4, <3>1 DEF Assign
    <3> QED BY <2>2, <3>2 DEF AbstractMap!Assign, map
  <2>4. AbstractMap!Next  BY <2>3 DEF AbstractMap!Next, V
  <2> QED BY <2>1, <2>4
<1>5. ASSUME NEW n \in 1..2^MaxBits, luaH_resizearray(n) PROVE Goal
  <2>1. n \in Nat
    <3>1. 2^MaxBits \in Nat  BY Power, TableAssumption DEF TableAssumption
    <3> DEFINE x == 2^MaxBits
    <3>2. x \in Nat /\ n \in 1..x  BY <3>1
    <3> HIDE DEF x
    <3> QED BY <3>2
  <2>2. IInv' /\ Same  BY <1>5, <2>1, Resizes
  <2>3. at' = at /\ toVisit' = toVisit  BY <1>5 DEF luaH_resizearray
  <2> HIDE DEF map, Same
  <2> QED BY <1>2, <2>2, <2>3
<1>6. ASSUME Start PROVE Goal
  <2>1. IInv' /\ toVisit' = {k \in Keys : luaH_get(table, k) # Nil}  BY <1>6, StartsTraversal
  <2>2. at = Idle /\ at' = First /\ table' = table  BY <1>6 DEF Start
  <2>3. map' = map /\ {k \in Keys : luaH_get(table, k) # Nil} = {k \in Keys : map[k] # Nil}
    BY <1>1, <2>2
  <2>4. AbstractMap!Start  BY <2>1, <2>2, <2>3 DEF AbstractMap!Start
  <2>5. AbstractMap!Next  BY <2>4 DEF AbstractMap!Next
  <2> QED BY <2>1, <2>5
<1>7. ASSUME Step PROVE Goal
  <2>1. /\ IInv'
        /\ \/ at' \in toVisit /\ toVisit' = toVisit \ {at'}
           \/ toVisit = {} /\ at' = Idle /\ toVisit' = toVisit
    BY <1>7, Visits
  <2>2. at # Idle /\ table' = table  BY <1>7 DEF Step
  <2>3. map' = map  BY <1>1, <2>2
  <2>4. toVisit \subseteq Keys  BY <2>2 DEF IInv, Traversal, Later
  <2>5. CASE at' \in toVisit /\ toVisit' = toVisit \ {at'}
    <3>1. AbstractMap!Visit(at')  BY <2>2, <2>3, <2>5 DEF AbstractMap!Visit
    <3>2. AbstractMap!Next  BY <2>4, <2>5, <3>1 DEF AbstractMap!Next
    <3> QED BY <2>1, <3>2
  <2>6. CASE toVisit = {} /\ at' = Idle /\ toVisit' = toVisit
    <3>1. AbstractMap!End  BY <2>2, <2>3, <2>6 DEF AbstractMap!End
    <3>2. AbstractMap!Next  BY <3>1 DEF AbstractMap!Next
    <3> QED BY <2>1, <3>2
  <2> QED BY <2>1, <2>5, <2>6
<1>8. ASSUME traversetable PROVE Goal
  <2>1. IInv' /\ Same  BY <1>8, Collects
  <2>2. at' = at /\ toVisit' = toVisit  BY <1>8 DEF traversetable
  <2> HIDE DEF map, Same
  <2> QED BY <1>2, <2>1, <2>2
<1>9. ASSUME NEW D \in SUBSET (ObjectKeys \cup CollectableValues), cleartable(D) PROVE Goal
  <2>1. /\ IInv'
        /\ \A k \in Keys :
             \/ luaH_get(table', k) = luaH_get(table, k)
             \/ luaH_get(table', k) = Nil /\ iscleared(k, luaH_get(table, k), D)
        /\ toVisit' = {k \in toVisit : luaH_get(table', k) # Nil}
    BY <1>9, Collects
  <2>2. at \notin D /\ at' = at  BY <1>9 DEF cleartable
  <2>3. Sound(table')  BY <2>1 DEF IInv
  <2>4. map' \in [Keys -> Values \cup {Nil}]
    <3>1. \A k \in Keys : luaH_get(table', k) \in V  BY <2>3, Gets
    <3> QED BY <1>1, <3>1 DEF V
  <2>5. \A k \in Keys : map'[k] = luaH_get(table', k) /\ map[k] = luaH_get(table, k)
    BY <1>1
  <2>6. toVisit \subseteq Keys  BY DEF IInv, Traversal, Later
  <2> HIDE DEF map
  <2>7. \A k \in Keys : map'[k] = map[k] \/ (map'[k] = Nil /\ iscleared(k, map[k], D))
    BY <2>1, <2>5
  <2>8. toVisit' = {k \in toVisit : map'[k] # Nil}
    BY <2>1, <2>5, <2>6
  <2>9. AbstractMap!Collect(D)
    BY <2>2, <2>4, <2>7, <2>8 DEF AbstractMap!Collect, map
  <2>10. AbstractMap!Next  BY <2>9 DEF AbstractMap!Next
  <2> QED BY <2>1, <2>10
<1>10. CASE UNCHANGED vars
  <2>1. table' = table /\ at' = at /\ toVisit' = toVisit  BY <1>10 DEF vars
  <2>2. IInv'  BY <2>1 DEF IInv, Traversal
  <2>3. map' = map  BY <1>1, <2>1
  <2> HIDE DEF map
  <2> QED BY <2>1, <2>2, <2>3
<1>11. CASE Next
  <2>1. CASE \E k \in Keys, v \in Values \cup {Nil} : Assign(k, v)
    <3>1. \E k \in Keys : \E v \in V : Assign(k, v)  BY <2>1 DEF V
    <3> QED BY <3>1, <1>4
  <2>2. CASE \E n \in 1..2^MaxBits : luaH_resizearray(n)  BY <2>2, <1>5
  <2>3. CASE Start \/ Step \/ traversetable  BY <2>3, <1>6, <1>7, <1>8
  <2>4. CASE \E D \in SUBSET (ObjectKeys \cup CollectableValues) : cleartable(D)
    BY <2>4, <1>9
  <2> QED BY <1>11, <2>1, <2>2, <2>3, <2>4 DEF Next
<1> QED BY <1>10, <1>11 DEF Goal

(***************************************************************************)
(* Theorems.                                                               *)
(***************************************************************************)

(* Every reachable table is sound, and no traversal loses its place.        *)
THEOREM Invariance == Spec => []IInv
<1>1. Init => IInv  BY Starts
<1>2. IInv /\ [Next]_vars => IInv'  BY StepsMap
<1> QED BY <1>1, <1>2, PTL DEF Spec

(* A table is a map: whatever collisions, rehashes and the collector move  *)
(* or make dead inside, an assignment changes one field, the collector     *)
(* clears only what it may, and next visits every field that stays exactly *)
(* once. So for tables of every size and every hash function.              *)
THEOREM MapImplemented == Spec => ImplementsMap
<1>1. Init => AbstractMap!Init  BY Starts
<1>2. IInv /\ [Next]_vars =>
        AbstractMap!Next \/ UNCHANGED <<[k \in Keys |-> luaH_get(table, k)], at, toVisit>>
  BY StepsMap
<1> QED BY <1>1, <1>2, Invariance, PTL DEF Spec, ImplementsMap, AbstractMap!Spec

(* The values, links and sizes of the table stay in their types: the hash   *)
(* part always has 0 nodes or a power of 2, which mainposition relies on.  *)
THEOREM TypesKept == Spec => []TypeOK
<1>1. IInv => TypeOK
  <2> SUFFICES ASSUME IInv PROVE TypeOK
    OBVIOUS
  <2> DEFINE s == sizenode(table)
  <2>1. HashPart(table) /\ ArrayPart(table) /\ SizeOK(table) /\ Traversal  BY DEF IInv, Sound
  <2>2. table.array \in Seq(Values \cup {Nil})  BY <2>1 DEF ArrayPart, V
  <2>3. DOMAIN table.node = 0..(s - 1) /\ table.lastfree \in 0..s
    BY <2>1 DEF HashPart, Nodes
  <2>4. \A n \in DOMAIN table.node :
          table.node[n] \in [key : Keys \cup {NoKey}, dead : BOOLEAN, val : Values \cup {Nil},
                             next : DOMAIN table.node \cup {NoNode}]
    BY <2>1, <2>3 DEF HashPart, Parts, Entry, V
  <2>5. at \in Keys \cup {Idle, First, Lost} /\ toVisit \subseteq Keys
    BY <2>1 DEF Traversal, Later
  <2> QED BY <2>1, <2>2, <2>3, <2>4, <2>5 DEF TypeOK, SizeOK
<1> QED BY <1>1, Invariance, PTL

(* A colliding node is in its own main position, for every hash function     *)
(* and every number of nodes.                                              *)
THEOREM CollidersAtHome == Spec => []MainInvariant
<1>1. IInv => MainInvariant
  <2> SUFFICES ASSUME IInv, NEW n \in DOMAIN table.node, table.node[n].key # NoKey
               PROVE  LET mp == mainposition(table, table.node[n].key)
                      IN  mainposition(table, table.node[mp].key) = mp
    BY DEF MainInvariant
  <2>1. PICK r, R : Placed(table, r, R)  BY DEF IInv, Sound
  <2> QED BY <2>1 DEF Placed, Homed, Nodes
<1> QED BY <1>1, Invariance, PTL

(* getfreepos overlooks no node that was never used.                        *)
THEOREM FreeNodesKept == Spec => []NoFreeNodeLost
<1>1. IInv => NoFreeNodeLost
  <2> SUFFICES ASSUME IInv PROVE NoFreeNodeLost
    OBVIOUS
  <2>1. PICK r, R : Placed(table, r, R)  BY DEF IInv, Sound
  <2> QED BY <2>1 DEF Placed, Nodes, NoFreeNodeLost
<1> QED BY <1>1, Invariance, PTL

(***************************************************************************)
(* Borders.                                                                *)
(***************************************************************************)
LEMMA Searched ==
  ASSUME NEW i0 \in Nat, NEW j0 \in Nat, i0 < j0, NEW S, j0 \notin S
  PROVE  /\ Between(i0, j0, S) \in i0..(j0 - 1)
         /\ Between(i0, j0, S) \in S \cup {i0} /\ Between(i0, j0, S) + 1 \notin S
<1> DEFINE X == [i : Nat, j : Nat]
           b == [i |-> i0, j |-> j0]
           N == j0 - i0
           step(l) == LET m == (l.i + l.j) \div 2
                      IN  IF l.j - l.i <= 1 THEN l
                          ELSE IF m \in S THEN [i |-> m, j |-> l.j] ELSE [i |-> l.i, j |-> m]
           G == [n \in 1..N |-> [l \in X |-> step(l)]]
           Eqn(f) == f = [n \in 0..N |-> IF n = 0 THEN b ELSE step(f[n - 1])]
           turn == CHOOSE f : Eqn(f)
           Good(n, l) == /\ l \in X /\ i0 <= l.i /\ l.i < l.j /\ l.j <= j0
                         /\ l.i \in S \cup {i0} /\ l.j \notin S
                         /\ l.j - l.i <= 1 \/ l.j - l.i <= N - n
<1>1. N \in Nat /\ b \in X /\ Good(0, b)  OBVIOUS
<1>2. ASSUME NEW l \in X PROVE step(l) \in X
  <2>1. l.i \in Nat /\ l.j \in Nat /\ (l.i + l.j) \div 2 \in Nat  OBVIOUS
  <2> DEFINE m == (l.i + l.j) \div 2
  <2>2. step(l) \in {l, [i |-> m, j |-> l.j], [i |-> l.i, j |-> m]}  OBVIOUS
  <2>3. m \in Nat  BY <2>1
  <2> HIDE DEF step, m
  <2> QED BY <2>1, <2>2, <2>3
<1>3. ASSUME NEW n \in Nat, NEW l, Good(n, l) PROVE Good(n + 1, step(l))
  <2> DEFINE m == (l.i + l.j) \div 2
  <2>1. l.i \in Nat /\ l.j \in Nat  BY <1>3
  <2>2. ~ (l.j - l.i <= 1) => m \in Nat /\ l.i < m /\ m < l.j  BY <2>1, <1>3
  <2>3. CASE l.j - l.i <= 1
    <3>1. step(l) = l  BY <2>3
    <3> HIDE DEF step
    <3> QED BY <2>3, <3>1, <1>3
  <2>4. CASE ~ (l.j - l.i <= 1) /\ m \in S
    <3>1. step(l) = [i |-> m, j |-> l.j]  BY <2>4
    <3> HIDE DEF step, m
    <3> QED BY <2>1, <2>2, <2>4, <3>1, <1>1, <1>3
  <2>5. CASE ~ (l.j - l.i <= 1) /\ m \notin S
    <3>1. step(l) = [i |-> l.i, j |-> m]  BY <2>5
    <3> HIDE DEF step, m
    <3> QED BY <2>1, <2>2, <2>5, <3>1, <1>1, <1>3
  <2> QED BY <2>3, <2>4, <2>5
<1> HIDE DEF step, Good
<1>4. G \in [1..N -> [X -> X]]  BY <1>2
<1>5. \A n \in 1..N, l \in X : G[n][l] = step(l)  OBVIOUS
<1> HIDE DEF G, X, b, N
<1>6. PICK f \in [0..N -> X] : f[0] = b /\ \A n \in 1..N : f[n] = G[n][f[n - 1]]
  BY <1>1, <1>4, Iterated
<1>7. Eqn(f)
  <2>1. \A n \in 0..N : f[n] = IF n = 0 THEN b ELSE step(f[n - 1])
    <3> TAKE n \in 0..N
    <3>1. n # 0 => n \in 1..N /\ n - 1 \in 0..N  BY <1>1
    <3> QED BY <3>1, <1>5, <1>6
  <2> QED BY <2>1
<1>8. Eqn(turn)
  <2> HIDE DEF Eqn
  <2> QED BY <1>7
<1>9. Between(i0, j0, S) = turn[N].i  BY DEF Between, step, N, b
<1> HIDE DEF turn
<1> DEFINE J == {n \in 0..N : Good(n, turn[n])}
<1>10. 0 \in J  BY <1>1, <1>8
<1>11. ASSUME NEW n \in 0..N, n \in J, n < N PROVE n + 1 \in J
  <2>1. n + 1 \in 0..N /\ n + 1 # 0 /\ (n + 1) - 1 = n /\ n \in Nat  BY <1>1, <1>11
  <2>2. turn[n + 1] = step(turn[n])
    <3>1. turn[n + 1] = step(turn[(n + 1) - 1])  BY <1>8, <2>1
    <3> QED BY <2>1, <3>1
  <2> QED BY <1>3, <1>11, <2>1, <2>2
<1>12. 0..N \subseteq J
  <2> HIDE DEF J
  <2> QED BY <1>1, <1>10, <1>11, IntervalSets
<1>13. Good(N, turn[N])  BY <1>1, <1>12
<1> DEFINE l == turn[N]
<1>14. /\ l.i \in Nat /\ l.j \in Nat /\ i0 <= l.i /\ l.i < l.j /\ l.j <= j0
       /\ l.i \in S \cup {i0} /\ l.j \notin S /\ l.j - l.i <= 1
  BY <1>1, <1>13 DEF Good, X
<1>15. Between(i0, j0, S) = l.i  BY <1>9
<1> HIDE DEF l
<1>16. l.j = l.i + 1 /\ l.i \in i0..(j0 - 1)  BY <1>14
<1> QED BY <1>14, <1>15, <1>16

(* unbound_search ends at a border, whatever the numbers in the hash part. *)
LEMMA Unbounded ==
  ASSUME NEW t, NEW j0 \in Nat, j0 \in Indices(t) \cup {0}
  PROVE  /\ unbound_search(t, j0) \in Indices(t) \cup {0}
         /\ unbound_search(t, j0) + 1 \notin Indices(t)
<1> DEFINE I == Indices(t)
           X == [i : Nat, j : Nat]
           b == [i |-> j0, j |-> j0 + 1]
           N == MaxInt
           step(l) == IF l.j \notin Indices(t) \/ 2 * l.j > MaxInt THEN l
                      ELSE [i |-> l.j, j |-> 2 * l.j]
           G == [n \in 1..N |-> [l \in X |-> step(l)]]
           Eqn(f) == f = [n \in 0..N |-> IF n = 0 THEN b ELSE step(f[n - 1])]
           turn == CHOOSE f : Eqn(f)
           last == turn[N]
           absent == CHOOSE i \in 1..(MaxInt + 1) :
                       i \notin Indices(t) /\ 1..(i - 1) \subseteq Indices(t)
           Good(l) == l \in X /\ l.i < l.j /\ l.i \in I \cup {0}
<1>1. MaxInt \in Nat /\ I \subseteq 1..MaxInt
  BY TableAssumption DEF TableAssumption, Indices
<1>2. unbound_search(t, j0) = IF last.j \in I THEN absent - 1 ELSE Between(last.i, last.j, I)
  BY DEF unbound_search
<1> HIDE DEF absent, I
<1>3. N \in Nat /\ b \in X /\ Good(b)  BY <1>1 DEF I
<1>4. ASSUME NEW l, Good(l) PROVE Good(step(l))
  <2>1. l.i \in Nat /\ l.j \in Nat  BY <1>4
  <2>2. CASE l.j \notin I \/ 2 * l.j > MaxInt
    <3>1. step(l) = l  BY <2>2 DEF I
    <3> HIDE DEF step
    <3> QED BY <3>1, <1>4
  <2>3. CASE ~ (l.j \notin I \/ 2 * l.j > MaxInt)
    <3>1. step(l) = [i |-> l.j, j |-> 2 * l.j]  BY <2>3 DEF I
    <3>2. l.j < 2 * l.j /\ 2 * l.j \in Nat  BY <2>1, <1>4
    <3> HIDE DEF step
    <3> QED BY <2>1, <2>3, <3>1, <3>2
  <2> QED BY <2>2, <2>3
<1>5. ASSUME NEW l \in X PROVE step(l) \in X
  <2>1. step(l) \in {l, [i |-> l.j, j |-> 2 * l.j]} /\ 2 * l.j \in Nat  OBVIOUS
  <2> HIDE DEF step
  <2> QED BY <2>1
<1> HIDE DEF step, Good
<1>6. G \in [1..N -> [X -> X]]  BY <1>5
<1>7. \A n \in 1..N, l \in X : G[n][l] = step(l)  OBVIOUS
<1> HIDE DEF G, X, b, N
<1>8. PICK f \in [0..N -> X] : f[0] = b /\ \A n \in 1..N : f[n] = G[n][f[n - 1]]
  BY <1>3, <1>6, Iterated
<1>9. Eqn(f)
  <2>1. \A n \in 0..N : f[n] = IF n = 0 THEN b ELSE step(f[n - 1])
    <3> TAKE n \in 0..N
    <3>1. n # 0 => n \in 1..N /\ n - 1 \in 0..N  BY <1>3
    <3> QED BY <3>1, <1>7, <1>8
  <2> QED BY <2>1
<1>10. Eqn(turn)
  <2> HIDE DEF Eqn
  <2> QED BY <1>9
<1> HIDE DEF turn
<1> DEFINE J == {n \in 0..N : Good(turn[n])}
<1>11. 0 \in J  BY <1>3, <1>10
<1>12. ASSUME NEW n \in 0..N, n \in J, n < N PROVE n + 1 \in J
  <2>1. n + 1 \in 0..N /\ n + 1 # 0 /\ (n + 1) - 1 = n  BY <1>3, <1>12
  <2>2. turn[n + 1] = step(turn[n])
    <3>1. turn[n + 1] = step(turn[(n + 1) - 1])  BY <1>10, <2>1
    <3> QED BY <2>1, <3>1
  <2> QED BY <1>4, <1>12, <2>1, <2>2
<1>13. 0..N \subseteq J
  <2> HIDE DEF J
  <2> QED BY <1>3, <1>11, <1>12, IntervalSets
<1>14. Good(last)  BY <1>3, <1>13
<1>15. last.i \in Nat /\ last.j \in Nat /\ last.i < last.j /\ last.i \in I \cup {0}
  BY <1>14 DEF Good, X
<1> HIDE DEF last
<1>16. CASE last.j \notin I
  <2> DEFINE r == Between(last.i, last.j, I)
  <2>1. r \in I \cup {last.i} /\ r + 1 \notin I  BY <1>15, <1>16, Searched
  <2> HIDE DEF r
  <2>2. unbound_search(t, j0) = r  BY <1>2, <1>16 DEF r
  <2> QED BY <2>1, <2>2, <1>15 DEF I
<1>17. CASE last.j \in I
  <2> DEFINE A == {i \in 1..(MaxInt + 1) : i \notin I}
  <2>1. A \in SUBSET Nat /\ MaxInt + 1 \in A  BY <1>1
  <2>2. PICK i \in A : \A m \in A : i <= m
    <3> HIDE DEF A
    <3> QED BY <2>1, Least
  <2>3. 1..(i - 1) \subseteq I
    <3> SUFFICES ASSUME NEW m \in 1..(i - 1), m \notin I PROVE FALSE  OBVIOUS
    <3>1. m \in A  BY <1>1, <2>2
    <3>2. i <= m  BY <2>2, <3>1
    <3> QED BY <2>2, <3>2
  <2>4. absent \in 1..(MaxInt + 1) /\ absent \notin I /\ 1..(absent - 1) \subseteq I
    BY <2>2, <2>3 DEF absent, I
  <2>5. absent - 1 \in I \cup {0} /\ (absent - 1) + 1 = absent
    <3>1. absent = 1 \/ absent - 1 \in 1..(absent - 1)  BY <1>1, <2>4
    <3> QED BY <1>1, <2>4, <3>1
  <2>6. unbound_search(t, j0) = absent - 1  BY <1>2, <1>17
  <2> QED BY <2>4, <2>5, <2>6 DEF I
<1> QED BY <1>16, <1>17

(* The length operator: whatever the fields are, luaH_getn returns an index  *)
(* that is present, or 0, and whose successor is absent.                   *)
THEOREM BordersFound == Spec => []BorderFound
<1>1. IInv => BorderFound
  <2> SUFFICES ASSUME IInv PROVE BorderFound
    OBVIOUS
  <2> DEFINE j == sizearray(table)
             a == table.array
             n == luaH_getn(table)
             I == Indices(table)
  <2>1. Sound(table) /\ ArrayPart(table) /\ HashPart(table) /\ j \in Nat
    BY DEF IInv, Sound, ArrayPart, sizearray
  <2>2. ASSUME NEW m \in 1..j PROVE m \in I <=> a[m] # Nil
    <3>1. CASE m \in IntKeys
      <4>1. InArray(table, m) /\ m \in Keys  BY <3>1 DEF InArray, Keys
      <4>2. luaH_get(table, m) = a[m]  BY <2>1, <4>1, Gets
      <4> QED BY <3>1, <4>2 DEF Indices
    <3>2. CASE m \notin IntKeys  BY <3>2, <2>1 DEF Indices, ArrayPart
    <3> QED BY <3>1, <3>2
  <2>3. CASE j > 0 /\ a[j] = Nil
    <3> DEFINE S == {m \in 1..j : a[m] # Nil}
               r == Between(0, j, S)
    <3>1. n = r  BY <2>3 DEF luaH_getn
    <3>2. j \notin S /\ 0 < j  BY <2>1, <2>3
    <3>3. r \in 0..(j - 1) /\ r \in S \cup {0} /\ r + 1 \notin S
      <4> HIDE DEF S, j
      <4> QED BY <2>1, <3>2, Searched
    <3> HIDE DEF r
    <3>4. r + 1 \in 1..j  BY <2>1, <3>3
    <3>5. r \in I \cup {0} /\ r + 1 \notin I  BY <2>2, <3>3, <3>4
    <3> QED BY <3>1, <3>5 DEF BorderFound
  <2>4. CASE ~ (j > 0 /\ a[j] = Nil)
    <3>1. j \in I \cup {0}
      <4>1. j = 0 \/ j \in 1..j  BY <2>1
      <4> QED BY <4>1, <2>1, <2>2, <2>4
    <3>2. CASE sizenode(table) = 0
      <4>1. n = j  BY <2>4, <3>2 DEF luaH_getn
      <4>2. j + 1 \notin I
        <5> SUFFICES ASSUME j + 1 \in I PROVE FALSE  OBVIOUS
        <5>1. j + 1 \in Keys /\ luaH_get(table, j + 1) # Nil  BY DEF Indices, Keys
        <5>2. ~ InArray(table, j + 1)  BY <2>1 DEF InArray
        <5>3. Nodes(table) = {}  BY <2>1, <3>2 DEF HashPart
        <5>4. WithLiveKey(table, j + 1) = {}  BY <5>3 DEF WithLiveKey, WithKey, Nodes
        <5> QED BY <2>1, <5>1, <5>2, <5>4, Gets
      <4> QED BY <3>1, <4>1, <4>2 DEF BorderFound
    <3>3. CASE sizenode(table) # 0
      <4>1. n = unbound_search(table, j)  BY <2>4, <3>3 DEF luaH_getn
      <4>2. n \in I \cup {0} /\ n + 1 \notin I  BY <2>1, <3>1, <4>1, Unbounded
      <4> QED BY <4>2 DEF BorderFound
    <3> QED BY <3>2, <3>3
  <2> QED BY <2>3, <2>4
<1> QED BY <1>1, Invariance, PTL

(***************************************************************************)
(* The sizes that a rehash chooses, said of the keys and not of the slots.  *)
(***************************************************************************)
LEMMA Images ==
  ASSUME NEW A, IsFiniteSet(A), NEW B, NEW f \in [A -> B],
         \A x, y \in A : f[x] = f[y] => x = y, NEW T \in SUBSET A
  PROVE  IsFiniteSet({f[x] : x \in T}) /\ Cardinality({f[x] : x \in T}) = Cardinality(T)
<1> DEFINE U == {f[x] : x \in T}
           g == [x \in T |-> f[x]]
<1>1. IsFiniteSet(T)  BY FS_Subset
<1>2. g \in [T -> U] /\ (\A x, y \in T : g[x] = g[y] => x = y) /\ \A u \in U : \E x \in T : g[x] = u
  OBVIOUS
<1> HIDE DEF g, U
<1>3. g \in Bijection(T, U)  BY <1>2 DEF Bijection, Injection, IsInjective, Surjection
<1>4. ExistsBijection(T, U)  BY <1>3 DEF ExistsBijection
<1>5. IsFiniteSet(U) /\ Cardinality(U) = Cardinality(T)  BY <1>1, <1>4, FS_Bijection
<1> QED BY <1>5 DEF U

UsedWith(t, k) == Used(t) \cup {k}

BestSizes(U, size, nodes) ==
  /\ size \in HalfUsed(U \cap IntKeys)
  /\ \A m \in HalfUsed(U \cap IntKeys) : m <= size
  /\ nodes = Cardinality({j \in U : ~ (j \in IntKeys /\ j <= size)})

(* The sizes that rehash computes from its counts are the best for the     *)
(* keys of the table and the new one.                                      *)
LEMMA RehashSizes ==
  ASSUME NEW t, Sound(t), NEW k \in Keys, luaH_get(t, k) = Nil
  PROVE  BestSizes(UsedWith(t, k), ArrayFor(t, k), NodesFor(t, k))
<1> DEFINE U == UsedWith(t, k)
           A == Counted(t)
           f == [i \in A |-> KeyFor(t, k, i)]
           w == 2^MaxBits
           K == {j \in U : j \in IntKeys /\ j <= w}
           n == ArrayFor(t, k)
<1>0. U = Used(t) \cup {k}  BY DEF UsedWith
<1> HIDE DEF U
<1>1. IsFiniteSet(A) /\ 0 \notin UsedSlots(t)
  <2>1. sizearray(t) \in Nat /\ sizenode(t) \in Nat
    BY DEF Sound, ArrayPart, HashPart, sizearray
  <2>2. UsedSlots(t) \subseteq 1..(sizearray(t) + sizenode(t))  BY DEF UsedSlots
  <2>3. IsFiniteSet(1..(sizearray(t) + sizenode(t)))  BY <2>1, FS_Interval
  <2>4. IsFiniteSet(UsedSlots(t))  BY <2>2, <2>3, FS_Subset
  <2> QED BY <2>1, <2>2, <2>4, FS_AddElement DEF Counted
<1>2. \A i \in UsedSlots(t) :
        /\ KeyAt(t, i) \in Used(t) /\ KeyAt(t, i) # k /\ findindex(t, KeyAt(t, i)) = i
  <2> TAKE i \in UsedSlots(t)
  <2>1. /\ KeyAt(t, i) \in Keys /\ luaH_get(t, KeyAt(t, i)) # Nil
        /\ findindex(t, KeyAt(t, i)) = i
    BY UsedSlot
  <2> QED BY <2>1 DEF Used
<1>3. A = UsedSlots(t) \cup {0}  BY DEF Counted
<1>4. f[0] = k /\ \A i \in UsedSlots(t) : f[i] = KeyAt(t, i)  BY <1>1, <1>3 DEF KeyFor
<1>5. f \in [A -> U]
  <2>1. \A i \in A : f[i] \in U  BY <1>0, <1>2, <1>3, <1>4
  <2> QED BY <2>1
<1>6. \A i \in A : f[i] = KeyFor(t, k, i)  OBVIOUS
<1> HIDE DEF f, A
<1>7. ASSUME NEW x \in A, NEW y \in A, f[x] = f[y] PROVE x = y
  <2>1. CASE x = 0 \/ y = 0  BY <2>1, <1>2, <1>3, <1>4, <1>7
  <2>2. CASE ~ (x = 0 \/ y = 0)
    <3>1. x \in UsedSlots(t) /\ y \in UsedSlots(t)  BY <2>2, <1>3
    <3>2. KeyAt(t, x) = KeyAt(t, y)  BY <3>1, <1>4, <1>7
    <3> QED BY <3>1, <3>2, <1>2
  <2> QED BY <2>1, <2>2
<1>8. \A j \in U : \E i \in A : f[i] = j
  <2> TAKE j \in U
  <2>1. CASE j = k  BY <2>1, <1>3, <1>4
  <2>2. CASE j # k
    <3>1. j \in Keys /\ luaH_get(t, j) # Nil  BY <1>0, <2>2 DEF Used
    <3>2. findindex(t, j) \in UsedSlots(t) /\ KeyAt(t, findindex(t, j)) = j  BY <3>1, SlotOf
    <3> QED BY <3>2, <1>3, <1>4
  <2> QED BY <2>1, <2>2
<1>9. \A T \in SUBSET A :
        IsFiniteSet({f[x] : x \in T}) /\ Cardinality({f[x] : x \in T}) = Cardinality(T)
  BY <1>1, <1>5, <1>7, Images
<1>10. U = {f[x] : x \in A}  BY <1>5, <1>8
<1>11. IsFiniteSet(U) /\ Cardinality(U) = Cardinality(A)
  <2>1. A \in SUBSET A  OBVIOUS
  <2> QED BY <2>1, <1>9, <1>10
<1>12. Ints(t, k) = {i \in A : f[i] \in IntKeys /\ f[i] <= w}
  BY <1>6 DEF Ints, arrayindex, A
<1>13. w \in Nat  BY Power, TableAssumption DEF TableAssumption
<1> HIDE DEF w
<1>14. K = {f[x] : x \in Ints(t, k)} /\ Ints(t, k) \in SUBSET A
  BY <1>10, <1>12
<1>15. IsFiniteSet(K) /\ Cardinality(K) = Cardinality(Ints(t, k))  BY <1>9, <1>14
<1>16. K \in SUBSET (Nat \ {0})
  <2>1. \A j \in IntKeys : j \in Nat /\ j # 0  BY TableAssumption DEF TableAssumption
  <2> QED BY <2>1
<1>17. /\ Nums(t, k) \in [0..MaxBits -> Nat]
       /\ \A l \in 0..MaxBits : Nums(t, k)[l] = Cardinality({j \in K : ceillog2(j) = l})
  <2>1. ASSUME NEW l \in 0..MaxBits
        PROVE  /\ Cardinality({i \in Ints(t, k) : ceillog2(KeyFor(t, k, i)) = l}) \in Nat
               /\ Cardinality({i \in Ints(t, k) : ceillog2(KeyFor(t, k, i)) = l})
                    = Cardinality({j \in K : ceillog2(j) = l})
    <3> DEFINE T == {i \in Ints(t, k) : ceillog2(KeyFor(t, k, i)) = l}
               E == {j \in K : ceillog2(j) = l}
    <3>1. T \in SUBSET A /\ T = {i \in Ints(t, k) : ceillog2(f[i]) = l}  BY <1>6, <1>14
    <3>2. E = {f[x] : x \in T}
      <4>1. \A j \in E : j \in {f[x] : x \in T}  BY <1>14, <3>1
      <4>2. \A x \in T : f[x] \in E  BY <1>14, <3>1
      <4> HIDE DEF E, T
      <4> QED BY <4>1, <4>2
    <3> HIDE DEF T, E
    <3>3. IsFiniteSet(E) /\ Cardinality(E) = Cardinality(T)  BY <1>9, <3>1, <3>2
    <3>4. Cardinality(E) \in Nat  BY <3>3, FS_CardinalityType
    <3> QED BY <3>3, <3>4 DEF E, T
  <2> HIDE DEF K
  <2> QED BY <2>1 DEF Nums
<1>18. n \in HalfUsed(K) /\ \A m \in HalfUsed(K) : m <= n
  <2>1. computesizes(Nums(t, k), Cardinality(K)) = n  BY <1>15 DEF ArrayFor
  <2> HIDE DEF K, n
  <2> QED BY <2>1, <1>15, <1>16, <1>17, SizeChosen
<1>19. \A m \in {0} \cup {2^p : p \in 0..MaxBits} : m \in Nat /\ m <= w
  <2>1. ASSUME NEW p \in 0..MaxBits PROVE 2^p \in Nat /\ 2^p <= w
    <3>1. p \in Nat /\ MaxBits \in Nat /\ p <= MaxBits  BY TableAssumption DEF TableAssumption
    <3>2. 2^p <= 2^MaxBits /\ 2^p \in Nat  BY <3>1, Power, PowerMonotone
    <3> QED BY <3>2 DEF w
  <2> QED BY <2>1, <1>13
<1>20. \A m \in {0} \cup {2^p : p \in 0..MaxBits} :
         {j \in U \cap IntKeys : j <= m} = {j \in K : j <= m}
  <2> TAKE m \in {0} \cup {2^p : p \in 0..MaxBits}
  <2>1. m \in Nat /\ m <= w  BY <1>19
  <2>2. \A j \in IntKeys : j \in Nat  BY TableAssumption DEF TableAssumption
  <2> HIDE DEF w
  <2>3. \A j \in IntKeys : j <= m => j <= w  BY <2>1, <2>2, <1>13
  <2> QED BY <2>3
<1>21. HalfUsed(U \cap IntKeys) = HalfUsed(K)
  <2> HIDE DEF K
  <2> QED BY <1>20 DEF HalfUsed
<1>22. n \in {0} \cup {2^p : p \in 0..MaxBits}
  <2> HIDE DEF n, K
  <2> QED BY <1>18 DEF HalfUsed
<1>23. NodesFor(t, k) = Cardinality({j \in U : ~ (j \in IntKeys /\ j <= n)})
  <2> DEFINE L == {j \in K : j <= n}
             R == {j \in U : ~ (j \in IntKeys /\ j <= n)}
  <2>1. Low(t, k) = {i \in Ints(t, k) : f[i] <= n}  BY <1>6, <1>14 DEF Low
  <2>2. L = {f[x] : x \in Low(t, k)} /\ Low(t, k) \in SUBSET A  BY <2>1, <1>14
  <2>3. IsFiniteSet(L) /\ Cardinality(L) = Cardinality(Low(t, k))  BY <2>2, <1>9
  <2>4. {j \in U \cap IntKeys : j <= n} = L  BY <1>20, <1>22
  <2>5. R = U \ L  BY <2>4
  <2>6. U \cap L = L  BY <2>4
  <2>7. NodesFor(t, k) = Cardinality(A) - Cardinality(Low(t, k))  BY DEF NodesFor, A
  <2> HIDE DEF L, R, n
  <2>8. Cardinality(U \ L) = Cardinality(U) - Cardinality(U \cap L)
    BY <1>11, FS_Difference
  <2>9. NodesFor(t, k) = Cardinality(R)  BY <2>3, <2>5, <2>6, <2>7, <2>8, <1>11
  <2> QED BY <2>9 DEF R
<1> HIDE DEF K, n
<1>24. BestSizes(U, n, NodesFor(t, k))  BY <1>18, <1>21, <1>23 DEF BestSizes
<1> QED BY <1>24 DEF U, n

(* When an assignment makes a rehash, the array part gets the largest size   *)
(* that more than half of is used, and the nodes are enough for the other  *)
(* keys and not twice too many, for every table and every key.             *)
THEOREM SizesAreOptimal == Spec => SizesOptimal
<1> DEFINE used(k) == Used(table) \cup {k}
           best(k) == CHOOSE n \in HalfUsed(used(k) \cap IntKeys) :
                        \A m \in HalfUsed(used(k) \cap IntKeys) : m <= n
           rest(k) == Cardinality({j \in used(k) : ~ (j \in IntKeys /\ j <= best(k))})
<1>1. IInv /\ [Next]_vars => [RehashOptimal]_vars
  <2> SUFFICES ASSUME IInv, NEW k \in Keys, NEW v \in Values \cup {Nil},
                      ~ IsPresent(table, k), ~ HasRoom(table, k), Assign(k, v)
               PROVE  /\ sizearray(table') = best(k)
                      /\ rest(k) <= sizenode(table') /\ sizenode(table') < 2 * rest(k) + 1
    BY DEF RehashOptimal
  <2> DEFINE w == luaH_set(table, k)
             H == HalfUsed(used(k) \cap IntKeys)
             a == ArrayFor(table, k)
             n == NodesFor(table, k)
  <2>1. Sound(table) /\ SizeOK(table) /\ v \in V  BY DEF IInv, V
  <2>2. luaH_get(table, k) = Nil  BY DEF luaH_get, IsPresent
  <2>3. /\ Sound(w) /\ IsPresent(w, k)
        /\ sizearray(w) = sizearray(rehash(table, k))
        /\ sizenode(w) = sizenode(rehash(table, k))
    BY <2>1, Sets
  <2>4. /\ sizearray(rehash(table, k)) = a /\ n \in Nat
        /\ sizenode(rehash(table, k)) = nodevectorsize(n)
    BY <2>1, Rehashes
  <2>5. table' = Store(w, k, v)  BY DEF Assign
  <2> HIDE DEF w
  <2>6. Kept(w, Store(w, k, v))  BY <2>1, <2>3, Stores
  <2>7. sizearray(table') = a /\ sizenode(table') = nodevectorsize(n)
    BY <2>3, <2>4, <2>5, <2>6, KeptShape
  <2>8. /\ a \in H /\ \A m \in H : m <= a
        /\ n = Cardinality({j \in used(k) : ~ (j \in IntKeys /\ j <= a)})
    <3>1. used(k) = UsedWith(table, k)  BY DEF UsedWith
    <3> HIDE DEF used, H, a, n
    <3>2. BestSizes(UsedWith(table, k), ArrayFor(table, k), NodesFor(table, k))
      BY <2>1, <2>2, RehashSizes
    <3>3. BestSizes(used(k), a, n)  BY <3>1, <3>2 DEF a, n
    <3> QED BY <3>3 DEF BestSizes, H
  <2>9. \A m \in H : m \in Nat
    <3>1. \A p \in 0..MaxBits : 2^p \in Nat
      <4>1. \A p \in 0..MaxBits : p \in Nat  BY TableAssumption DEF TableAssumption
      <4> QED BY <4>1, Power
    <3> QED BY <3>1 DEF HalfUsed
  <2>10. best(k) \in H /\ \A m \in H : m <= best(k)
    <3> HIDE DEF a
    <3>1. \E l \in H : \A m \in H : m <= l  BY <2>8
    <3> QED BY <3>1
  <2> HIDE DEF H, a, best, n
  <2>11. best(k) = a  BY <2>8, <2>9, <2>10
  <2>12. rest(k) = n  BY <2>8, <2>11
  <2>13. nodevectorsize(n) \in Nat /\ n <= nodevectorsize(n) /\ nodevectorsize(n) < 2 * n + 1
    BY <2>4, VectorSize
  <2> HIDE DEF rest
  <2> QED BY <2>7, <2>11, <2>12, <2>13
<1> QED BY <1>1, Invariance, PTL DEF Spec, SizesOptimal
=============================================================================
