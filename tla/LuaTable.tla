------------------------------ MODULE LuaTable ------------------------------
(***************************************************************************)
(* The tables of ltable.c: an array part, a hash part that is a chained    *)
(* scatter table with Brent's variation, the rehash that moves fields from *)
(* one to the other, the search for a border and the traversal.            *)
(*                                                                         *)
(* One table, the program that reads, writes and traverses it, and the     *)
(* collector, which kills keys whose value is nil and empties weak fields. *)
(* A key that is collectable stands for an address: when its node is dead  *)
(* the same key may come back, as the same object or as a new one there.   *)
(***************************************************************************)
EXTENDS Integers, Sequences, FiniteSets

CONSTANTS
  IntKeys,      (* positive integers                                       *)
  StringKeys,   (* keys whose hash is taken modulo a power of 2            *)
  ObjectKeys,   (* collectable keys that are hashed by their address       *)
  Hash,         (* Hash[k]: the hash value, or the address                 *)
  Values, Nil,
  NoKey,        (* the key of a node that was never used                   *)
  Idle, First, Lost,
  MaxBits,      (* MAXBITS: the array part has at most 2^MaxBits slots     *)
  MaxInt,       (* MAX_INT                                                 *)
  WeakKeys, WeakValues,  (* whether the table is weak                      *)
  CollectableValues      (* the values that the collector may free         *)

Keys == IntKeys \cup StringKeys \cup ObjectKeys
NoNode == -1

ASSUME TableAssumption ==
  /\ IntKeys \subseteq 1..MaxInt /\ MaxInt \in Nat /\ MaxBits \in Nat
  /\ Hash \in [Keys -> Nat]
  /\ NoKey \notin Keys /\ Nil \notin Values /\ CollectableValues \subseteq Values
  /\ {Idle, First, Lost} \cap Keys = {}
  /\ Idle # First /\ Idle # Lost /\ First # Lost

VARIABLES
  table,     (* the fields array, node and lastfree of the Table           *)
  at,        (* Idle, or the key with which the program will call next     *)
  toVisit    (* the keys that next still has to return                     *)

vars == <<table, at, toVisit>>

(***************************************************************************)
(* Nodes and chains.  The hash part is dummynode, or 2^lsizenode nodes:    *)
(* here a function on 0..size-1, empty for dummynode.                      *)
(***************************************************************************)
sizearray(t) == Len(t.array)
sizenode(t) == Cardinality(DOMAIN t.node)
FreeNode == [key |-> NoKey, dead |-> FALSE, val |-> Nil, next |-> NoNode]

mainposition(t, k) ==
  IF k \in StringKeys THEN Hash[k] % sizenode(t)
  ELSE Hash[k] % (IF sizenode(t) <= 2 THEN 1 ELSE sizenode(t) - 1)

(* The first node of S on the chain from node n.                           *)
Chained(t, n, S) ==
  LET found == S \cup {NoNode}
      from[m \in DOMAIN t.node \cup {NoNode}] == IF m \in found THEN m ELSE from[t.node[m].next]
  IN  IF sizenode(t) = 0 THEN NoNode ELSE from[n]

WithKey(t, k) == {n \in DOMAIN t.node : t.node[n].key = k}
WithLiveKey(t, k) == {n \in WithKey(t, k) : ~ t.node[n].dead}
InArray(t, k) == k \in IntKeys /\ k <= sizearray(t)
FindNode(t, k) == Chained(t, mainposition(t, k), WithLiveKey(t, k))

luaH_get(t, k) ==
  IF InArray(t, k) THEN t.array[k]
  ELSE LET n == FindNode(t, k) IN IF n = NoNode THEN Nil ELSE t.node[n].val

IsPresent(t, k) == InArray(t, k) \/ FindNode(t, k) # NoNode

(* getfreepos: lastfree goes down to a node that was never used.           *)
FreePlaces(t) == {n \in 0..(t.lastfree - 1) : t.node[n].key = NoKey}
LowestFree(t) == CHOOSE n \in FreePlaces(t) : \A m \in FreePlaces(t) : n <= m
getfreepos(t) == CHOOSE n \in FreePlaces(t) : \A m \in FreePlaces(t) : m <= n

IsFree(t, n) == t.node[n].val = Nil
HasRoom(t, k) ==
  sizenode(t) # 0 /\ (IsFree(t, mainposition(t, k)) \/ FreePlaces(t) # {})

(* newkey where no rehash is needed: the main position mp is overwritten,   *)
(* keeping its link, if it has no value; a node that is there but belongs  *)
(* elsewhere is moved; otherwise the new key is linked after it.           *)
MovedUnlinked(t, mp, n) == [t.node EXCEPT ![n] = t.node[mp], ![mp].next = NoNode]
MovedAway(t, mp, n) ==
  LET prev == Chained(t, mainposition(t, t.node[mp].key),
                      {m \in DOMAIN t.node : t.node[m].next = mp})
  IN  [t.node EXCEPT ![prev].next = n, ![n] = t.node[mp], ![mp].next = NoNode]
Linked(t, mp, n) ==
  [t.node EXCEPT ![n].next = t.node[mp].next, ![mp].next = n]
NeverMoves(t, k) ==
  LET mp == mainposition(t, k)
      n  == getfreepos(t)
      key(nodes, m) ==
        [nodes EXCEPT ![m] = [key |-> k, dead |-> FALSE, val |-> Nil, next |-> @.next]]
  IN  IF IsFree(t, mp) THEN [t EXCEPT !.node = key(t.node, mp)]
      ELSE [t EXCEPT !.node = key(Linked(t, mp, n), n), !.lastfree = n]
newkey(t, k) ==
  LET mp == mainposition(t, k)
      n  == getfreepos(t)
      key(nodes, m) ==
        [nodes EXCEPT ![m] = [key |-> k, dead |-> FALSE, val |-> Nil, next |-> @.next]]
  IN  IF IsFree(t, mp) THEN [t EXCEPT !.node = key(t.node, mp)]
      ELSE IF mainposition(t, t.node[mp].key) # mp
      THEN [t EXCEPT !.node = key(MovedAway(t, mp, n), mp), !.lastfree = n]
      ELSE [t EXCEPT !.node = key(Linked(t, mp, n), n), !.lastfree = n]

Store(t, k, v) ==
  IF InArray(t, k) THEN [t EXCEPT !.array[k] = v]
  ELSE [t EXCEPT !.node[FindNode(t, k)].val = v]

(***************************************************************************)
(* Rehash.                                                                 *)
(***************************************************************************)
ceillog2(n) == CHOOSE i \in 0..n : 2^i >= n /\ \A j \in 0..(i - 1) : 2^j < n
arrayindex(k) == k \in IntKeys /\ k <= 2^MaxBits

(* Slots are counted from 1, those of the array part first.                *)
KeyAt(t, i) == IF i <= sizearray(t) THEN i ELSE t.node[i - sizearray(t) - 1].key
ValueAt(t, i) == IF i <= sizearray(t) THEN t.array[i] ELSE t.node[i - sizearray(t) - 1].val
UsedSlots(t) == {i \in 1..(sizearray(t) + sizenode(t)) : ValueAt(t, i) # Nil}

(* computesizes: the size of the array part, for nums[i] keys between       *)
(* 2^(i-1) and 2^i, narray in all.  after[i]: a and n after i turns.        *)
SizesForHalf(nums, narray) ==
  LET after[i \in 0..(MaxBits + 1)] ==
        IF i = 0 THEN [a |-> 0, n |-> 0]
        ELSE LET l == after[i - 1]
                 a == l.a + nums[i - 1]
             IN  IF 2^(i - 1) \div 2 >= narray \/ l.a = narray THEN l
                 ELSE IF nums[i - 1] > 0 /\ a >= 2^(i - 1) \div 2
                 THEN [a |-> a, n |-> 2^(i - 1)]
                 ELSE [a |-> a, n |-> l.n]
  IN  after[MaxBits + 1].n
computesizes(nums, narray) ==
  LET after[i \in 0..(MaxBits + 1)] ==
        IF i = 0 THEN [a |-> 0, n |-> 0]
        ELSE LET l == after[i - 1]
                 a == l.a + nums[i - 1]
             IN  IF 2^(i - 1) \div 2 >= narray \/ l.a = narray THEN l
                 ELSE IF nums[i - 1] > 0 /\ a > 2^(i - 1) \div 2
                 THEN [a |-> a, n |-> 2^(i - 1)]
                 ELSE [a |-> a, n |-> l.n]
  IN  after[MaxBits + 1].n

(* Reinsertion of a field that has a value.  It needs no rehash itself: a   *)
(* field that found no room would be lost here, and the map of the table   *)
(* changed.                                                                *)
Reinsert(t, f) ==
  LET u == IF IsPresent(t, f.key) THEN t
           ELSE IF HasRoom(t, f.key) THEN newkey(t, f.key) ELSE t
  IN  IF f.val # Nil /\ IsPresent(u, f.key) THEN Store(u, f.key, f.val) ELSE t

(* ... of fields 1 to n, one after the other.                              *)
ReinsertAll(t, field, n) ==
  LET after[i \in 0..n] == IF i = 0 THEN t ELSE Reinsert(after[i - 1], field[i])
  IN  after[n]

(* setnodevector: the number of nodes it makes.                             *)
ExactSize(n) == n
nodevectorsize(n) == IF n = 0 THEN 0 ELSE 2^ceillog2(n)

(* resize: the array part keeps what it can; then come what the vanishing  *)
(* slice of it holds, from its start, and what the nodes hold, from the    *)
(* last one.                                                               *)
Emptied(t, nasize, size) ==
  [array |-> [i \in 1..nasize |-> IF i <= sizearray(t) THEN t.array[i] ELSE Nil],
   node |-> [n \in 0..(size - 1) |-> FreeNode],
   lastfree |-> size]
Slice(t, nasize) == IF nasize < sizearray(t) THEN sizearray(t) - nasize ELSE 0
Fields(t, nasize) ==
  [i \in 1..(Slice(t, nasize) + sizenode(t)) |->
     IF i <= Slice(t, nasize) THEN [key |-> nasize + i, val |-> t.array[nasize + i]]
     ELSE LET n == t.node[sizenode(t) - (i - Slice(t, nasize))]
          IN  [key |-> n.key, val |-> n.val]]
resize(t, nasize, nhsize) ==
  ReinsertAll(Emptied(t, nasize, nodevectorsize(nhsize)),
              Fields(t, nasize), Slice(t, nasize) + sizenode(t))

(* rehash: slot 0 stands for the extra key, k.                             *)
rehash(t, k) ==
  LET key(i)   == IF i = 0 THEN k ELSE KeyAt(t, i)
      used     == UsedSlots(t) \cup {0}
      ints     == {i \in used : arrayindex(key(i))}
      nums     == [l \in 0..MaxBits |-> Cardinality({i \in ints : ceillog2(key(i)) = l})]
      nasize   == computesizes(nums, Cardinality(ints))
      na       == Cardinality({i \in ints : key(i) <= nasize})
  IN  resize(t, nasize, Cardinality(used) - na)

(* luaH_set, luaH_setnum, luaH_setstr: the slot of key k, made if need be.  *)
luaH_set(t, k) ==
  IF IsPresent(t, k) THEN t
  ELSE IF HasRoom(t, k) THEN newkey(t, k)
  ELSE LET u == rehash(t, k)
       IN  IF IsPresent(u, k) THEN u ELSE newkey(u, k)

(***************************************************************************)
(* Traversal and borders.                                                  *)
(***************************************************************************)

(* findindex: 0 to begin, the slots of the array, then the nodes.  The key  *)
(* may be dead already; Len + size + 1 stands for "invalid key to 'next'". *)
NoIndex(t) == sizearray(t) + sizenode(t) + 1
findindex(t, k) ==
  IF k = First THEN 0
  ELSE IF InArray(t, k) THEN k
  ELSE LET n == Chained(t, mainposition(t, k), WithKey(t, k))
       IN  IF n = NoNode THEN NoIndex(t) ELSE sizearray(t) + n + 1

luaH_next(t, k) ==
  LET i == findindex(t, k)
      later == {j \in UsedSlots(t) : j > i}
  IN  IF i = NoIndex(t) THEN Lost
      ELSE IF later = {} THEN Idle
      ELSE KeyAt(t, CHOOSE j \in later : \A l \in later : j <= l)

(* Binary search between i, which is 0 or in S, and j, which is not in S.   *)
(* turn[n]: i and j after n turns, of which j - i are enough.              *)
BetweenSwapped(i0, j0, S) ==
  LET turn[n \in 0..(j0 - i0)] ==
        IF n = 0 THEN [i |-> i0, j |-> j0]
        ELSE LET l == turn[n - 1]
                 m == (l.i + l.j) \div 2
             IN  IF l.j - l.i <= 1 THEN l
                 ELSE IF m \in S THEN [i |-> l.i, j |-> m] ELSE [i |-> m, j |-> l.j]
  IN  turn[j0 - i0].i
Between(i0, j0, S) ==
  LET turn[n \in 0..(j0 - i0)] ==
        IF n = 0 THEN [i |-> i0, j |-> j0]
        ELSE LET l == turn[n - 1]
                 m == (l.i + l.j) \div 2
             IN  IF l.j - l.i <= 1 THEN l
                 ELSE IF m \in S THEN [i |-> m, j |-> l.j] ELSE [i |-> l.i, j |-> m]
  IN  turn[j0 - i0].i
Indices(t) == {i \in IntKeys : luaH_get(t, i) # Nil}

(* j doubles until it is absent, at most MaxInt times, or too large: then   *)
(* the search is linear.                                                   *)
unbound_search(t, j0) ==
  LET turn[n \in 0..MaxInt] ==
        IF n = 0 THEN [i |-> j0, j |-> j0 + 1]
        ELSE LET l == turn[n - 1]
             IN  IF l.j \notin Indices(t) \/ 2 * l.j > MaxInt THEN l
                 ELSE [i |-> l.j, j |-> 2 * l.j]
      last == turn[MaxInt]
      absent == CHOOSE i \in 1..(MaxInt + 1) : i \notin Indices(t) /\ 1..(i - 1) \subseteq Indices(t)
  IN  IF last.j \in Indices(t) THEN absent - 1 ELSE Between(last.i, last.j, Indices(t))
luaH_getn(t) ==
  LET j == sizearray(t)
  IN  IF j > 0 /\ t.array[j] = Nil THEN Between(0, j, {m \in 1..j : t.array[m] # Nil})
      ELSE IF sizenode(t) = 0 THEN j
      ELSE unbound_search(t, j)

(***************************************************************************)
(* The program and the collector.                                          *)
(***************************************************************************)

(* The keys that the table has.                                            *)
Used(t) == {k \in Keys : luaH_get(t, k) # Nil}

(* luaV_settable, lua_rawset and the like.  The manual leaves open what next *)
(* does if a traversal assigns to a field that does not exist.             *)
Assign(k, v) ==
  /\ at = Idle \/ luaH_get(table, k) # Nil
  /\ table' = Store(luaH_set(table, k), k, v)
  /\ toVisit' = IF v = Nil THEN toVisit \ {k} ELSE toVisit
  /\ UNCHANGED at

(* OP_SETLIST of a new table: the array part grows to its last index.      *)
luaH_resizearray(n) ==
  /\ at = Idle /\ n > sizearray(table)
  /\ table' = resize(table, n, sizenode(table))
  /\ UNCHANGED <<at, toVisit>>

Start ==
  /\ at = Idle /\ at' = First
  /\ toVisit' = Used(table)
  /\ UNCHANGED table

Step ==
  /\ at \notin {Idle, Lost}
  /\ at' = luaH_next(table, at)
  /\ toVisit' = toVisit \ {at'}
  /\ UNCHANGED table

(* traversetable: the collectable keys of nodes without a value are dead.   *)
removeentry(n) ==
  IF n.val = Nil /\ n.key \in StringKeys \cup ObjectKeys THEN [n EXCEPT !.dead = TRUE] ELSE n
traversetable ==
  /\ ~ (WeakKeys /\ WeakValues)
  /\ table' = [table EXCEPT !.node = [n \in DOMAIN table.node |-> removeentry(table.node[n])]]
  /\ UNCHANGED <<at, toVisit>>

(* cleartable: the weak fields whose key or value is about to be freed, D.  *)
(* The key of a traversal is on the stack.                                 *)
iscleared(k, v, D) ==
  \/ WeakKeys /\ k \in D \cap ObjectKeys
  \/ (WeakValues \/ WeakKeys) /\ v \in D
cleartable(D) ==
  /\ at \notin D
  /\ LET cleared(n) == IF n.val # Nil /\ iscleared(n.key, n.val, D)
                       THEN removeentry([n EXCEPT !.val = Nil]) ELSE n
     IN  table' =
           [array |-> [i \in DOMAIN table.array |->
                         IF WeakValues /\ table.array[i] \in D THEN Nil ELSE table.array[i]],
            node |-> [n \in DOMAIN table.node |-> cleared(table.node[n])],
            lastfree |-> table.lastfree]
  /\ toVisit' = toVisit \cap Used(table')
  /\ UNCHANGED at

(* luaH_new without preallocated parts.                                    *)
Init ==
  /\ table = [array |-> <<>>, node |-> [n \in {} |-> FreeNode], lastfree |-> 0]
  /\ at = Idle /\ toVisit = {}

Next ==
  \/ \E k \in Keys, v \in Values \cup {Nil} : Assign(k, v)
  \/ \E n \in 1..2^MaxBits : luaH_resizearray(n)
  \/ Start \/ Step
  \/ traversetable
  \/ \E D \in SUBSET (ObjectKeys \cup CollectableValues) : cleartable(D)
Spec == Init /\ [][Next]_vars

(***************************************************************************)
(* Properties.                                                             *)
(***************************************************************************)
TypeOK ==
  /\ table.array \in Seq(Values \cup {Nil})
  /\ sizenode(table) = 0 \/ \E l \in 0..sizenode(table) : sizenode(table) = 2^l
  /\ DOMAIN table.node = 0..(sizenode(table) - 1)
  /\ \A n \in DOMAIN table.node :
       table.node[n] \in [key : Keys \cup {NoKey}, dead : BOOLEAN, val : Values \cup {Nil},
                          next : DOMAIN table.node \cup {NoNode}]
  /\ table.lastfree \in 0..sizenode(table)
  /\ at \in Keys \cup {Idle, First, Lost} /\ toVisit \subseteq Keys

(* The table is a map from keys to values, whatever moved inside it: no     *)
(* field is lost, doubled or brought back by a collision, by a rehash, by  *)
(* the array part that takes over keys of the hash part, or by a dead key  *)
(* whose address is used again; next visits what a traversal has to visit, *)
(* once, and never fails, though fields are cleared and keys die meanwhile. *)
AbstractMap == INSTANCE LuaMap WITH
  map <- [k \in Keys |-> luaH_get(table, k)],
  Collectable <- ObjectKeys \cup CollectableValues,
  Cleared <- iscleared
ImplementsMap == AbstractMap!Spec

(* ltable.c: "A main invariant of these tables is that, if an element is not *)
(* in its main position, then the colliding element is in its own main     *)
(* position": what keeps chains short when all nodes are used.             *)
MainInvariant ==
  \A n \in DOMAIN table.node :
    LET k == table.node[n].key
        mp == mainposition(table, k)
    IN  k # NoKey /\ table.node[n].val # Nil /\ mp # n
          => mainposition(table, table.node[mp].key) = mp

(* lastfree never goes past a node that was not used: the table is rehashed  *)
(* only when its hash part is full.                                        *)
NoFreeNodeLost ==
  \A n \in DOMAIN table.node : table.node[n].key = NoKey => n < table.lastfree

(* luaH_getn returns a border, whichever part it is in.                    *)
BorderFound ==
  LET n == luaH_getn(table)
  IN  n \in Indices(table) \cup {0} /\ n + 1 \notin Indices(table)

(* A rehash gives the array part the largest size, a power of 2, of which   *)
(* more than half is in use, and the hash part room for the rest and not   *)
(* twice as much.                                                          *)
HalfUsed(I) == {n \in {0} \cup {2^p : p \in 0..MaxBits} :
                  n = 0 \/ 2 * Cardinality({k \in I : k <= n}) > n}
RehashOptimal ==
  \A k \in Keys, v \in Values \cup {Nil} :
    ~ IsPresent(table, k) /\ ~ HasRoom(table, k) /\ Assign(k, v) =>
      LET used == Used(table) \cup {k}
          n    == CHOOSE n \in HalfUsed(used \cap IntKeys) :
                    \A m \in HalfUsed(used \cap IntKeys) : m <= n
          rest == Cardinality({j \in used : ~ (j \in IntKeys /\ j <= n)})
      IN  sizearray(table') = n /\ rest <= sizenode(table') /\ sizenode(table') < 2 * rest + 1
SizesOptimal == [][RehashOptimal]_vars
=============================================================================
