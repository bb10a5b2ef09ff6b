------------------------------- MODULE LuaMap -------------------------------
(***************************************************************************)
(* What a table of Lua promises: a function from keys to values.  The      *)
(* manual's next visits each key that keeps its field exactly once, if the *)
(* traversal adds no field.                                                *)
(***************************************************************************)
CONSTANTS
  Keys, Values,
  Nil,             (* the value of a field that the table does not have    *)
  Idle, First,     (* no traversal, or one that has not yet called next    *)
  Collectable,     (* the objects that the collector may free              *)
  Cleared(_, _, _) (* a key and a value that may go when the objects D do  *)

VARIABLES
  map,
  at,              (* the key that next returned last                      *)
  toVisit          (* the keys that it still has to return                 *)

Init == map = [k \in Keys |-> Nil] /\ at = Idle /\ toVisit = {}

Assign(k, v) ==
  /\ UNCHANGED at
  /\ toVisit' = IF v = Nil THEN toVisit \ {k} ELSE toVisit
  /\ at = Idle \/ map[k] # Nil
  /\ map' = [map EXCEPT ![k] = v]

Collect(D) ==
  /\ UNCHANGED at /\ at \notin D
  /\ map' \in [Keys -> Values \cup {Nil}]
  /\ \A k \in Keys : map'[k] = map[k] \/ (map'[k] = Nil /\ Cleared(k, map[k], D))
  /\ toVisit' = {k \in toVisit : map'[k] # Nil}

Start ==
  /\ at = Idle /\ at' = First
  /\ toVisit' = {k \in Keys : map[k] # Nil}
  /\ UNCHANGED map

Visit(k) ==
  /\ at # Idle /\ k \in toVisit
  /\ at' = k /\ toVisit' = toVisit \ {k}
  /\ UNCHANGED map

End ==
  /\ at # Idle /\ toVisit = {}
  /\ at' = Idle
  /\ UNCHANGED <<map, toVisit>>

Next ==
  \/ \E k \in Keys, v \in Values \cup {Nil} : Assign(k, v)
  \/ \E D \in SUBSET Collectable : Collect(D)
  \/ Start
  \/ \E k \in Keys : Visit(k)
  \/ End
Spec == Init /\ [][Next]_<<map, at, toVisit>>
=============================================================================
