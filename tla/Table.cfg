CONSTANTS
  IntKeys = {1, 2, 4}
  StringKeys = {s}
  ObjectKeys = {o}
  Hash <- MCHash
  Even = {o}
  Odd = {s}
  Values = {x}
  Nil = Nil
  NoKey = NoKey
  Idle = Idle
  First = First
  Lost = Lost
  MaxBits = 2
  MaxInt = 7
  WeakKeys = TRUE
  WeakValues = FALSE
  CollectableValues = {x}
SPECIFICATION Spec
INVARIANTS TypeOK MainInvariant NoFreeNodeLost BorderFound
PROPERTIES ImplementsMap 
