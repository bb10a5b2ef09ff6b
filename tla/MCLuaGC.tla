------------------------------ MODULE MCLuaGC ------------------------------
(***************************************************************************)
(* Small instances of LuaGC for TLC: each .cfg populates some of the kinds *)
(* of objects and leaves the others empty.                                 *)
(***************************************************************************)
EXTENDS LuaGCReachable, TLC

CONSTANTS
  WeakKeys, WeakValues,   (* tables whose field __mode holds k, or v       *)
  Odd,                    (* strings with an odd hash                      *)
  Made                    (* tables that the program made before it starts *)

MCModeField == [t \in Tables |-> (IF t \in WeakKeys THEN {"k"} ELSE {})
                                   \cup (IF t \in WeakValues THEN {"v"} ELSE {})]
MCHash == [s \in Strings |-> IF s \in Odd THEN 1 ELSE 0]

MCSymmetry ==
  Permutations(Tables \ ({Registry, Globals} \cup HasGC \cup WeakKeys \cup WeakValues))
    \cup Permutations(Udatas) \cup Permutations(Functions) \cup Permutations(Upvals)
    \cup Permutations(Threads \ {MainThread})

(* A heap that a program has built before it is watched: a weak table of    *)
(* globals.                                                                *)
WeakGlobals == {[NewState EXCEPT !.objs = Made, !.meta[Globals] = m] : m \in Made}
MCWeakInit == \E h \in WeakGlobals : InitWith(h)
MCWeakSpec == MCWeakInit /\ [][Next]_vars

(* Bounds: the program does not store in the registry, nor name the tables  *)
(* in Made.                                                                *)
RegistryConstant == entries'[Registry] = entries[Registry]
MadeUnnamed == RegistryConstant /\ \A th \in Threads : Range(stack'[th]) \cap Made = {}
(* ... or makes a userdata with the environment of the main program, and    *)
(* gives it its metatable once.                                            *)
MetatableOnce ==
  /\ RegistryConstant
  /\ \A u \in Udatas \cap alive' : fields'[u] = {Globals} /\ meta[u] \in {NoObj, meta'[u]}
=============================================================================
