--------------------------- MODULE LuaGCReachable ---------------------------
(***************************************************************************)
(* What the collector of LuaGC promises to the program, stated with the    *)
(* objects that the program can reach.                                     *)
(***************************************************************************)
EXTENDS LuaGC

(* The objects that can be reached from S through Follow: those of every set *)
(* that has S and, with an object, all that follows it.                    *)
Closure(S, Follow(_)) ==
  LET closed == {X \in {S \cup Y : Y \in SUBSET (Objects \ S)} : \A o \in X : Follow(o) \subseteq X}
  IN  {o \in Objects : \A X \in closed : o \in X}

ProgramRoots == Range(running) \cup {MainThread, Registry} \cup ({gmt} \ {NoObj})
Reachable == Closure(ProgramRoots, StrongRefs)

(* The collector is invisible: a step of it leaves every object that the    *)
(* program can reach allocated and as it was.  Only an entry of a weak     *)
(* table goes, and only when its key or its value cannot be reached but    *)
(* through weak tables or is a userdata that had its turn of finalization  *)
(* (strings are values, that are never removed from weak tables);          *)
(* and a stack changes only where GCTM pushes the userdata it finalizes.   *)
Goes(t, e) ==
  \/ "k" \in WeakMode(t) /\ e[1] \in Objects \ (Reachable \cup Strings)
  \/ "v" \in WeakMode(t) /\ e[2] \in Objects \ (Reachable \cup Strings)
  \/ WeakMode(t) # {} /\ e[2] \in Udatas \cap finalized
CollectorInvisible ==
  [][Collector =>
       \A o \in Reachable :
         /\ o \in alive'
         /\ meta'[o] = meta[o] /\ fields'[o] = fields[o]
         /\ entries'[o] \subseteq entries[o]
         /\ \A e \in entries[o] \ entries'[o] : Goes(o, e)
         /\ o \in Upvals => UpvalValue(o)' = UpvalValue(o)
         /\ o \in Threads => \A s \in Slots :
              \/ stack'[o][s] = stack[o][s]
              \/ tmudata # <<>> /\ stack'[o][s] = Head(tmudata)
    ]_vars
=============================================================================
