---------------------------- MODULE LuaGCHistory ----------------------------
(***************************************************************************)
(* What the collector of LuaGC promises to the program over a whole cycle, *)
(* stated with history variables that remember what the C code does not    *)
(* keep.                                                                   *)
(***************************************************************************)
EXTENDS LuaGCReachable

VARIABLES
  order,      (* the userdata, in the order of their creation              *)
  called,     (* those whose finalizer was called                          *)
  passedOver, (* those found dead while they had no finalizer              *)
  garbage     (* what nothing referred to when the cycle began             *)

historyVars == <<order, called, passedOver, garbage>>

(* Nothing can reach the other objects again, but for a string that is      *)
(* interned again and an upvalue that is found in its slot.                *)
Referred == Closure(ProgramRoots \cup Range(tmudata)
                      \cup {u \in Range(udlist) : HasFinalizer(u) /\ u \notin finalized}, Refs)

HInit ==
  /\ Init
  /\ order = <<>> /\ called = {} /\ passedOver = {} /\ garbage = {}

Record ==
  /\ \E kept \in Filtered(order, Range(order) \cap alive') :
       LET new == Udatas \cap (alive' \ alive)
       IN  order' = IF new = {} THEN kept ELSE kept \o <<CHOOSE u \in new : TRUE>>
  /\ called' = (called \cup {u \in Range(tmudata) \ Range(tmudata') : HasFinalizer(u)}) \cap alive'
  /\ passedOver' = (passedOver \cup ((finalized' \ finalized) \ Range(tmudata'))) \cap alive'
  /\ garbage' = IF gcstate' = "propagate" /\ gcstate # "propagate"
                THEN alive' \ (Referred' \cup Strings)
                ELSE IF garbage = {} THEN {} ELSE garbage \ Referred'

HSpec == HInit /\ [][Next /\ Record]_<<vars, historyVars>>

(***************************************************************************)
(* Properties.                                                             *)
(***************************************************************************)

(* One cycle is enough: what nothing referred to when markroot began it has *)
(* been freed when the sweep of rootgc ends.                               *)
OneCycleEnough == gcstate = "finalize" /\ fullgc = "no" => garbage \cap alive = {}

(* Manual 2.10.1: at the end of a cycle the finalizers are called in reverse *)
(* order of the creation of the userdata that the cycle collects.  Those   *)
(* left from an interrupted cycle come first.                              *)
Before(s, a, b) == \E i, j \in DOMAIN s : i < j /\ s[i] = a /\ s[j] = b
NewestFirst ==
  [][\A i, j \in DOMAIN tmudata' : Len(tmudata) < i /\ i < j => Before(order, tmudata'[j], tmudata'[i])
    ]_<<vars, historyVars>>

(* A userdata is not freed before its finalizer was called, if it had one   *)
(* whenever the collector found it dead; and it is called once.            *)
FinalizedBeforeFreed ==
  [][/\ \A u \in Udatas \cap (alive \ alive') : HasFinalizer(u) => u \in called \cup passedOver
     /\ \A u \in called : u \notin Range(tmudata')
    ]_<<vars, historyVars>>

(* That is what the program may rely on if it takes no finalizer away from a *)
(* userdata that waits for it: luaC_separateudata would not find it again. *)
FinalizersKept ==
  [][\A u \in Range(tmudata) : HasFinalizer(u) => HasFinalizer(u)']_<<vars, historyVars>>
=============================================================================
