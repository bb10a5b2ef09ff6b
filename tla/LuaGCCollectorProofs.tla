-------------------------- MODULE LuaGCCollectorProofs --------------------------
(***************************************************************************)
(* Proofs about the collector of LuaGC: each of its steps keeps what the   *)
(* operations of the program keep, and so nothing that the program can     *)
(* name is ever freed, in any schedule of the two.                         *)
(***************************************************************************)
EXTENDS LuaGCProofs, WellFoundedInduction

USE DEF Objects, Values, FirstClass, Closed, Nil, Whites, AtomicStates, SweepStates, GCStates,
        HasGclist, Linked, LocalSlots

(***************************************************************************)
(* Marking.                                                                *)
(***************************************************************************)

(* Where no object is written, every one refers to what it did.            *)
LEMMA RefsAllSame ==
  ASSUME UNCHANGED <<meta, fields, entries, uvloc, uvval, stack, running>>, NEW o \in Objects
  PROVE  /\ Refs(o)' = Refs(o) /\ StrongRefs(o)' = StrongRefs(o)
         /\ UpvalValue(o)' = UpvalValue(o) /\ WeakMode(o)' = WeakMode(o)
<1>1. UpvalValue(o)' = UpvalValue(o)
  BY DEF UpvalValue, IsOpen
<1>2. Refs(o)' = Refs(o)
  BY <1>1, RefsKept
<1>3. /\ Resumed(o)' = Resumed(o) /\ Keys(o)' = Keys(o) /\ Vals(o)' = Vals(o)
      /\ WeakMode(o)' = WeakMode(o)
  BY DEF Resumed, Keys, Vals, WeakMode
<1>4. OwnRefs(o)' = OwnRefs(o)
  BY <1>1, <1>3 DEF OwnRefs, Range
<1> QED BY <1>1, <1>2, <1>3, <1>4 DEF StrongRefs

(* The objects of M, white ones, are marked, and those of B, which needs no *)
(* visit any more, are blackened.                                          *)
Coloring(M, B) ==
  /\ \A p \in Objects \ (M \cup B) : color'[p] = color[p]
  /\ \A p \in B : color'[p] = "black" /\ \A r \in Refs(p) : color[r] \in Whites => r \in M \cup B
  /\ \A p \in M : /\ color[p] \in Whites
                  /\ \/ color'[p] = "black" /\ p \in Udatas \cup Upvals /\ p \notin OpenUpvals
                     \/ color'[p] = "gray" /\ p \in HasGclist \cup Strings \cup OpenUpvals
                     \/ p \in B
                  /\ p \in Udatas \cup Upvals => \A r \in Refs(p) : color[r] \in Whites => r \in M \cup B

LEMMA MarkingStep ==
  ASSUME FullInv, TypeOK', Live = alive, gcstate' \in MarkPhase,
         NEW M \in SUBSET alive, NEW B \in SUBSET alive, Coloring(M, B),
         UNCHANGED <<heapVars, stack, running, unswept, sweepstrgc, strsize, currentwhite>>,
         Range(tmudata)' \subseteq alive,
         \A o \in alive \ B : color[o] = "black" /\ (o \in Range(tmudata)' => gcstate' = "marktmu")
                                => \A r \in Refs(o) : color[r] \notin Whites
  PROVE  /\ CheckLiveness' /\ TriColor' /\ SweepComplete' /\ NeverGray' /\ OpenListed' /\ FreedEmpty'
         /\ running'[1] = MainThread
         /\ \A o \in Objects : color[o] \notin Whites \/ o \in M \cup B => color'[o] \notin Whites
<1>1. /\ TypeOK /\ RefsByKind /\ \A o \in alive : o \in Objects /\ Refs(o) \subseteq alive
      /\ Roots \subseteq alive /\ Safety
      /\ currentwhite \in Whites /\ otherwhite \in Whites /\ currentwhite # otherwhite
  BY Basics DEF FullInv, Safety, CheckLiveness, TypeOK, HeapType
<1>2. UNCHANGED <<alive, meta, fields, entries, uvloc, uvval, gmt>>
  BY DEF heapVars
<1>3. /\ \A o \in Objects : Refs(o)' = Refs(o)
      /\ otherwhite' = otherwhite /\ OpenUpvals' = OpenUpvals
  BY <1>2, RefsAllSame DEF otherwhite, OpenUpvals, IsOpen
<1>4. \A o \in Objects : color[o] \notin Whites \/ o \in M \cup B => color'[o] \notin Whites
  BY DEF Coloring
<1>5. Live' = alive
  <2>1. ASSUME NEW o \in alive PROVE color'[o] # otherwhite
    <3>1. CASE o \in M \cup B
      BY <1>1, <1>4, <3>1
    <3>2. CASE o \notin M \cup B
      BY <1>1, <3>2 DEF Coloring, Live, isdead
    <3> QED BY <3>1, <3>2
  <2> QED BY <1>2, <1>3, <2>1 DEF Live, isdead
<1>6. CheckLiveness'
  <2>1. Roots' \subseteq alive
    BY <1>1, <1>2 DEF Roots, Range
  <2> QED BY <1>1, <1>3, <1>5, <2>1 DEF CheckLiveness
<1>7. ASSUME NEW o \in alive', color'[o] = "black", o \in Range(tmudata)' => gcstate' = "marktmu",
             NEW r \in Refs(o)'
      PROVE  color'[r] \notin Whites
  <2>1. o \in alive /\ o \in Objects /\ r \in Refs(o) /\ r \in Objects
    BY <1>1, <1>2, <1>3, <1>7
  <2>2. color[r] \in Whites => r \in M \cup B
    <3>1. CASE o \in B
      BY <2>1, <3>1 DEF Coloring
    <3>2. CASE o \in M \ B
      BY <1>7, <2>1, <3>2 DEF Coloring
    <3>3. CASE o \notin M \cup B
      <4>1. color[o] = "black"
        BY <1>7, <2>1, <3>3 DEF Coloring
      <4> QED BY <1>7, <2>1, <3>3, <4>1
    <3> QED BY <3>1, <3>2, <3>3
  <2> QED BY <1>4, <2>1, <2>2
<1>8. TriColor'
  BY <1>7 DEF TriColor, isblack, iswhite
<1>9. SweepComplete'
  BY <1>5, <1>2 DEF SweepComplete, Live
<1>10. NeverGray'
  <2> SUFFICES ASSUME NEW u \in Udatas PROVE color'[u] # "gray"
    BY DEF NeverGray
  <2>1. u \in Objects /\ u \notin HasGclist \cup Strings \cup OpenUpvals
    BY KindsAssumption DEF OpenUpvals
  <2> QED BY <1>1, <2>1 DEF Coloring, Safety, NeverGray
<1>11. OpenListed'
  BY <1>1, <1>2 DEF Safety, OpenListed, IsOpen
<1>12. FreedEmpty'
  BY <1>1, <1>2, <1>3 DEF Safety, FreedEmpty
<1>13. running'[1] = MainThread
  BY <1>1 DEF Safety
<1> QED BY <1>4, <1>6, <1>8, <1>9, <1>10, <1>11, <1>12, <1>13

(* The gray lists, in L before the step: what is marked joins `gray', what  *)
(* is blackened leaves them.                                               *)
LEMMA GrayListsStep ==
  ASSUME TypeOK, NEW L \in SUBSET HasGclist, NEW M \in SUBSET alive, NEW B \in SUBSET alive, Coloring(M, B),
         UNCHANGED <<alive, uvloc>>, alive \subseteq Objects,
         L \subseteq {o \in alive : color[o] = "gray"},
         \A o \in alive : color[o] = "gray" => o \in L \cup Strings \cup OpenUpvals,
         NEW G, gray' = G \cup ((M \ B) \cap HasGclist),
         G \cup grayagain' \cup weak' = L \ B,
         G \cap (grayagain' \cup weak') = {}, grayagain' \cap weak' = {}
  PROVE  GrayLists'
<1>1. OpenUpvals' = OpenUpvals
  BY DEF OpenUpvals, IsOpen
<1>2. L \cap M = {}
  BY DEF Coloring
<1>3. \A o \in (M \ B) \cap HasGclist : color'[o] = "gray"
  <2>1. HasGclist \cap (Udatas \cup Upvals) = {}
    BY KindsAssumption
  <2> QED BY <2>1 DEF Coloring
<1>4. \A o \in L \ B : color'[o] = "gray"
  BY <1>2 DEF Coloring
<1>5. gray' \cup grayagain' \cup weak' \subseteq {o \in alive : color'[o] = "gray"}
  BY <1>3, <1>4
<1>6. gray' \cap (grayagain' \cup weak') = {} /\ grayagain' \cap weak' = {}
  BY <1>2
<1>7. ASSUME NEW o \in alive, color'[o] = "gray"
      PROVE  o \in gray' \cup grayagain' \cup weak' \cup Strings \cup OpenUpvals
  <2>1. o \notin B
    BY <1>7 DEF Coloring
  <2>2. CASE o \in M
    BY <1>7, <2>1, <2>2 DEF Coloring
  <2>3. CASE o \notin M
    <3>1. color[o] = "gray"
      BY <1>7, <2>1, <2>3 DEF Coloring
    <3> QED BY <2>1, <3>1
  <2> QED BY <2>2, <2>3
<1> QED BY <1>1, <1>5, <1>6, <1>7 DEF GrayLists

(* The colors that MarkFrom and propagatemark give.                        *)
LEMMA MarkFromColoring ==
  ASSUME FullInv, NEW S, S \subseteq Live \cup {NoObj}, Live = alive,
         color' = Recolor(S)
  PROVE  /\ Coloring(Marked(S), {}) /\ Marked(S) \in SUBSET alive
         /\ \A o \in S : o # NoObj /\ color[o] \in Whites => o \in Marked(S)
<1>1. /\ Marked(S) \subseteq Live /\ \A o \in Marked(S) : iswhite(o)
      /\ \A o \in S : o # NoObj /\ iswhite(o) => o \in Marked(S)
      /\ \A o \in Marked(S) \cap (Udatas \cup Upvals) : \A r \in Refs(o) : iswhite(r) => r \in Marked(S)
  BY MarkedFacts DEF FullInv, ListsInv, Safety
<1>2. Live \subseteq Objects
  BY Basics
<1>3. \A o \in Objects : /\ o \notin Marked(S) => color'[o] = color[o]
                         /\ o \in Marked(S) => color'[o] \in {"gray", "black"}
                         /\ o \in Marked(S) /\ color'[o] = "black" => o \in Udatas \cup Upvals /\ o \notin OpenUpvals
                         /\ o \in Marked(S) /\ color'[o] = "gray" => o \in HasGclist \cup Strings \cup OpenUpvals
  BY RecolorFacts
<1> QED BY <1>1, <1>2, <1>3 DEF Coloring, iswhite

(* What atomic has made sure of stays so while more is marked.             *)
LEMMA RemarkedKept ==
  ASSUME FullInv, TypeOK', gcstate \in MarkPhase,
         UNCHANGED <<heapVars, stack, running>>,
         NEW M \in SUBSET alive, NEW B \in SUBSET alive, Coloring(M, B),
         \A o \in Objects : color[o] \notin Whites \/ o \in M \cup B => color'[o] \notin Whites
  PROVE  /\ color'[MainThread] \notin Whites /\ color'[Registry] \notin Whites
         /\ gcstate \in {"remarkweak", "remarkagain", "marktmu"} =>
              color'[cur] \notin Whites /\ (gmt # NoObj => color'[gmt] \notin Whites)
         /\ gcstate \in AtomicStates =>
              \A u \in OpenUpvals : color'[u] = "gray" /\ UpvalValue(u) # NoObj => color'[UpvalValue(u)] \notin Whites
         /\ \A o \in RemarkedLists : \A r \in StrongRefs(o) : color'[r] \notin Whites
         /\ UNCHANGED cur /\ OpenUpvals' = OpenUpvals
         /\ \A o \in Objects : StrongRefs(o)' = StrongRefs(o) /\ UpvalValue(o)' = UpvalValue(o)
<1>1. /\ TypeOK /\ RefsByKind /\ Remarked
      /\ MainThread \in Objects /\ Registry \in Objects /\ cur \in Objects
      /\ gmt # NoObj => gmt \in Objects
      /\ UNCHANGED <<alive, meta, fields, entries, uvloc, uvval, gmt>>
  BY Basics, KindsAssumption DEF FullInv, Safety, heapVars, TypeOK, ProgramType
<1>2. color'[MainThread] \notin Whites /\ color'[Registry] \notin Whites
  BY <1>1 DEF Remarked, iswhite
<1>3. gcstate \in {"remarkweak", "remarkagain", "marktmu"} =>
        color'[cur] \notin Whites /\ (gmt # NoObj => color'[gmt] \notin Whites)
  BY <1>1 DEF Remarked, iswhite
<1>4. ASSUME gcstate \in AtomicStates, NEW u \in OpenUpvals, color'[u] = "gray", UpvalValue(u) # NoObj
      PROVE  color'[UpvalValue(u)] \notin Whites
  <2>1. u \in Upvals /\ u \in Objects /\ Refs(u) = {UpvalValue(u)} \ {NoObj} /\ UpvalValue(u) \in Objects
    BY <1>1, <1>4 DEF RefsByKind, OpenUpvals
  <2>2. CASE u \in M \cup B
    BY <1>4, <2>1, <2>2 DEF Coloring
  <2>3. CASE u \notin M \cup B
    <3>1. color[u] = "gray"
      BY <1>4, <2>1, <2>3 DEF Coloring
    <3>2. color[UpvalValue(u)] \notin Whites
      BY <1>1, <1>4, <3>1 DEF Remarked, iswhite
    <3> QED BY <2>1, <3>2
  <2> QED BY <2>2, <2>3
<1>5. ASSUME NEW o \in RemarkedLists, NEW r \in StrongRefs(o) PROVE color'[r] \notin Whites
  <2>1. o \in Objects
    BY <1>1 DEF RemarkedLists, TypeOK, CollectorType
  <2>2. r \in Objects /\ color[r] \notin Whites
    BY <1>1, <1>5, <2>1 DEF Remarked, iswhite, RefsByKind
  <2> QED BY <2>2
<1>6. UNCHANGED cur /\ OpenUpvals' = OpenUpvals
  BY <1>1 DEF cur, OpenUpvals, IsOpen
<1>7. \A o \in Objects : StrongRefs(o)' = StrongRefs(o) /\ UpvalValue(o)' = UpvalValue(o)
  BY <1>1, RefsAllSame
<1> QED BY <1>2, <1>3, <1>4, <1>5, <1>6, <1>7

(***************************************************************************)
(* The steps of the mark phase.                                            *)
(***************************************************************************)
LEMMA MarkRootSafety ==
  ASSUME FullInv, TypeOK', MarkRoot
  PROVE  Safety'
<1> DEFINE S == {MainThread, stack[MainThread][GlobalSlot], Registry, gmt}
           M == Marked(S)
<1>1. /\ TypeOK /\ RefsByKind /\ Live \subseteq alive /\ Live \subseteq Objects
      /\ MainThread \in Live /\ Registry \in Live /\ (gmt # NoObj => gmt \in Live)
      /\ Range(tmudata) \subseteq Live /\ \A o \in Live : Refs(o) \subseteq Live
      /\ currentwhite \in Whites /\ otherwhite \in Whites /\ currentwhite # otherwhite
      /\ SweepComplete /\ NeverGray
  BY Basics DEF FullInv, Safety
<1>2. /\ gcstate \notin MarkPhase \cup SweepStates /\ gcstate' = "propagate"
      /\ color' = Recolor(S) /\ gray' = {} \cup (M \cap HasGclist) /\ grayagain' = {} /\ weak' = {}
      /\ UNCHANGED <<heapVars, stack, running, tmudata, unswept, sweepstrgc, strsize, currentwhite>>
      /\ UNCHANGED <<alive, uvloc>>
  BY DEF MarkRoot, MarkFrom, MarkPhase, udVars, heapVars
<1>3. \A o \in alive : color[o] = currentwhite \/ o \in Range(tmudata)
  BY <1>1, <1>2 DEF SweepComplete, StillToSweep
<1>4. Live = alive
  BY <1>1, <1>3 DEF Live, isdead
<1>5. S \subseteq Live \cup {NoObj}
  <2>1. Refs(MainThread) = (Range(stack[MainThread]) \cup Resumed(MainThread)) \ {NoObj}
    BY <1>1, KindsAssumption DEF RefsByKind
  <2>2. stack[MainThread][GlobalSlot] \in Range(stack[MainThread])
    BY <1>1, KindsAssumption DEF Range, TypeOK, ProgramType
  <2> QED BY <1>1, <2>1, <2>2
<1> HIDE DEF S
<1>6. Coloring(M, {}) /\ M \in SUBSET alive /\ \A o \in S : o # NoObj /\ color[o] \in Whites => o \in M
  BY <1>2, <1>4, <1>5, MarkFromColoring
<1> HIDE DEF M
<1>7. \A o \in alive : color[o] = "black" => o \in Range(tmudata)
  BY <1>1, <1>3
<1>8. Range(tmudata)' = Range(tmudata) /\ {} \in SUBSET alive /\ gcstate' \in MarkPhase /\ gcstate' # "marktmu"
  BY <1>2 DEF Range, MarkPhase
<1>9. /\ CheckLiveness' /\ TriColor' /\ SweepComplete' /\ NeverGray' /\ OpenListed' /\ FreedEmpty'
      /\ running'[1] = MainThread
      /\ \A o \in Objects : color[o] \notin Whites \/ o \in M \cup {} => color'[o] \notin Whites
  BY <1>1, <1>2, <1>4, <1>6, <1>7, <1>8, MarkingStep
<1>10. GrayLists'
  <2>1. \A o \in alive : color[o] # "gray"
    <3>1. Range(tmudata) \subseteq Udatas
      BY <1>1, RangeType DEF TypeOK, CollectorType
    <3> QED BY <1>1, <1>3, <3>1 DEF NeverGray
  <2>2. /\ {} \in SUBSET HasGclist /\ alive \subseteq Objects /\ {} \subseteq {o \in alive : color[o] = "gray"}
        /\ \A o \in alive : color[o] = "gray" => o \in {} \cup Strings \cup OpenUpvals
    BY <1>1, <2>1 DEF TypeOK, HeapType
  <2>3. /\ gray' = {} \cup ((M \ {}) \cap HasGclist) /\ {} \cup grayagain' \cup weak' = {} \ {}
        /\ {} \cap (grayagain' \cup weak') = {} /\ grayagain' \cap weak' = {}
    BY <1>2
  <2> QED BY <1>1, <1>2, <1>6, <1>8, <2>2, <2>3, GrayListsStep
<1>11. Remarked'
  <2>1. MainThread \in S /\ Registry \in S /\ MainThread # NoObj /\ Registry # NoObj
    BY KindsAssumption DEF S
  <2>2. color'[MainThread] \notin Whites /\ color'[Registry] \notin Whites
    BY <1>1, <1>6, <1>9, <2>1
  <2> QED BY <1>2, <2>2, RemarkedRunningPrime DEF iswhite
<1> QED BY <1>9, <1>10, <1>11 DEF Safety

(* The state of the mark phase, for the steps that follow.                 *)
LEMMA MarkPhaseFacts ==
  ASSUME FullInv, gcstate \in MarkPhase
  PROVE  /\ TypeOK /\ RefsByKind /\ Live = alive /\ alive \subseteq Objects
         /\ Range(tmudata) \subseteq alive /\ cur \in alive /\ (gmt # NoObj => gmt \in alive)
         /\ \A o \in alive : Refs(o) \subseteq alive /\ StrongRefs(o) \subseteq alive
         /\ \A o \in alive : color[o] = "black" /\ (o \in Range(tmudata) => gcstate = "marktmu")
                               => \A r \in Refs(o) : color[r] \notin Whites
         /\ gray \cup grayagain \cup weak \in SUBSET HasGclist
         /\ gray \cup grayagain \cup weak \subseteq {o \in alive : color[o] = "gray"}
         /\ gray \cap (grayagain \cup weak) = {} /\ grayagain \cap weak = {}
         /\ \A o \in alive : color[o] = "gray" =>
              o \in gray \cup grayagain \cup weak \cup Strings \cup OpenUpvals
<1>1. /\ TypeOK /\ RefsByKind /\ Live = alive /\ alive \subseteq Objects
      /\ Range(tmudata) \subseteq alive /\ cur \in alive /\ (gmt # NoObj => gmt \in alive)
      /\ \A o \in alive : Refs(o) \subseteq alive
  BY Basics
<1>2. \A o \in alive : StrongRefs(o) \subseteq alive
  BY <1>1 DEF RefsByKind
<1>3. \A o \in alive : color[o] = "black" /\ (o \in Range(tmudata) => gcstate = "marktmu")
                        => \A r \in Refs(o) : color[r] \notin Whites
  BY DEF FullInv, Safety, TriColor, isblack, iswhite
<1>4. gray \cup grayagain \cup weak \in SUBSET HasGclist
  BY <1>1 DEF TypeOK, CollectorType
<1>5. /\ gray \cup grayagain \cup weak \subseteq {o \in alive : color[o] = "gray"}
      /\ gray \cap (grayagain \cup weak) = {} /\ grayagain \cap weak = {}
      /\ \A o \in alive : color[o] = "gray" =>
           o \in gray \cup grayagain \cup weak \cup Strings \cup OpenUpvals
  BY DEF FullInv, Safety, GrayLists
<1> QED BY <1>1, <1>2, <1>3, <1>4, <1>5

LEMMA RemarkUpvalsSafety ==
  ASSUME FullInv, TypeOK', RemarkUpvals
  PROVE  Safety'
<1> DEFINE S == {UpvalValue(u) : u \in {w \in OpenUpvals : color[w] = "gray"}}
           M == Marked(S)
           L == gray \cup grayagain \cup weak
<1>1. /\ gcstate = "propagate" /\ gray = {} /\ gcstate' = "remarkupvals"
      /\ gcstate \in MarkPhase /\ gcstate' \in MarkPhase
      /\ color' = Recolor(S) /\ gray' = {} \cup (M \cap HasGclist)
      /\ UNCHANGED <<heapVars, stack, running, tmudata, grayagain, weak, unswept, sweepstrgc, strsize, currentwhite>>
      /\ UNCHANGED <<alive, uvloc>>
  BY DEF RemarkUpvals, AtomicStage, MarkFrom, MarkPhase, udVars, heapVars
<1>2. /\ TypeOK /\ RefsByKind /\ Live = alive /\ alive \subseteq Objects
      /\ Range(tmudata) \subseteq alive /\ \A o \in alive : Refs(o) \subseteq alive
      /\ \A o \in alive : color[o] = "black" /\ (o \in Range(tmudata) => gcstate = "marktmu")
                               => \A r \in Refs(o) : color[r] \notin Whites
      /\ L \in SUBSET HasGclist /\ L \subseteq {o \in alive : color[o] = "gray"}
      /\ grayagain \cap weak = {}
      /\ \A o \in alive : color[o] = "gray" => o \in L \cup Strings \cup OpenUpvals
  BY <1>1, MarkPhaseFacts
<1>3. S \subseteq Live \cup {NoObj}
  <2>1. \A u \in OpenUpvals : u \in alive /\ Refs(u) = {UpvalValue(u)} \ {NoObj}
    BY <1>2 DEF OpenUpvals, RefsByKind
  <2>2. \A u \in OpenUpvals : UpvalValue(u) \in Live \cup {NoObj}
    BY <1>2, <2>1
  <2> QED BY <2>2
<1>4. \A u \in OpenUpvals : color[u] = "gray" => UpvalValue(u) \in S
  OBVIOUS
<1> HIDE DEF S, L
<1>5. Coloring(M, {}) /\ M \in SUBSET alive /\ \A o \in S : o # NoObj /\ color[o] \in Whites => o \in M
  BY <1>1, <1>2, <1>3, MarkFromColoring
<1> HIDE DEF M
<1>6. Range(tmudata)' = Range(tmudata) /\ {} \in SUBSET alive /\ gcstate' # "marktmu"
  BY <1>1 DEF Range
<1>7. /\ CheckLiveness' /\ TriColor' /\ SweepComplete' /\ NeverGray' /\ OpenListed' /\ FreedEmpty'
      /\ running'[1] = MainThread
      /\ \A o \in Objects : color[o] \notin Whites \/ o \in M \cup {} => color'[o] \notin Whites
  BY <1>1, <1>2, <1>5, <1>6, MarkingStep
<1>8. GrayLists'
  <2>1. /\ gray' = {} \cup ((M \ {}) \cap HasGclist) /\ {} \cup grayagain' \cup weak' = L \ {}
        /\ {} \cap (grayagain' \cup weak') = {} /\ grayagain' \cap weak' = {}
    BY <1>1, <1>2 DEF L
  <2> QED BY <1>1, <1>2, <1>5, <1>6, <2>1, GrayListsStep
<1>9. /\ color'[MainThread] \notin Whites /\ color'[Registry] \notin Whites
      /\ OpenUpvals' = OpenUpvals /\ \A o \in Objects : UpvalValue(o)' = UpvalValue(o)
  BY <1>1, <1>5, <1>6, <1>7, RemarkedKept
<1>10. ASSUME NEW u \in OpenUpvals, color'[u] = "gray", UpvalValue(u) # NoObj
       PROVE  color'[UpvalValue(u)] \notin Whites
  <2>1. u \in Upvals /\ u \in Objects /\ Refs(u) = {UpvalValue(u)} \ {NoObj} /\ UpvalValue(u) \in Objects
    BY <1>2, <1>10 DEF RefsByKind, OpenUpvals
  <2>2. CASE u \in M
    BY <1>5, <1>7, <1>10, <2>1, <2>2 DEF Coloring
  <2>3. CASE u \notin M
    <3>1. color[u] = "gray"
      BY <1>5, <1>10, <2>1, <2>3 DEF Coloring
    <3>2. color[UpvalValue(u)] \in Whites => UpvalValue(u) \in M
      BY <1>4, <1>5, <1>10, <3>1
    <3> QED BY <1>7, <2>1, <3>2
  <2> QED BY <2>2, <2>3
<1>11. Remarked'
  <2>1. \A u \in OpenUpvals' : color'[u] = "gray" /\ UpvalValue(u)' # NoObj => color'[UpvalValue(u)'] \notin Whites
    BY <1>9, <1>10 DEF OpenUpvals
  <2>2. RemarkedLists' = {}
    BY <1>1 DEF RemarkedLists
  <2> QED BY <1>1, <1>9, <2>1, <2>2 DEF Remarked, iswhite
<1> QED BY <1>7, <1>8, <1>11 DEF Safety

LEMMA RemarkWeakSafety ==
  ASSUME FullInv, TypeOK', RemarkWeak
  PROVE  Safety'
<1> DEFINE S == {cur, gmt}
           M == Marked(S)
           L == gray \cup grayagain \cup weak
<1>1. /\ gcstate = "remarkupvals" /\ gray = {} /\ gcstate' = "remarkweak"
      /\ gcstate \in MarkPhase /\ gcstate' \in MarkPhase
      /\ color' = Recolor(S) /\ gray' = weak \cup (M \cap HasGclist) /\ weak' = {}
      /\ UNCHANGED <<heapVars, stack, running, tmudata, grayagain, unswept, sweepstrgc, strsize, currentwhite>>
      /\ UNCHANGED <<alive, uvloc, gmt>>
  BY DEF RemarkWeak, AtomicStage, MarkFrom, MarkPhase, udVars, heapVars
<1>2. /\ TypeOK /\ RefsByKind /\ Live = alive /\ alive \subseteq Objects
      /\ Range(tmudata) \subseteq alive /\ cur \in alive /\ (gmt # NoObj => gmt \in alive)
      /\ \A o \in alive : color[o] = "black" /\ (o \in Range(tmudata) => gcstate = "marktmu")
                               => \A r \in Refs(o) : color[r] \notin Whites
      /\ L \in SUBSET HasGclist /\ L \subseteq {o \in alive : color[o] = "gray"}
      /\ grayagain \cap weak = {}
      /\ \A o \in alive : color[o] = "gray" => o \in L \cup Strings \cup OpenUpvals
  BY <1>1, MarkPhaseFacts
<1>3. S \subseteq Live \cup {NoObj} /\ cur \in S /\ gmt \in S
  BY <1>2
<1> HIDE DEF S, L
<1>4. Coloring(M, {}) /\ M \in SUBSET alive /\ \A o \in S : o # NoObj /\ color[o] \in Whites => o \in M
  BY <1>1, <1>2, <1>3, MarkFromColoring
<1> HIDE DEF M
<1>5. Range(tmudata)' = Range(tmudata) /\ {} \in SUBSET alive /\ gcstate' # "marktmu"
  BY <1>1 DEF Range
<1>6. /\ CheckLiveness' /\ TriColor' /\ SweepComplete' /\ NeverGray' /\ OpenListed' /\ FreedEmpty'
      /\ running'[1] = MainThread
      /\ \A o \in Objects : color[o] \notin Whites \/ o \in M \cup {} => color'[o] \notin Whites
  BY <1>1, <1>2, <1>4, <1>5, MarkingStep
<1>7. GrayLists'
  <2>1. /\ gray' = weak \cup ((M \ {}) \cap HasGclist) /\ weak \cup grayagain' \cup weak' = L \ {}
        /\ weak \cap (grayagain' \cup weak') = {} /\ grayagain' \cap weak' = {}
    BY <1>1, <1>2 DEF L
  <2> QED BY <1>1, <1>2, <1>4, <1>5, <2>1, GrayListsStep
<1>8. /\ color'[MainThread] \notin Whites /\ color'[Registry] \notin Whites
      /\ gcstate \in AtomicStates =>
           \A u \in OpenUpvals : color'[u] = "gray" /\ UpvalValue(u) # NoObj => color'[UpvalValue(u)] \notin Whites
      /\ UNCHANGED cur /\ OpenUpvals' = OpenUpvals /\ \A o \in Objects : UpvalValue(o)' = UpvalValue(o)
  BY <1>1, <1>4, <1>5, <1>6, RemarkedKept
<1>9. color'[cur] \notin Whites /\ (gmt # NoObj => color'[gmt] \notin Whites)
  <2>1. cur # NoObj
    BY <1>2, KindsAssumption
  <2> QED BY <1>2, <1>3, <1>4, <1>6, <2>1
<1>10. Remarked'
  <2>1. \A u \in OpenUpvals' : color'[u] = "gray" /\ UpvalValue(u)' # NoObj => color'[UpvalValue(u)'] \notin Whites
    BY <1>1, <1>8 DEF OpenUpvals
  <2>2. RemarkedLists' = {}
    BY <1>1 DEF RemarkedLists
  <2> QED BY <1>1, <1>8, <1>9, <2>1, <2>2 DEF Remarked, iswhite
<1> QED BY <1>6, <1>7, <1>10 DEF Safety

LEMMA RemarkAgainSafety ==
  ASSUME FullInv, TypeOK', RemarkAgain
  PROVE  Safety'
<1> DEFINE L == gray \cup grayagain \cup weak
<1>1. /\ gcstate = "remarkweak" /\ gray = {} /\ gcstate' = "remarkagain"
      /\ gcstate \in MarkPhase /\ gcstate' \in MarkPhase /\ gcstate \in AtomicStates
      /\ color' = color /\ gray' = grayagain /\ grayagain' = {}
      /\ UNCHANGED <<heapVars, stack, running, tmudata, weak, unswept, sweepstrgc, strsize, currentwhite>>
      /\ UNCHANGED <<alive, uvloc, gmt>>
  BY DEF RemarkAgain, AtomicStage, MarkPhase, udVars, heapVars
<1>2. /\ TypeOK /\ RefsByKind /\ Live = alive /\ alive \subseteq Objects
      /\ Range(tmudata) \subseteq alive
      /\ \A o \in alive : color[o] = "black" /\ (o \in Range(tmudata) => gcstate = "marktmu")
                               => \A r \in Refs(o) : color[r] \notin Whites
      /\ L \in SUBSET HasGclist /\ L \subseteq {o \in alive : color[o] = "gray"}
      /\ grayagain \cap weak = {}
      /\ \A o \in alive : color[o] = "gray" => o \in L \cup Strings \cup OpenUpvals
  BY <1>1, MarkPhaseFacts
<1> HIDE DEF L
<1>3. Coloring({}, {}) /\ {} \in SUBSET alive
  BY <1>1 DEF Coloring
<1>4. Range(tmudata)' = Range(tmudata) /\ gcstate' # "marktmu"
  BY <1>1 DEF Range
<1>5. /\ CheckLiveness' /\ TriColor' /\ SweepComplete' /\ NeverGray' /\ OpenListed' /\ FreedEmpty'
      /\ running'[1] = MainThread
      /\ \A o \in Objects : color[o] \notin Whites \/ o \in {} \cup {} => color'[o] \notin Whites
  BY <1>1, <1>2, <1>3, <1>4, MarkingStep
<1>6. GrayLists'
  <2>1. /\ gray' = grayagain \cup (({} \ {}) \cap HasGclist) /\ grayagain \cup grayagain' \cup weak' = L \ {}
        /\ grayagain \cap (grayagain' \cup weak') = {} /\ grayagain' \cap weak' = {}
    BY <1>1, <1>2 DEF L
  <2> QED BY <1>1, <1>2, <1>3, <2>1, GrayListsStep
<1>7. /\ color'[MainThread] \notin Whites /\ color'[Registry] \notin Whites
      /\ gcstate \in {"remarkweak", "remarkagain", "marktmu"} =>
           color'[cur] \notin Whites /\ (gmt # NoObj => color'[gmt] \notin Whites)
      /\ gcstate \in AtomicStates =>
           \A u \in OpenUpvals : color'[u] = "gray" /\ UpvalValue(u) # NoObj => color'[UpvalValue(u)] \notin Whites
      /\ \A o \in RemarkedLists : \A r \in StrongRefs(o) : color'[r] \notin Whites
      /\ UNCHANGED cur /\ OpenUpvals' = OpenUpvals
      /\ \A o \in Objects : StrongRefs(o)' = StrongRefs(o) /\ UpvalValue(o)' = UpvalValue(o)
  BY <1>1, <1>3, <1>5, RemarkedKept
<1>8. Remarked'
  <2>1. \A u \in OpenUpvals' : color'[u] = "gray" /\ UpvalValue(u)' # NoObj => color'[UpvalValue(u)'] \notin Whites
    BY <1>1, <1>7 DEF OpenUpvals
  <2>2. RemarkedLists' = weak /\ RemarkedLists = weak
    BY <1>1 DEF RemarkedLists
  <2>3. weak \subseteq Objects
    BY <1>2 DEF TypeOK, CollectorType
  <2>4. \A o \in RemarkedLists' : \A r \in StrongRefs(o)' : color'[r] \notin Whites
    BY <1>7, <2>2, <2>3
  <2> QED BY <1>1, <1>7, <2>1, <2>4 DEF Remarked, iswhite
<1> QED BY <1>5, <1>6, <1>8 DEF Safety

(* The colors that propagatemark gives: it blackens o, unless o is weak or  *)
(* a thread.                                                               *)
LEMMA PropagateColoring ==
  ASSUME FullInv, NEW o \in Objects, gcstate \in MarkPhase, PropagateMark(o),
         NEW B, B = IF WeakMode(o) = {} /\ o \notin Threads THEN {o} ELSE {}
  PROVE  /\ Coloring(Marked(StrongRefs(o)), B) /\ Marked(StrongRefs(o)) \in SUBSET alive /\ B \in SUBSET alive
         /\ \A r \in StrongRefs(o) : color[r] \in Whites => r \in Marked(StrongRefs(o))
         /\ o \in alive /\ color[o] = "gray" /\ o \notin Marked(StrongRefs(o))
<1> DEFINE S == StrongRefs(o)
           M == Marked(S)
<1>1. /\ TypeOK /\ RefsByKind /\ Live = alive /\ alive \subseteq Objects
      /\ \A p \in alive : StrongRefs(p) \subseteq alive
      /\ gray \cup grayagain \cup weak \subseteq {p \in alive : color[p] = "gray"}
  BY MarkPhaseFacts
<1>2. o \in alive /\ color[o] = "gray" /\ S \subseteq Live \cup {NoObj} /\ S \subseteq Objects
  BY <1>1 DEF PropagateMark
<1>3. /\ M \subseteq Live /\ \A p \in M : iswhite(p)
      /\ \A p \in S : p # NoObj /\ iswhite(p) => p \in M
      /\ \A p \in M \cap (Udatas \cup Upvals) : \A r \in Refs(p) : iswhite(r) => r \in M
  BY <1>1, <1>2, MarkedFacts DEF FullInv, Safety
<1>4. \A p \in Objects : p \in M =>
        /\ color'[p] \in {"gray", "black"}
        /\ color'[p] = "black" => p \in Udatas \cup Upvals /\ p \notin OpenUpvals
        /\ color'[p] = "gray" => p \in HasGclist \cup Strings \cup OpenUpvals
  <2> SUFFICES ASSUME NEW p \in Objects, p \in M
               PROVE  /\ color'[p] \in {"gray", "black"}
                      /\ color'[p] = "black" => p \in Udatas \cup Upvals /\ p \notin OpenUpvals
                      /\ color'[p] = "gray" => p \in HasGclist \cup Strings \cup OpenUpvals
    OBVIOUS
  <2>1. color'[p] = Recolor(S)[p]
    BY DEF PropagateMark, Recolor
  <2> QED BY <1>2, <2>1, RecolorFacts
<1>5. \A p \in Objects \ M : color'[p] = IF p \in B THEN "black" ELSE color[p]
  BY DEF PropagateMark
<1>6. o \notin M
  BY <1>2, <1>3 DEF iswhite
<1>7. \A p \in B : p = o /\ Refs(p) = S
  BY <1>1 DEF RefsByKind
<1> HIDE DEF M, S
<1>8. \A r \in S : iswhite(r) => r \in M
  BY <1>2, <1>3, KindsAssumption
<1>9. Coloring(M, B)
  <2>1. \A p \in B : color'[p] = "black" /\ \A r \in Refs(p) : color[r] \in Whites => r \in M \cup B
    BY <1>2, <1>1, <1>5, <1>6, <1>7, <1>8 DEF iswhite
  <2>2. \A p \in M : /\ color[p] \in Whites
                     /\ \/ color'[p] = "black" /\ p \in Udatas \cup Upvals /\ p \notin OpenUpvals
                        \/ color'[p] = "gray" /\ p \in HasGclist \cup Strings \cup OpenUpvals
                        \/ p \in B
                     /\ p \in Udatas \cup Upvals => \A r \in Refs(p) : color[r] \in Whites => r \in M \cup B
    BY <1>1, <1>3, <1>4 DEF iswhite
  <2> QED BY <1>5, <2>1, <2>2 DEF Coloring
<1> QED BY <1>1, <1>2, <1>3, <1>6, <1>7, <1>8, <1>9 DEF iswhite, S, M

LEMMA PropagateMarkSafety ==
  ASSUME FullInv, TypeOK', NEW o \in Objects, PropagateMark(o)
  PROVE  Safety'
<1> DEFINE M == Marked(StrongRefs(o))
           B == IF WeakMode(o) = {} /\ o \notin Threads THEN {o} ELSE {}
           L == gray \cup grayagain \cup weak
<1>1. /\ gcstate \in MarkPhase /\ gcstate' = gcstate /\ o \in gray
      /\ gray' = (gray \ {o}) \cup (M \cap HasGclist)
      /\ weak' = IF WeakMode(o) # {} THEN weak \cup {o} ELSE weak
      /\ grayagain' = IF o \in Threads THEN grayagain \cup {o} ELSE grayagain
      /\ UNCHANGED <<heapVars, stack, running, tmudata, unswept, sweepstrgc, strsize, currentwhite>>
      /\ UNCHANGED <<alive, uvloc, gmt>>
  BY DEF PropagateMark, MarkPhase, udVars, heapVars, ctlVars
<1>2. /\ TypeOK /\ RefsByKind /\ Live = alive /\ alive \subseteq Objects
      /\ Range(tmudata) \subseteq alive
      /\ \A p \in alive : color[p] = "black" /\ (p \in Range(tmudata) => gcstate = "marktmu")
                               => \A r \in Refs(p) : color[r] \notin Whites
      /\ L \in SUBSET HasGclist /\ L \subseteq {p \in alive : color[p] = "gray"}
      /\ gray \cap (grayagain \cup weak) = {} /\ grayagain \cap weak = {}
      /\ \A p \in alive : color[p] = "gray" => p \in L \cup Strings \cup OpenUpvals
  BY <1>1, MarkPhaseFacts
<1>3. /\ Coloring(M, B) /\ M \in SUBSET alive /\ B \in SUBSET alive
      /\ \A r \in StrongRefs(o) : color[r] \in Whites => r \in M
      /\ o \in alive /\ color[o] = "gray" /\ o \notin M
  BY <1>1, PropagateColoring
<1>4. /\ WeakMode(o) # {} => o \in Tables /\ o \notin Threads
      /\ StrongRefs(o) \subseteq Objects
  BY <1>2, KindsAssumption DEF RefsByKind
<1>5. /\ gray' = (gray \ {o}) \cup ((M \ B) \cap HasGclist)
      /\ (gray \ {o}) \cup grayagain' \cup weak' = L \ B
      /\ (gray \ {o}) \cap (grayagain' \cup weak') = {} /\ grayagain' \cap weak' = {}
  <2>1. M \ B = M
    BY <1>3
  <2>2. CASE WeakMode(o) # {}
    BY <1>1, <1>2, <1>4, <2>1, <2>2
  <2>3. CASE WeakMode(o) = {} /\ o \in Threads
    BY <1>1, <1>2, <2>1, <2>3
  <2>4. CASE WeakMode(o) = {} /\ o \notin Threads
    BY <1>1, <1>2, <2>1, <2>4
  <2> QED BY <2>2, <2>3, <2>4
<1> HIDE DEF M, B, L
<1>6. Range(tmudata)' = Range(tmudata)
  BY <1>1 DEF Range
<1>7. /\ CheckLiveness' /\ TriColor' /\ SweepComplete' /\ NeverGray' /\ OpenListed' /\ FreedEmpty'
      /\ running'[1] = MainThread
      /\ \A p \in Objects : color[p] \notin Whites \/ p \in M \cup B => color'[p] \notin Whites
  BY <1>1, <1>2, <1>3, <1>6, MarkingStep
<1>8. GrayLists'
  BY <1>1, <1>2, <1>3, <1>5, GrayListsStep
<1>9. /\ color'[MainThread] \notin Whites /\ color'[Registry] \notin Whites
      /\ gcstate \in {"remarkweak", "remarkagain", "marktmu"} =>
           color'[cur] \notin Whites /\ (gmt # NoObj => color'[gmt] \notin Whites)
      /\ gcstate \in AtomicStates =>
           \A u \in OpenUpvals : color'[u] = "gray" /\ UpvalValue(u) # NoObj => color'[UpvalValue(u)] \notin Whites
      /\ \A p \in RemarkedLists : \A r \in StrongRefs(p) : color'[r] \notin Whites
      /\ UNCHANGED cur /\ OpenUpvals' = OpenUpvals
      /\ \A p \in Objects : StrongRefs(p)' = StrongRefs(p) /\ UpvalValue(p)' = UpvalValue(p)
  BY <1>1, <1>3, <1>7, RemarkedKept
<1>10. Remarked'
  <2>1. gcstate' \in AtomicStates =>
          \A u \in OpenUpvals' : color'[u] = "gray" /\ UpvalValue(u)' # NoObj => color'[UpvalValue(u)'] \notin Whites
    BY <1>1, <1>9 DEF OpenUpvals
  <2>2. RemarkedLists' \subseteq RemarkedLists \cup {o} /\ RemarkedLists \subseteq Objects
    BY <1>1, <1>2 DEF RemarkedLists, TypeOK, CollectorType
  <2>3. \A r \in StrongRefs(o) : color'[r] \notin Whites
    BY <1>3, <1>4, <1>7
  <2>4. \A p \in RemarkedLists' : \A r \in StrongRefs(p)' : color'[r] \notin Whites
    BY <1>9, <2>2, <2>3
  <2>5. gcstate' \in {"remarkagain", "marktmu"} => grayagain' \subseteq Threads
    BY <1>1 DEF FullInv, Safety, Remarked
  <2>6. gcstate' = "marktmu" => \A u \in Range(tmudata)' : color'[u] = "black"
    <3> SUFFICES ASSUME gcstate = "marktmu", NEW u \in Range(tmudata) PROVE color'[u] = "black"
      BY <1>1, <1>6
    <3>1. color[u] = "black" /\ u \in Objects
      BY <1>2 DEF FullInv, Safety, Remarked, isblack
    <3> QED BY <1>3, <3>1 DEF Coloring
  <2> QED BY <1>1, <1>9, <2>1, <2>4, <2>5, <2>6 DEF Remarked, iswhite, isblack
<1> QED BY <1>7, <1>8, <1>10 DEF Safety

LEMMA MarkTmuSafety ==
  ASSUME FullInv, TypeOK', MarkTmu
  PROVE  Safety'
<1> DEFINE B == Range(tmudata')
           M == {o \in UNION {OwnRefs(u) : u \in B} : o # NoObj /\ iswhite(o)}
           L == gray \cup grayagain \cup weak
<1>1. /\ gcstate = "remarkagain" /\ gray = {} /\ gcstate' = "marktmu"
      /\ gcstate \in MarkPhase /\ gcstate' \in MarkPhase /\ gcstate \in AtomicStates
      /\ luaC_separateudata(FALSE)
      /\ color' = [o \in Objects |-> IF o \in B THEN "black" ELSE IF o \in M THEN "gray" ELSE color[o]]
      /\ gray' = M \cap HasGclist
      /\ UNCHANGED <<heapVars, stack, running, grayagain, weak, unswept, sweepstrgc, strsize, currentwhite>>
      /\ UNCHANGED <<alive, uvloc, gmt>>
  BY DEF MarkTmu, AtomicStage, MarkPhase, heapVars
<1>2. /\ TypeOK /\ RefsByKind /\ Live = alive /\ alive \subseteq Objects
      /\ Range(tmudata) \subseteq alive /\ \A o \in alive : Refs(o) \subseteq alive
      /\ \A o \in alive : color[o] = "black" /\ (o \in Range(tmudata) => gcstate = "marktmu")
                               => \A r \in Refs(o) : color[r] \notin Whites
      /\ L \in SUBSET HasGclist /\ L \subseteq {o \in alive : color[o] = "gray"}
      /\ grayagain \cap weak = {}
      /\ \A o \in alive : color[o] = "gray" => o \in L \cup Strings \cup OpenUpvals
  BY <1>1, MarkPhaseFacts
<1>3. B \in SUBSET alive /\ B \subseteq Udatas /\ Range(tmudata) \subseteq B
  <2>1. /\ tmudata' \in Seq(Udatas)
        /\ Range(tmudata') = Range(tmudata) \cup {u \in NotFinalized(FALSE) : HasFinalizer(u)}
    BY <1>1, <1>2, SeparateType
  <2>2. Range(udlist) \subseteq alive
    BY DEF FullInv, ListsInv, UdataLists
  <2> QED BY <1>2, <2>1, <2>2, RangeType DEF NotFinalized
<1>4. M \in SUBSET alive /\ M \subseteq Tables /\ \A p \in M : color[p] \in Whites
  <2> SUFFICES ASSUME NEW u \in B, NEW p \in OwnRefs(u), p # NoObj
               PROVE  p \in alive /\ p \in Tables
    BY DEF iswhite
  <2>1. u \in alive /\ u \in Objects /\ u \in Udatas
    BY <1>2, <1>3
  <2>2. p \in Refs(u)
    BY <2>1 DEF Refs
  <2> QED BY <1>2, <2>1, <2>2 DEF RefsByKind
<1>5. \A p \in B : \A r \in Refs(p) : color[r] \in Whites => r \in M
  <2> SUFFICES ASSUME NEW p \in B, NEW r \in Refs(p), color[r] \in Whites PROVE r \in M
    OBVIOUS
  <2>1. Refs(p) = (fields[p] \cup {meta[p]}) \ {NoObj}
    BY <1>2, <1>3 DEF RefsByKind
  <2>2. r \in OwnRefs(p) /\ r # NoObj
    BY <2>1 DEF OwnRefs
  <2> QED BY <2>2 DEF iswhite
<1> HIDE DEF M, B, L
<1>6. M \cap B = {} /\ \A p \in M : p \notin Udatas \cup Upvals /\ p \in HasGclist
  BY <1>3, <1>4, KindsAssumption
<1>7. Coloring(M, B)
  BY <1>1, <1>2, <1>3, <1>4, <1>5, <1>6 DEF Coloring
<1>8. Range(tmudata)' = B
  BY DEF Range, B
<1>9. \A o \in alive \ B : color[o] = "black" /\ (o \in Range(tmudata)' => gcstate' = "marktmu")
                             => \A r \in Refs(o) : color[r] \notin Whites
  BY <1>2, <1>3
<1>10. /\ CheckLiveness' /\ TriColor' /\ SweepComplete' /\ NeverGray' /\ OpenListed' /\ FreedEmpty'
       /\ running'[1] = MainThread
       /\ \A o \in Objects : color[o] \notin Whites \/ o \in M \cup B => color'[o] \notin Whites
  BY <1>1, <1>2, <1>3, <1>4, <1>7, <1>8, <1>9, MarkingStep
<1>11. GrayLists'
  <2>1. M \ B = M /\ L \ B = L
    BY <1>2, <1>3, <1>6, KindsAssumption
  <2>2. /\ gray' = {} \cup ((M \ B) \cap HasGclist) /\ {} \cup grayagain' \cup weak' = L \ B
        /\ {} \cap (grayagain' \cup weak') = {} /\ grayagain' \cap weak' = {}
    BY <1>1, <1>2, <2>1 DEF L
  <2> QED BY ZenonT(40), <1>1, <1>2, <1>3, <1>4, <1>7, <2>2, GrayListsStep
<1>12. /\ color'[MainThread] \notin Whites /\ color'[Registry] \notin Whites
       /\ gcstate \in {"remarkweak", "remarkagain", "marktmu"} =>
            color'[cur] \notin Whites /\ (gmt # NoObj => color'[gmt] \notin Whites)
       /\ gcstate \in AtomicStates =>
            \A u \in OpenUpvals : color'[u] = "gray" /\ UpvalValue(u) # NoObj => color'[UpvalValue(u)] \notin Whites
       /\ \A o \in RemarkedLists : \A r \in StrongRefs(o) : color'[r] \notin Whites
       /\ UNCHANGED cur /\ OpenUpvals' = OpenUpvals
       /\ \A p \in Objects : StrongRefs(p)' = StrongRefs(p) /\ UpvalValue(p)' = UpvalValue(p)
  BY <1>1, <1>3, <1>4, <1>7, <1>10, RemarkedKept
<1>13. Remarked'
  <2>0. /\ gcstate' = "marktmu" /\ UNCHANGED <<gmt, grayagain>> /\ RemarkedLists' = RemarkedLists
        /\ gcstate = "remarkagain" /\ gcstate \in AtomicStates /\ OpenUpvals \subseteq Objects
        /\ RemarkedLists \subseteq Objects
    BY <1>1, <1>2 DEF RemarkedLists, TypeOK, CollectorType, OpenUpvals
  <2>1. \A u \in OpenUpvals' : color'[u] = "gray" /\ UpvalValue(u)' # NoObj => color'[UpvalValue(u)'] \notin Whites
    BY <1>12, <2>0
  <2>3. \A o \in RemarkedLists' : \A r \in StrongRefs(o)' : color'[r] \notin Whites
    BY <1>12, <2>0
  <2>4. grayagain' \subseteq Threads
    BY <2>0 DEF FullInv, Safety, Remarked
  <2>5. \A u \in Range(tmudata)' : color'[u] = "black"
    BY <1>7, <1>8 DEF Coloring
  <2> QED BY <2>0, <1>12, <2>1, <2>3, <2>4, <2>5 DEF Remarked, iswhite, isblack
<1> QED BY <1>10, <1>11, <1>13 DEF Safety

(***************************************************************************)
(* The end of atomic: what is white now is dead.                           *)
(***************************************************************************)

(* A set of naturals that is not empty has a least member.                  *)
LEMMA SmallestMember ==
  ASSUME NEW S \in SUBSET Nat, S # {}
  PROVE  \E n \in S : \A m \in S : n <= m
<1>1. PICK n \in S : \A m \in S : ~ (<<m, n>> \in OpToRel(<, Nat))
  BY NatLessThanWellFounded, WFMin
<1>2. \A m \in S : ~ (m < n)
  BY <1>1 DEF OpToRel
<1> QED BY <1>2

(* The threads that wait for one another are all marked, as each refers to  *)
(* the next: there is no first one that is not.                            *)
LEMMA RunningMarked ==
  ASSUME FullInv, gcstate = "marktmu", gray = {}, NEW th \in Range(running)
  PROVE  color[th] \notin Whites
<1>1. /\ TypeOK /\ RefsByKind /\ Remarked /\ Range(running) \subseteq alive
      /\ running \in Seq(Threads) /\ running[1] = MainThread
      /\ weak \subseteq Tables /\ color \in [Objects -> Whites \cup {"gray", "black"}]
  BY Basics DEF FullInv, Safety, TypeOK, HeapType, ProgramType, CollectorType
<1>2. gcstate \in MarkPhase
  BY DEF MarkPhase
<1> DEFINE White == {i \in 1 .. Len(running) : color[running[i]] \in Whites}
<1>3. SUFFICES White = {}
  BY <1>1 DEF Range
<1>4. SUFFICES ASSUME White # {} PROVE FALSE
  OBVIOUS
<1>5. PICK n \in White : \A m \in White : n <= m
  <2>1. White \in SUBSET Nat
    BY <1>1
  <2> HIDE DEF White
  <2> QED BY <1>4, <2>1, SmallestMember
<1>6. n # 1
  BY <1>1, <1>2, <1>5 DEF Remarked, iswhite
<1> DEFINE p == running[n - 1]
<1>7. n - 1 \in 1 .. (Len(running) - 1) /\ n - 1 \notin White /\ n - 1 \in DOMAIN running
  BY <1>1, <1>5, <1>6
<1>8. p \in Threads /\ p \in Objects /\ p \in alive /\ color[p] \notin Whites
  BY <1>1, <1>7 DEF Range
<1>9. running[n] \in Resumed(p)
  BY <1>7 DEF Resumed
<1>10. running[n] \in Threads /\ running[n] # NoObj
  BY <1>1, <1>5, KindsAssumption
<1>11. running[n] \in StrongRefs(p)
  <2>1. running[n] \in OwnRefs(p) \ {NoObj}
    BY <1>8, <1>9, <1>10 DEF OwnRefs
  <2> QED BY <2>1 DEF StrongRefs
<1>12. p \in grayagain
  <2>1. color[p] # "black"
    BY <1>8 DEF FullInv, ListsInv, NeverBlack, isblack
  <2>2. color[p] = "gray"
    BY <1>1, <1>8, <2>1
  <2>3. p \in gray \cup grayagain \cup weak \cup Strings \cup OpenUpvals
    BY <1>2, <1>8, <2>2, MarkPhaseFacts
  <2> QED BY <1>1, <1>8, <2>3, KindsAssumption DEF OpenUpvals
<1>13. color[running[n]] \notin Whites
  BY <1>1, <1>11, <1>12 DEF Remarked, RemarkedLists, iswhite
<1> QED BY <1>5, <1>13

(* A sweep that begins has all objects before it.                          *)
LEMMA SweepCovers ==
  ASSUME FullInv, TypeOK', unswept' = Rootgc, sweepstrgc' = 0, gcstate' = "sweepstring",
         UNCHANGED <<alive, uvloc, tmudata>>
  PROVE  SweepComplete' /\ alive' \subseteq StillToSweep'
<1>1. alive' \subseteq StillToSweep'
  <2> SUFFICES ASSUME NEW o \in alive PROVE o \in StillToSweep'
    OBVIOUS
  <2>1. Range(tmudata)' = Range(tmudata) /\ OpenUpvals' = OpenUpvals
    BY DEF Range, OpenUpvals, IsOpen
  <2>2. CASE o \in Strings
    <3>1. Hash[o] \in Nat /\ strsize' \in Nat \ {0}
      BY <2>2, FieldsAssumption DEF TypeOK, CollectorType
    <3>2. Hash[o] % strsize' >= 0
      BY <3>1
    <3> QED BY <2>2, <3>2 DEF StillToSweep
  <2>3. CASE o \in OpenUpvals
    <3>1. uvloc[o][1] \in alive /\ uvloc[o][1] \in Threads
      BY <2>3 DEF FullInv, ListsInv, Safety, OpenListed, OpenUpvals, IsOpen, TypeOK, ProgramType
    <3>2. Range(tmudata) \subseteq Udatas
      BY RangeType DEF FullInv, ListsInv, TypeOK, CollectorType
    <3>3. uvloc[o][1] \in Rootgc
      BY <3>1, <3>2, KindsAssumption DEF Rootgc, OpenUpvals
    <3> QED BY <2>1, <2>3, <3>3 DEF StillToSweep
  <2>4. CASE o \notin Strings \cup OpenUpvals
    BY <2>1, <2>4 DEF StillToSweep, Rootgc
  <2> QED BY <2>2, <2>3, <2>4
<1>2. gcstate' \notin MarkPhase
  BY DEF MarkPhase
<1> QED BY <1>1, <1>2 DEF SweepComplete

(* What an entry that cleartable leaves refers to is marked, or a string    *)
(* that it marks.                                                          *)
ClearedOf(inarray, t) ==
  {e \in entries[t] : ~ (e[1] = NoObj /\ t \in inarray /\ WeakMode(t) = {"k"})
                        /\ (ClearedKey(e[1]) \/ ClearedValue(e[2]))}
StringsOfWeak ==
  {s \in Strings : \E t \in weak : \E e \in entries[t] :
                    s = e[1] \/ (s = e[2] /\ ~ ClearedKey(e[1]))}

LEMMA KeptEntries ==
  ASSUME FullInv, gcstate = "marktmu", NEW inarray, NEW t \in weak,
         NEW e \in entries[t] \ ClearedOf(inarray, t)
  PROVE  \A r \in {e[1], e[2]} \ {NoObj} : color[r] \notin Whites \/ r \in StringsOfWeak
<1>1. /\ TypeOK /\ RefsByKind /\ t \in Tables /\ t \in Objects
      /\ e \in FirstClass \X FirstClass
  BY Basics DEF TypeOK, HeapType, CollectorType
<1>2. e[1] \in Values /\ e[2] \in Values
  BY <1>1
<1>3. \A r \in StrongRefs(t) : color[r] \notin Whites
  BY DEF FullInv, Safety, Remarked, RemarkedLists, iswhite
<1>4. CASE e[1] = NoObj /\ WeakMode(t) = {"k"}
  <2>1. e[2] \in Vals(t)
    BY DEF Vals
  <2>2. e[2] # NoObj => e[2] \in StrongRefs(t)
    BY <1>4, <2>1 DEF StrongRefs
  <2> QED BY <1>3, <1>4, <2>2
<1>5. CASE ~ ClearedKey(e[1]) /\ ~ ClearedValue(e[2])
  <2>1. ASSUME e[1] # NoObj PROVE color[e[1]] \notin Whites \/ e[1] \in StringsOfWeak
    BY <1>2, <1>5, <2>1 DEF ClearedKey, StringsOfWeak, iswhite
  <2>2. ASSUME e[2] # NoObj PROVE color[e[2]] \notin Whites \/ e[2] \in StringsOfWeak
    BY <1>2, <1>5, <2>2 DEF ClearedKey, ClearedValue, StringsOfWeak, iswhite
  <2> QED BY <2>1, <2>2
<1> QED BY <1>4, <1>5 DEF ClearedOf

LEMMA ClearAndFlipSafety ==
  ASSUME FullInv, TypeOK', NEW inarray, ClearAndFlip(inarray)
  PROVE  Safety'
<1>1. /\ gcstate = "marktmu" /\ gray = {} /\ gcstate' = "sweepstring" /\ gcstate \in MarkPhase
      /\ entries' = [o \in Objects |-> IF o \in weak THEN entries[o] \ ClearedOf(inarray, o) ELSE entries[o]]
      /\ color' = [o \in Objects |-> IF o \in StringsOfWeak THEN "gray" ELSE color[o]]
      /\ currentwhite' = otherwhite /\ sweepstrgc' = 0 /\ unswept' = Rootgc
      /\ UNCHANGED <<alive, meta, fields, uvloc, uvval, gmt, stack, running, tmudata>>
  BY DEF ClearAndFlip, udVars, ClearedOf, StringsOfWeak, MarkPhase
<1>2. /\ TypeOK /\ RefsByKind /\ RefsByKind' /\ Live = alive /\ alive \subseteq Objects
      /\ \A o \in alive : Refs(o) \subseteq alive
      /\ currentwhite \in Whites /\ otherwhite \in Whites /\ currentwhite # otherwhite
      /\ Roots \subseteq alive
  BY <1>1, Basics, RefsKindsPrime DEF FullInv, Safety, CheckLiveness
<1>3. otherwhite' = currentwhite
  BY <1>1, <1>2 DEF otherwhite
<1>4. \A o \in alive : color[o] \notin Whites \/ o \in StringsOfWeak => o \in Live'
  BY <1>1, <1>2, <1>3 DEF Live, isdead
<1>5. \A o \in Live' : o \in alive /\ (color[o] \notin Whites \/ o \in StringsOfWeak)
  <2> SUFFICES ASSUME NEW o \in Live' PROVE o \in alive /\ (color[o] \notin Whites \/ o \in StringsOfWeak)
    OBVIOUS
  <2>1. o \in alive /\ color[o] # otherwhite
    BY <1>1, <1>2 DEF Live, isdead
  <2>2. CASE o \notin StringsOfWeak
    <3>1. color[o] # currentwhite
      BY <1>1, <1>2, <1>3, <2>1, <2>2 DEF Live, isdead
    <3>2. Whites = {currentwhite, otherwhite}
      BY <1>2
    <3> QED BY <2>1, <3>1, <3>2
  <2> QED BY <2>1, <2>2
<1>6. Roots' \subseteq Live'
  <2>1. \A th \in Range(running) : color[th] \notin Whites
    BY <1>1, RunningMarked
  <2>2. /\ color[MainThread] \notin Whites /\ color[Registry] \notin Whites
        /\ gmt # NoObj => color[gmt] \notin Whites
        /\ \A u \in Range(tmudata) : color[u] \notin Whites
    BY <1>1 DEF FullInv, Safety, Remarked, iswhite, isblack
  <2>3. Roots' = Roots
    BY <1>1 DEF Roots, Range
  <2> QED BY <1>2, <1>4, <2>1, <2>2, <2>3 DEF Roots
<1>7. ASSUME NEW o \in Objects PROVE Refs(o)' \subseteq Refs(o) /\ UpvalValue(o)' = UpvalValue(o)
  <2>1. /\ Resumed(o)' = Resumed(o) /\ UpvalValue(o)' = UpvalValue(o)
        /\ Keys(o)' \subseteq Keys(o) /\ Vals(o)' \subseteq Vals(o)
    BY <1>1 DEF Resumed, UpvalValue, IsOpen, Keys, Vals
  <2>2. OwnRefs(o)' = OwnRefs(o)
    BY <1>1, <2>1 DEF OwnRefs, Range
  <2> QED BY <2>1, <2>2 DEF Refs
<1>8. ASSUME NEW o \in Live', NEW r \in Refs(o)' PROVE color[r] \notin Whites \/ r \in StringsOfWeak
  <2>1. o \in alive /\ o \in Objects /\ (color[o] \notin Whites \/ o \in StringsOfWeak) /\ r \in Refs(o)
    BY <1>2, <1>5, <1>7, <1>8
  <2>2. CASE o \in Strings
    BY <1>2, <2>1, <2>2 DEF RefsByKind
  <2>3. CASE color[o] = "black"
    BY <1>1, <2>1, <2>3, MarkPhaseFacts
  <2>4. CASE color[o] = "gray" /\ o \notin Strings
    <3>1. o \in grayagain \cup weak \cup OpenUpvals
      BY <1>1, <2>1, <2>4, MarkPhaseFacts
    <3>2. \A p \in grayagain \cup weak : \A q \in StrongRefs(p) : color[q] \notin Whites
      BY <1>1 DEF FullInv, Safety, Remarked, RemarkedLists, iswhite
    <3>3. CASE o \in OpenUpvals
      <4>1. Refs(o) = {UpvalValue(o)} \ {NoObj}
        BY <1>2, <2>1, <3>3 DEF RefsByKind, OpenUpvals
      <4>2. UpvalValue(o) # NoObj => color[UpvalValue(o)] \notin Whites
        BY <1>1, <2>4, <3>3 DEF FullInv, Safety, Remarked, iswhite
      <4> QED BY <2>1, <4>1, <4>2
    <3>4. CASE o \in grayagain
      <4>1. o \in Threads
        BY <1>1, <3>4 DEF FullInv, Safety, Remarked
      <4>2. StrongRefs(o) = Refs(o)
        BY <1>2, <2>1, <4>1, KindsAssumption DEF RefsByKind
      <4> QED BY <2>1, <3>2, <3>4, <4>2
    <3>5. CASE o \in weak
      <4>1. r # NoObj /\ r \in OwnRefs(o)' \cup Keys(o)' \cup Vals(o)'
        BY <1>8 DEF Refs
      <4>2. CASE r \in OwnRefs(o)'
        <5>1. OwnRefs(o)' = OwnRefs(o)
          <6>1. Resumed(o)' = Resumed(o) /\ UpvalValue(o)' = UpvalValue(o)
            BY <1>1 DEF Resumed, UpvalValue, IsOpen
          <6> QED BY <1>1, <6>1 DEF OwnRefs, Range
        <5>2. r \in StrongRefs(o)
          BY <4>1, <4>2, <5>1 DEF StrongRefs
        <5> QED BY <3>2, <3>5, <5>2
      <4>3. CASE r \in Keys(o)' \cup Vals(o)'
        <5>1. PICK e \in entries'[o] : r = e[1] \/ r = e[2]
          BY <4>3 DEF Keys, Vals
        <5>2. e \in entries[o] \ ClearedOf(inarray, o)
          BY <1>1, <2>1, <3>5, <5>1
        <5> QED BY <1>1, <3>5, <4>1, <5>1, <5>2, KeptEntries
      <4> QED BY <4>1, <4>2, <4>3
    <3> QED BY <3>1, <3>3, <3>4, <3>5
  <2>5. color[o] \in Whites \cup {"gray", "black"}
    BY <1>2, <2>1 DEF TypeOK, HeapType
  <2>6. o \in StringsOfWeak => o \in Strings
    BY DEF StringsOfWeak
  <2> QED BY <2>1, <2>2, <2>3, <2>4, <2>5, <2>6
<1>9. CheckLiveness'
  <2> SUFFICES ASSUME NEW o \in Live', NEW r \in Refs(o)' PROVE r \in Live'
    BY <1>6 DEF CheckLiveness
  <2>1. o \in Objects /\ o \in alive
    BY <1>2, <1>5
  <2>2. r \in alive
    BY <1>2, <1>7, <2>1
  <2> QED BY <1>4, <1>8, <2>2
<1>10. SweepComplete'
  BY <1>1, SweepCovers
<1>11. TriColor' /\ GrayLists' /\ Remarked'
  <2>1. gcstate' \notin MarkPhase /\ gcstate' \notin AtomicStates
    BY <1>1 DEF MarkPhase
  <2> QED BY <2>1, RemarkedRunningPrime DEF TriColor, GrayLists
<1>12. NeverGray'
  <2>1. \A u \in Udatas : u \notin StringsOfWeak /\ color[u] # "gray"
    BY KindsAssumption DEF StringsOfWeak, FullInv, Safety, NeverGray
  <2> QED BY <1>1, <2>1 DEF NeverGray
<1>13. OpenListed'
  BY <1>1 DEF FullInv, Safety, OpenListed, IsOpen
<1>14. FreedEmpty'
  BY <1>1, <1>7 DEF FullInv, Safety, FreedEmpty
<1>15. running'[1] = MainThread
  BY <1>1 DEF FullInv, Safety
<1> QED BY <1>9, <1>10, <1>11, <1>12, <1>13, <1>14, <1>15 DEF Safety

(***************************************************************************)
(* The sweep.                                                              *)
(***************************************************************************)

(* What nothing of an object changes.                                      *)
Whole(o) ==
  /\ o \in alive' /\ meta'[o] = meta[o] /\ fields'[o] = fields[o] /\ entries'[o] = entries[o]
  /\ o \in Upvals => UpvalValue(o)' = UpvalValue(o)
  /\ o \in Threads => stack'[o] = stack[o]

(* sweeplist over the objects of B changes nothing that lives on.           *)
LEMMA SweepListStep ==
  ASSUME FullInv, TypeOK', gcstate \in SweepStates, gcstate' \notin MarkPhase,
         NEW B \in SUBSET alive, SweepList(B), UNCHANGED currentwhite
  PROVE  /\ CheckLiveness' /\ TriColor' /\ GrayLists' /\ Remarked'
         /\ NeverGray' /\ OpenListed' /\ FreedEmpty' /\ running'[1] = MainThread
         /\ Range(tmudata)' = Range(tmudata) /\ alive' \subseteq alive
         /\ \A o \in alive' : color'[o] # currentwhite' => o \notin B /\ color[o] # currentwhite
         /\ \A o \in Live : Whole(o)
<1> DEFINE F == {o \in B : isdead(o)}
<1>1. /\ alive' = alive \ F
      /\ meta' = [o \in Objects |-> IF o \in F THEN NoObj ELSE meta[o]]
      /\ fields' = [o \in Objects |-> IF o \in F THEN {} ELSE fields[o]]
      /\ entries' = [o \in Objects |-> IF o \in F THEN {} ELSE entries[o]]
      /\ stack' = [th \in Threads |-> IF th \in F THEN [s \in Slots |-> NoObj] ELSE stack[th]]
      /\ uvloc' = [u \in Upvals |-> IF u \in F \cup UpvalsOf(F) THEN Closed ELSE uvloc[u]]
      /\ uvval' = [u \in Upvals |-> IF u \in F THEN NoObj
                                    ELSE IF u \in UpvalsOf(F) THEN UpvalValue(u) ELSE uvval[u]]
      /\ color' = [o \in Objects |-> IF o \notin B THEN color[o]
                                     ELSE IF o \in F THEN "white0" ELSE currentwhite]
      /\ UNCHANGED <<gmt, running, tmudata, currentwhite>>
  BY DEF SweepList, Free
<1>2. /\ TypeOK /\ RefsByKind /\ RefsByKind' /\ alive \subseteq Objects
      /\ \A o \in Live : Refs(o) \subseteq Live
      /\ currentwhite \in Whites /\ otherwhite \in Whites /\ currentwhite # otherwhite
      /\ Roots \subseteq Live /\ OpenListed
      /\ \A o \in F : o \in B /\ isdead(o) /\ o \in Objects
      /\ \A o \in B : o \in Objects /\ (isdead(o) => o \in F)
  BY Basics, RefsKindsPrime DEF FullInv, Safety, CheckLiveness, TypeOK, HeapType
<1> HIDE DEF F
<1>3. otherwhite' = otherwhite /\ gcstate' \notin AtomicStates
  BY <1>1 DEF otherwhite, MarkPhase
<1>4. Live' = Live
  <2>1. \A o \in Live : o \in Live'
    BY <1>1, <1>2, <1>3 DEF Live, isdead
  <2>2. \A o \in Live' : o \in Live
    BY <1>1, <1>2, <1>3 DEF Live, isdead
  <2> QED BY <2>1, <2>2
<1>5. \A u \in Upvals : u \in OpenUpvals => uvloc[u][1] \in Threads /\ uvloc[u][2] \in Slots
  BY <1>2 DEF TypeOK, ProgramType, OpenUpvals, IsOpen
<1>6. ASSUME NEW u \in Upvals, u \notin F
      PROVE  UpvalValue(u)' = UpvalValue(u)
  <2>1. CASE u \in UpvalsOf(F)
    BY <1>1, <1>6, <2>1 DEF UpvalValue, IsOpen
  <2>2. CASE u \notin UpvalsOf(F) /\ IsOpen(u)
    <3>1. u \in OpenUpvals
      BY <1>2, <2>2 DEF OpenListed, OpenUpvals
    <3>2. uvloc[u][1] \in Threads /\ uvloc[u][1] \notin F
      BY <1>5, <2>2, <3>1 DEF UpvalsOf
    <3> QED BY <1>1, <1>6, <2>2, <3>2 DEF UpvalValue, IsOpen
  <2>3. CASE u \notin UpvalsOf(F) /\ ~ IsOpen(u)
    BY <1>1, <1>6, <2>3 DEF UpvalValue, IsOpen
  <2> QED BY <2>1, <2>2, <2>3
<1>7. ASSUME NEW o \in Objects, o \notin F
      PROVE  Refs(o)' = Refs(o)
  <2>1. /\ Resumed(o)' = Resumed(o) /\ Keys(o)' = Keys(o) /\ Vals(o)' = Vals(o)
        /\ fields'[o] = fields[o] /\ meta'[o] = meta[o]
        /\ o \in Threads => stack'[o] = stack[o]
    BY <1>1, <1>7 DEF Resumed, Keys, Vals
  <2>2. OwnRefs(o)' = OwnRefs(o)
    BY <1>6, <1>7, <2>1 DEF OwnRefs, Range
  <2> QED BY <2>1, <2>2 DEF Refs
<1>8. ASSUME NEW o \in F PROVE Refs(o)' = {}
  <2>1. o \in Objects /\ o \notin Live
    BY <1>2 DEF Live
  <2>2. Keys(o)' = {} /\ Vals(o)' = {} /\ fields'[o] = {} /\ meta'[o] = NoObj
    BY <1>1, <2>1 DEF Keys, Vals
  <2>3. Resumed(o)' = {}
    <3>1. o \notin Range(running)
      BY <1>2, <2>1 DEF Roots
    <3>2. running \in Seq(Threads)
      BY <1>2 DEF TypeOK, ProgramType
    <3> QED BY <1>1, <3>1, <3>2 DEF Resumed, Range
  <2>4. o \in Threads => Range(stack[o])' \subseteq {NoObj}
    BY <1>1 DEF Range
  <2>5. o \in Upvals => UpvalValue(o)' = NoObj
    BY <1>1 DEF UpvalValue, IsOpen
  <2>6. OwnRefs(o)' \subseteq {NoObj}
    BY <2>2, <2>3, <2>4, <2>5 DEF OwnRefs
  <2> QED BY <2>2, <2>6 DEF Refs
<1>9. Range(tmudata)' = Range(tmudata)
  BY <1>1 DEF Range
<1>10. CheckLiveness'
  <2>1. Roots' = Roots
    BY <1>1 DEF Roots, Range
  <2>2. \A o \in Live : o \in Objects /\ o \notin F
    BY <1>2 DEF Live
  <2> QED BY <1>2, <1>4, <1>7, <2>1, <2>2 DEF CheckLiveness
<1>11. TriColor' /\ GrayLists' /\ Remarked'
  BY <1>3, RemarkedRunningPrime DEF TriColor, GrayLists
<1>12. NeverGray'
  <2>1. \A u \in Udatas : color[u] # "gray"
    BY DEF FullInv, Safety, NeverGray
  <2> QED BY <1>1, <1>2, <2>1 DEF NeverGray
<1>13. OpenListed'
  <2> SUFFICES ASSUME NEW u \in Upvals, IsOpen(u)'
               PROVE  u \in alive' /\ uvloc'[u][1] \in alive' /\ uvval'[u] = NoObj
    BY DEF OpenListed
  <2>1. u \notin F \cup UpvalsOf(F) /\ uvloc'[u] = uvloc[u] /\ IsOpen(u)
    BY <1>1 DEF IsOpen
  <2>2. u \in alive /\ uvloc[u][1] \in alive /\ uvval[u] = NoObj /\ u \in OpenUpvals
    BY <1>2, <2>1 DEF OpenListed, OpenUpvals
  <2>3. uvloc[u][1] \notin F
    BY <2>1, <2>2 DEF UpvalsOf
  <2> QED BY <1>1, <2>1, <2>2, <2>3
<1>14. FreedEmpty'
  <2> SUFFICES ASSUME NEW o \in Objects \ alive' PROVE Refs(o)' = {}
    BY DEF FreedEmpty
  <2>1. CASE o \in F
    BY <1>8, <2>1
  <2>2. CASE o \notin F
    BY <1>1, <1>7, <2>2 DEF FullInv, Safety, FreedEmpty
  <2> QED BY <2>1, <2>2
<1>15. running'[1] = MainThread
  BY <1>1 DEF FullInv, Safety
<1>16. \A o \in alive' : color'[o] # currentwhite' => o \notin B /\ color[o] # currentwhite
  BY <1>1, <1>2
<1>17. \A o \in Live : Whole(o)
  <2>1. \A o \in Live : o \in Objects /\ o \in alive /\ o \notin F
    BY <1>2 DEF Live
  <2> QED BY <1>1, <1>6, <2>1 DEF Whole
<1>18. alive' \subseteq alive
  BY <1>1
<1> QED BY <1>9, <1>10, <1>11, <1>12, <1>13, <1>14, <1>15, <1>16, <1>17, <1>18

LEMMA SweepStringSafety ==
  ASSUME FullInv, TypeOK', SweepString
  PROVE  Safety'
<1> DEFINE B == {s \in alive \cap Strings : Hash[s] % strsize = sweepstrgc}
<1>1. /\ gcstate = "sweepstring" /\ SweepList(B) /\ sweepstrgc' = sweepstrgc + 1
      /\ gcstate' = IF sweepstrgc' >= strsize THEN "sweep" ELSE gcstate
      /\ UNCHANGED <<unswept, strsize, currentwhite>>
  BY DEF SweepString
<1>2. /\ gcstate \in SweepStates /\ gcstate' \in SweepStates /\ gcstate' \notin MarkPhase
      /\ B \in SUBSET alive /\ B \subseteq Strings /\ gcstate \notin MarkPhase
  BY <1>1 DEF MarkPhase
<1>3. /\ CheckLiveness' /\ TriColor' /\ GrayLists' /\ Remarked'
      /\ NeverGray' /\ OpenListed' /\ FreedEmpty' /\ running'[1] = MainThread
      /\ Range(tmudata)' = Range(tmudata) /\ alive' \subseteq alive
      /\ \A o \in alive' : color'[o] # currentwhite' => o \notin B /\ color[o] # currentwhite
  BY <1>1, <1>2, SweepListStep
<1>4. uvloc' = uvloc
  <2> DEFINE F == {o \in B : isdead(o)}
  <2>1. UpvalsOf(F) = {} /\ F \cap Upvals = {}
    <3>1. F \subseteq Strings
      BY <1>2
    <3>2. \A u \in OpenUpvals : uvloc[u][1] \in Threads
      BY DEF FullInv, ListsInv, TypeOK, ProgramType, OpenUpvals, IsOpen
    <3> QED BY <3>1, <3>2, KindsAssumption DEF UpvalsOf
  <2>2. uvloc' = [u \in Upvals |-> IF u \in F \cup UpvalsOf(F) THEN Closed ELSE uvloc[u]]
    BY <1>1 DEF SweepList, Free
  <2>3. uvloc = [u \in Upvals |-> uvloc[u]]
    BY DEF FullInv, ListsInv, TypeOK, ProgramType
  <2> HIDE DEF F
  <2> QED BY <2>1, <2>2, <2>3
<1>5. SweepComplete'
  <2> SUFFICES ASSUME NEW o \in alive', color'[o] # currentwhite' PROVE o \in StillToSweep'
    BY <1>2 DEF SweepComplete
  <2>1. o \in alive /\ o \notin B /\ color[o] # currentwhite
    BY <1>3
  <2>2. o \in StillToSweep
    BY <1>2, <2>1 DEF FullInv, Safety, SweepComplete
  <2>3. CASE o \in Strings
    <3>1. /\ Hash[o] \in Nat /\ strsize \in Nat \ {0} /\ sweepstrgc \in Nat
      BY <2>3, FieldsAssumption DEF FullInv, ListsInv, TypeOK, CollectorType
    <3>2. Hash[o] % strsize \in Nat /\ Hash[o] % strsize < strsize
      BY <3>1
    <3>3. o \notin Range(tmudata) \cup unswept \cup OpenUpvals
      <4>1. Range(tmudata) \subseteq Udatas
        BY RangeType DEF FullInv, ListsInv, TypeOK, CollectorType
      <4> QED BY <2>3, <4>1, KindsAssumption DEF FullInv, ListsInv, UnsweptListed, OpenUpvals
    <3>4. Hash[o] % strsize >= sweepstrgc
      BY <1>1, <2>2, <3>3 DEF StillToSweep
    <3>5. Hash[o] % strsize # sweepstrgc
      BY <2>1, <2>3
    <3>6. Hash[o] % strsize >= sweepstrgc + 1
      BY <3>1, <3>2, <3>4, <3>5
    <3>7. gcstate' = "sweepstring"
      BY <1>1, <3>1, <3>2, <3>6
    <3> QED BY <1>1, <2>3, <3>6, <3>7 DEF StillToSweep
  <2>4. CASE o \notin Strings
    <3>1. o \in OpenUpvals => o \in OpenUpvals'
      BY <1>4 DEF OpenUpvals, IsOpen
    <3>2. \/ o \in Range(tmudata) \cup unswept
          \/ o \in OpenUpvals /\ uvloc[o][1] \in unswept
      BY <1>1, <2>2, <2>4 DEF StillToSweep
    <3> QED BY <1>1, <1>2, <1>3, <1>4, <3>1, <3>2 DEF StillToSweep
  <2> QED BY <2>3, <2>4
<1> QED BY <1>3, <1>5 DEF Safety

LEMMA SweepSafety ==
  ASSUME FullInv, TypeOK', NEW o \in Objects, Sweep(o)
  PROVE  Safety'
<1> DEFINE B == {o} \cup UpvalsOf({o})
           F == {p \in B : isdead(p)}
<1>1. /\ gcstate = "sweep" /\ o \in unswept /\ SweepList(B) /\ unswept' = unswept \ {o}
      /\ gcstate' = IF unswept' # {} THEN gcstate ELSE "finalize"
      /\ currentwhite' = currentwhite
  BY DEF Sweep
<1>2. /\ gcstate \in SweepStates /\ gcstate' \notin MarkPhase /\ gcstate \notin MarkPhase
      /\ B \in SUBSET alive
  BY <1>1 DEF MarkPhase, UpvalsOf, OpenUpvals, FullInv, ListsInv, UnsweptListed
<1>3. /\ CheckLiveness' /\ TriColor' /\ GrayLists' /\ Remarked'
      /\ NeverGray' /\ OpenListed' /\ FreedEmpty' /\ running'[1] = MainThread
      /\ Range(tmudata)' = Range(tmudata) /\ alive' \subseteq alive
      /\ \A p \in alive' : color'[p] # currentwhite' => p \notin B /\ color[p] # currentwhite
  BY <1>1, <1>2, SweepListStep
<1>4. uvloc' = [u \in Upvals |-> IF u \in F \cup UpvalsOf(F) THEN Closed ELSE uvloc[u]]
  BY <1>1 DEF SweepList, Free
<1>5. SweepComplete'
  <2> SUFFICES ASSUME NEW p \in alive', color'[p] # currentwhite' PROVE p \in StillToSweep'
    BY <1>2 DEF SweepComplete
  <2>1. p \in alive /\ p \notin B /\ color[p] # currentwhite
    BY <1>3
  <2>2. p \in StillToSweep
    BY <1>2, <2>1 DEF FullInv, Safety, SweepComplete
  <2>3. CASE p \in Range(tmudata)
    BY <1>3, <2>3 DEF StillToSweep
  <2>4. CASE p \in unswept
    <3>1. p \in unswept'
      BY <1>1, <2>1, <2>4
    <3>2. gcstate' = "sweep"
      BY <1>1, <3>1
    <3> QED BY <3>1, <3>2 DEF StillToSweep
  <2>5. CASE p \in OpenUpvals /\ uvloc[p][1] \in unswept
    <3>1. uvloc[p][1] # o
      BY <2>1, <2>5 DEF UpvalsOf
    <3>2. uvloc[p][1] \in unswept' /\ gcstate' = "sweep"
      BY <1>1, <2>5, <3>1
    <3>3. uvloc[p][1] \in Threads /\ p \in Upvals
      BY <2>5 DEF FullInv, ListsInv, TypeOK, ProgramType, OpenUpvals, IsOpen
    <3>4. F \subseteq {o} \cup Upvals
      BY DEF UpvalsOf, OpenUpvals
    <3>5. p \notin F \cup UpvalsOf(F)
      BY <2>1, <3>1, <3>3, <3>4, KindsAssumption DEF UpvalsOf
    <3>6. uvloc'[p] = uvloc[p]
      BY <1>4, <3>3, <3>5
    <3>7. p \in OpenUpvals'
      BY <2>5, <3>3, <3>6 DEF OpenUpvals, IsOpen
    <3> QED BY <3>2, <3>6, <3>7 DEF StillToSweep
  <2> QED BY <1>1, <2>2, <2>3, <2>4, <2>5 DEF StillToSweep
<1> QED BY <1>3, <1>5 DEF Safety

(***************************************************************************)
(* The last phase, the end of a cycle, and a full collection.              *)
(***************************************************************************)
LEMMA GCTMSafety ==
  ASSUME FullInv, TypeOK', NEW s \in LocalSlots, GCTM(s)
  PROVE  Safety'
<1> DEFINE u == Head(tmudata)
<1>1. /\ gcstate = "finalize" /\ gcstate' = gcstate /\ tmudata # <<>> /\ tmudata' = Tail(tmudata)
      /\ color' = [color EXCEPT ![u] = currentwhite]
      /\ Push(s, u) \/ UNCHANGED stack
      /\ UNCHANGED <<alive, meta, fields, entries, uvloc, uvval, gmt, running, currentwhite>>
      /\ gcstate \notin MarkPhase /\ gcstate' \notin AtomicStates
  BY DEF GCTM, OnTop, heapVars, ctlVars, MarkPhase
<1>2. /\ TypeOK /\ Live \subseteq Objects /\ Live \subseteq alive /\ OpenListed
      /\ \A o \in Live : Refs(o) \subseteq Live
      /\ Range(tmudata) \subseteq Live /\ Roots \subseteq Live /\ cur \in Live \cap Threads
      /\ currentwhite \in Whites /\ otherwhite \in Whites /\ currentwhite # otherwhite
      /\ color \in [Objects -> Whites \cup {"gray", "black"}]
  BY Basics DEF FullInv, Safety, CheckLiveness, TypeOK, HeapType
<1>3. u \in Range(tmudata) /\ Range(tmudata)' = Range(tmudata) \ {u}
  <2>1. tmudata \in Seq(Udatas) /\ Injective(tmudata)
    BY <1>2 DEF TypeOK, CollectorType, FullInv, ListsInv, UdataLists, Injective
  <2>2. u \in Range(tmudata) /\ Range(Tail(tmudata)) = Range(tmudata) \ {u}
    BY <1>1, <2>1, TailInjective
  <2> QED BY <1>1, <2>2 DEF Range
<1>4. u \in Udatas /\ u \in Live /\ u # NoObj /\ u \in FirstClass
  <2>1. Range(tmudata) \subseteq Udatas
    BY <1>2, RangeType DEF TypeOK, CollectorType
  <2> QED BY <1>2, <1>3, <2>1, KindsAssumption
<1> HIDE DEF u
<1>5. otherwhite' = otherwhite
  BY <1>1 DEF otherwhite
<1>6. Live' = Live
  BY <1>1, <1>2, <1>4, <1>5 DEF Live, isdead
<1>7. ASSUME NEW o \in Objects
      PROVE  Refs(o)' \subseteq Refs(o) \cup {u} /\ (o \notin alive => Refs(o)' = Refs(o))
  <2>1. CASE UNCHANGED stack
    BY <1>1, <2>1, RefsAllSame
  <2>2. CASE Push(s, u)
    <3>1. /\ s \in Slots /\ cur \in Threads
          /\ \A t \in Threads, z \in Slots : stack'[t][z] = IF t = cur /\ z = s THEN u ELSE stack[t][z]
          /\ \A t \in Threads \ {cur} : stack'[t] = stack[t]
      BY <1>2, <2>2, PushFacts
    <3>2. o \in Threads \ alive => stack'[o] = stack[o] /\ o # cur
      BY <1>2, <3>1
    <3>3. \A t \in Threads \cap alive, z \in Slots :
            stack'[t][z] = IF t = cur /\ z = s THEN u ELSE stack[t][z]
      BY <3>1
    <3>4. /\ UNCHANGED <<meta, running>> /\ fields'[o] = fields[o] /\ entries'[o] = entries[o]
          /\ o \in Upvals => uvloc'[o] = uvloc[o] /\ uvval'[o] = uvval[o]
      BY <1>1
    <3>5. /\ TypeOK /\ OpenListed /\ cur \in Threads /\ s \in Slots /\ u \in FirstClass
      BY <1>2, <1>4, <3>1
    <3> HIDE DEF FirstClass
    <3>6. Refs(o)' \subseteq Refs(o) \cup ({u} \ {NoObj}) /\ (o \notin alive => Refs(o)' = Refs(o))
      BY <3>2, <3>3, <3>4, <3>5, PushRefs
    <3> QED BY <3>6
  <2> QED BY <1>1, <2>1, <2>2
<1>8. CheckLiveness'
  <2>1. Roots' \subseteq Roots
    BY <1>1, <1>3 DEF Roots, Range
  <2> QED BY <1>2, <1>4, <1>6, <1>7, <2>1 DEF CheckLiveness
<1>9. TriColor' /\ GrayLists' /\ Remarked'
  BY <1>1, RemarkedRunningPrime DEF TriColor, GrayLists
<1>10. SweepComplete'
  <2> SUFFICES ASSUME NEW o \in alive, color'[o] # currentwhite PROVE o \in StillToSweep'
    BY <1>1 DEF SweepComplete
  <2>1. o # u /\ color[o] # currentwhite
    BY <1>1, <1>2, <1>4
  <2>2. o \in StillToSweep
    BY <1>1, <2>1 DEF FullInv, Safety, SweepComplete
  <2> QED BY <1>1, <1>3, <2>1, <2>2 DEF StillToSweep
<1>11. NeverGray'
  BY <1>1, <1>2, <1>4 DEF FullInv, Safety, NeverGray
<1>12. OpenListed' /\ running'[1] = MainThread
  BY <1>1 DEF FullInv, Safety, OpenListed, IsOpen
<1>13. FreedEmpty'
  BY <1>1, <1>7 DEF FullInv, Safety, FreedEmpty
<1> QED BY <1>8, <1>9, <1>10, <1>11, <1>12, <1>13 DEF Safety

(* A step outside of the mark phase that writes no object.                  *)
LEMMA ControlStep ==
  ASSUME FullInv, TypeOK', gcstate' \notin MarkPhase, gcstate \notin AtomicStates,
         UNCHANGED <<heapVars, color, stack, running, tmudata, currentwhite>>
  PROVE  /\ CheckLiveness' /\ TriColor' /\ GrayLists' /\ Remarked' /\ NeverGray'
         /\ OpenListed' /\ FreedEmpty' /\ running'[1] = MainThread
<1>1. /\ UNCHANGED <<alive, meta, fields, entries, uvloc, uvval, gmt>>
      /\ gcstate' \notin AtomicStates
  BY DEF heapVars, MarkPhase
<1>2. /\ TypeOK /\ Live \subseteq Objects /\ Safety
  BY Basics DEF FullInv
<1>3. \A o \in Objects : Refs(o)' = Refs(o)
  BY <1>1, RefsAllSame
<1>4. Live' = Live /\ Roots' = Roots
  BY <1>1 DEF Live, isdead, otherwhite, Roots, Range
<1>5. CheckLiveness'
  BY <1>2, <1>3, <1>4 DEF Safety, CheckLiveness
<1>6. TriColor' /\ GrayLists' /\ Remarked'
  BY <1>1, RemarkedRunningPrime DEF TriColor, GrayLists
<1>7. NeverGray' /\ OpenListed' /\ running'[1] = MainThread
  BY <1>1, <1>2 DEF Safety, NeverGray, OpenListed, IsOpen
<1>8. FreedEmpty'
  BY <1>1, <1>2, <1>3 DEF Safety, FreedEmpty
<1> QED BY <1>5, <1>6, <1>7, <1>8

LEMMA EndCycleSafety ==
  ASSUME FullInv, TypeOK', EndCycle
  PROVE  Safety'
<1>1. /\ gcstate = "finalize" /\ gcstate' = "pause"
      /\ UNCHANGED <<heapVars, color, stack, running, tmudata, currentwhite>>
      /\ gcstate' \notin MarkPhase /\ gcstate \notin AtomicStates /\ gcstate \notin MarkPhase
  BY DEF EndCycle, udVars, MarkPhase
<1>2. SweepComplete'
  <2>1. StillToSweep' = StillToSweep
    BY <1>1 DEF StillToSweep, Range
  <2> QED BY <1>1, <2>1 DEF FullInv, Safety, SweepComplete, heapVars
<1> QED BY <1>1, <1>2, ControlStep DEF Safety

LEMMA FullGCSafety ==
  ASSUME FullInv, TypeOK', FullGC
  PROVE  Safety'
<1>1. /\ gcstate \notin AtomicStates
      /\ UNCHANGED <<heapVars, color, stack, running, tmudata, currentwhite, strsize>>
      /\ UNCHANGED <<alive, uvloc>>
  BY DEF FullGC, MutatorRuns, udVars, heapVars
<1>2. CASE gcstate \in {"pause", "propagate"}
  <2>1. gcstate' = "sweepstring" /\ unswept' = Rootgc /\ sweepstrgc' = 0 /\ gcstate' \notin MarkPhase
    BY <1>2 DEF FullGC, MarkPhase
  <2>2. SweepComplete'
    BY <1>1, <2>1, SweepCovers
  <2> QED BY <1>1, <2>1, <2>2, ControlStep DEF Safety
<1>3. CASE gcstate \notin {"pause", "propagate"}
  <2>1. /\ UNCHANGED <<unswept, sweepstrgc, gcstate>>
        /\ gcstate' \notin MarkPhase /\ gcstate \notin MarkPhase
    BY <1>1, <1>3 DEF FullGC, MarkPhase
  <2>2. SweepComplete'
    <3>1. StillToSweep' = StillToSweep
      BY <1>1, <2>1 DEF StillToSweep, Range, OpenUpvals, IsOpen
    <3> QED BY <1>1, <2>1, <3>1 DEF FullInv, Safety, SweepComplete
  <2> QED BY <1>1, <2>1, <2>2, ControlStep DEF Safety
<1> QED BY <1>2, <1>3

(***************************************************************************)
(* The theorems.                                                           *)
(***************************************************************************)

(* Every step of the collector keeps the invariant.                        *)
LEMMA CollectorSafety ==
  ASSUME FullInv, TypeOK', Collector
  PROVE  Safety'
BY MarkRootSafety, PropagateMarkSafety, RemarkUpvalsSafety, RemarkWeakSafety, RemarkAgainSafety,
   MarkTmuSafety, ClearAndFlipSafety, SweepStringSafety, SweepSafety, GCTMSafety, EndCycleSafety
   DEF Collector

LEMMA StutterSafety ==
  ASSUME FullInv, UNCHANGED vars
  PROVE  Safety'
<1>1. /\ UNCHANGED <<alive, meta, fields, entries, uvloc, uvval, gmt>>
      /\ UNCHANGED <<color, stack, running, udlist, tmudata, finalized, gray>>
      /\ UNCHANGED <<grayagain, weak, unswept, sweepstrgc, strsize, gcstate, currentwhite, fullgc>>
  BY DEF vars, heapVars, udVars, listVars, ctlVars
<1>2. /\ TypeOK /\ RefsByKind /\ Live \subseteq Objects /\ Safety /\ alive \subseteq Objects
      /\ RemarkedLists \subseteq Objects
  BY Basics DEF FullInv, TypeOK, HeapType, CollectorType, RemarkedLists
<1>3. \A o \in Objects : Refs(o)' = Refs(o) /\ StrongRefs(o)' = StrongRefs(o) /\ UpvalValue(o)' = UpvalValue(o)
  BY <1>1, RefsAllSame
<1>4. /\ Live' = Live /\ Roots' = Roots /\ OpenUpvals' = OpenUpvals /\ RemarkedLists' = RemarkedLists
      /\ StillToSweep' = StillToSweep /\ cur' = cur /\ Range(tmudata)' = Range(tmudata)
      /\ OpenUpvals \subseteq Objects
  BY <1>1 DEF Live, isdead, otherwhite, Roots, Range, OpenUpvals, IsOpen, RemarkedLists, StillToSweep, cur
<1>5. CheckLiveness'
  BY <1>2, <1>3, <1>4 DEF Safety, CheckLiveness
<1>6. TriColor'
  BY <1>1, <1>2, <1>3, <1>4 DEF Safety, TriColor, isblack, iswhite
<1>7. GrayLists'
  BY <1>1, <1>2, <1>4 DEF Safety, GrayLists
<1>8. Remarked'
  <2>1. \A u \in OpenUpvals' : UpvalValue(u)' = UpvalValue(u)
    BY <1>3, <1>4
  <2>2. \A o \in RemarkedLists' : StrongRefs(o)' = StrongRefs(o)
    BY <1>2, <1>3, <1>4
  <2> QED BY <1>1, <1>2, <1>4, <2>1, <2>2 DEF Safety, Remarked, isblack, iswhite
<1>9. SweepComplete'
  BY <1>1, <1>2, <1>4 DEF Safety, SweepComplete, isdead, otherwhite
<1>10. NeverGray' /\ OpenListed' /\ running'[1] = MainThread
  BY <1>1, <1>2 DEF Safety, NeverGray, OpenListed, IsOpen
<1>11. FreedEmpty'
  BY <1>1, <1>2, <1>3 DEF Safety, FreedEmpty
<1> QED BY <1>5, <1>6, <1>7, <1>8, <1>9, <1>10, <1>11 DEF Safety

LEMMA InitFullInv == Init => FullInv
<1> SUFFICES ASSUME Init PROVE FullInv
  OBVIOUS
<1>1. ListsInv
  BY InitLists
<1>2. /\ alive = {MainThread, Registry, Globals} /\ color = [o \in Objects |-> "white0"]
      /\ meta = [o \in Objects |-> NoObj] /\ fields = [o \in Objects |-> {}]
      /\ entries = [o \in Objects |-> {}] /\ tmudata = <<>>
      /\ stack = [th \in Threads |-> [s \in Slots |->
                IF th = MainThread /\ s = GlobalSlot THEN Globals ELSE NoObj]]
      /\ uvloc = [u \in Upvals |-> Closed] /\ uvval = [u \in Upvals |-> NoObj]
      /\ running = <<MainThread>> /\ gmt = NoObj /\ gcstate = "pause" /\ currentwhite = "white0"
  BY DEF Init, InitWith, NewState
<1>3. gcstate \notin MarkPhase /\ gcstate \notin AtomicStates /\ otherwhite = "white1"
  BY <1>2 DEF MarkPhase, otherwhite
<1>4. alive \subseteq Objects /\ Live = alive
  BY <1>2, <1>3, KindsAssumption DEF Live, isdead
<1>5. Range(tmudata) = {} /\ Range(running) = {MainThread} /\ OpenUpvals = {}
  BY <1>2 DEF Range, OpenUpvals, IsOpen
<1>6. \A o \in Objects : Refs(o) \subseteq {Globals} /\ (o \notin alive => Refs(o) = {})
  <2> SUFFICES ASSUME NEW o \in Objects
               PROVE  Refs(o) \subseteq {Globals} /\ (o \notin alive => Refs(o) = {})
    OBVIOUS
  <2>1. fields[o] = {} /\ meta[o] = NoObj /\ Keys(o) = {} /\ Vals(o) = {} /\ Resumed(o) = {}
    BY <1>2 DEF Keys, Vals, Resumed
  <2>2. o \in Upvals => UpvalValue(o) = NoObj
    BY <1>2 DEF UpvalValue, IsOpen
  <2>3. o \in Threads => /\ Range(stack[o]) \subseteq {NoObj, Globals}
                         /\ o # MainThread => Range(stack[o]) \subseteq {NoObj}
    BY <1>2 DEF Range
  <2>4. o \notin alive => o # MainThread
    BY <1>2
  <2>5. OwnRefs(o) \subseteq {NoObj, Globals} /\ (o \notin alive => OwnRefs(o) \subseteq {NoObj})
    BY <2>1, <2>2, <2>3, <2>4 DEF OwnRefs
  <2> QED BY <2>1, <2>5 DEF Refs
<1>7. CheckLiveness
  BY <1>2, <1>4, <1>5, <1>6 DEF CheckLiveness, Roots
<1>8. TriColor /\ GrayLists /\ Remarked
  BY <1>3, RemarkedRunning DEF TriColor, GrayLists
<1>9. SweepComplete
  BY <1>2, <1>3, <1>4 DEF SweepComplete
<1>10. NeverGray /\ OpenListed /\ FreedEmpty /\ running[1] = MainThread
  BY <1>2, <1>6 DEF NeverGray, OpenListed, FreedEmpty, IsOpen
<1> QED BY <1>1, <1>7, <1>8, <1>9, <1>10 DEF FullInv, Safety

LEMMA NextFullInv ==
  ASSUME FullInv, [Next]_vars
  PROVE  FullInv'
<1>1. ListsInv' /\ TypeOK'
  BY NextLists DEF FullInv, ListsInv
<1>2. Safety'
  BY <1>1, MutatorSafety, CollectorSafety, FullGCSafety, StutterSafety DEF Next
<1> QED BY <1>1, <1>2 DEF FullInv

(* The inductive invariant, in every state of every schedule of the program *)
(* and the collector, for any number of objects of each kind.              *)
THEOREM InvariantHolds == Spec => []IInv
<1>1. Init => FullInv
  BY InitFullInv
<1>2. FullInv /\ [Next]_vars => FullInv'
  BY NextFullInv
<1>3. FullInv => IInv
  BY FullInvIsIInv
<1> QED BY <1>1, <1>2, <1>3, PTL DEF Spec

(* Nothing that the program can name, or reach from what it can name, is    *)
(* freed or about to be swept: not by any schedule of its stores, of the   *)
(* marking, of finalizers, of resumed and dropped coroutines.              *)
THEOREM NothingLiveIsFreed == Spec => []CheckLiveness
<1>1. IInv => CheckLiveness
  BY DEF IInv
<1> QED BY <1>1, InvariantHolds, PTL

(* The barriers keep their promise: while the collector marks, no black     *)
(* object refers to a white one.                                           *)
THEOREM BarriersSuffice == Spec => []TriColor
<1>1. IInv => TriColor
  BY DEF IInv
<1> QED BY <1>1, InvariantHolds, PTL

(* No gray object is forgotten by the lists of the mark phase.              *)
THEOREM NoGrayForgotten == Spec => []GrayLists
<1>1. IInv => GrayLists
  BY DEF IInv
<1> QED BY <1>1, InvariantHolds, PTL

(* Each stage of atomic has marked what the next one relies on.             *)
THEOREM AtomicMarksAll == Spec => []Remarked
<1>1. IInv => Remarked
  BY DEF IInv
<1> QED BY <1>1, InvariantHolds, PTL

(* The sweep meets every object that it has to free or to turn white.       *)
THEOREM NothingEscapesTheSweep == Spec => []SweepComplete
<1>1. IInv => SweepComplete
  BY DEF IInv
<1> QED BY <1>1, InvariantHolds, PTL
=============================================================================
