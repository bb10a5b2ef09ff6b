--------------------------- MODULE LuaGCPromiseProofs ---------------------------
(***************************************************************************)
(* Proofs of what the collector of LuaGC promises to the program: that it  *)
(* is invisible, that a cycle frees what was garbage when it began, and     *)
(* that finalizers are called newest first, once, and before their userdata *)
(* is freed.                                                               *)
(***************************************************************************)
EXTENDS LuaGCHistory, LuaGCCollectorProofs

USE DEF Objects, Values, FirstClass, Closed, Nil, Whites, AtomicStates, SweepStates, GCStates,
        HasGclist, Linked, LocalSlots

(***************************************************************************)
(* What can be reached.                                                    *)
(***************************************************************************)

(* Every set of objects that has the roots and all that its members refer   *)
(* to has all that can be reached.                                         *)
LEMMA ReachableLeast ==
  ASSUME NEW X \in SUBSET Objects, ProgramRoots \subseteq X, \A o \in X : StrongRefs(o) \subseteq X
  PROVE  Reachable \subseteq X
<1>1. PICK Y : Y = X \ ProgramRoots
  OBVIOUS
<1>2. Y \in SUBSET (Objects \ ProgramRoots) /\ X = ProgramRoots \cup Y
  BY <1>1
<1> QED BY <1>2 DEF Reachable, Closure

LEMMA ReachableLives ==
  ASSUME FullInv
  PROVE  Reachable \subseteq Live
<1>1. /\ RefsByKind /\ Live \subseteq Objects /\ Roots \subseteq Live /\ \A o \in Live : Refs(o) \subseteq Live
  BY Basics DEF FullInv, Safety, CheckLiveness
<1>2. ProgramRoots \subseteq Live
  BY <1>1 DEF Roots, ProgramRoots
<1>3. \A o \in Live : StrongRefs(o) \subseteq Live
  BY <1>1 DEF RefsByKind
<1> QED BY <1>1, <1>2, <1>3, ReachableLeast

(* When atomic has nothing left to visit, all that can be reached, but       *)
(* through weak fields, is marked.                                         *)
LEMMA ReachableMarked ==
  ASSUME FullInv, gcstate = "marktmu", gray = {}
  PROVE  Reachable \subseteq {o \in alive : color[o] \notin Whites}
<1> DEFINE X == {o \in alive : color[o] \notin Whites}
<1>1. /\ TypeOK /\ RefsByKind /\ alive \subseteq Objects /\ gcstate \in MarkPhase
      /\ \A o \in alive : Refs(o) \subseteq alive /\ StrongRefs(o) \subseteq alive
      /\ \A o \in alive : color[o] = "black" => \A r \in Refs(o) : color[r] \notin Whites
      /\ \A o \in alive : color[o] = "gray" => o \in grayagain \cup weak \cup Strings \cup OpenUpvals
      /\ color \in [Objects -> Whites \cup {"gray", "black"}]
  BY MarkPhaseFacts DEF MarkPhase, TypeOK, HeapType
<1>2. /\ \A p \in grayagain \cup weak : \A q \in StrongRefs(p) : color[q] \notin Whites
      /\ \A u \in OpenUpvals : color[u] = "gray" /\ UpvalValue(u) # NoObj => color[UpvalValue(u)] \notin Whites
      /\ color[MainThread] \notin Whites /\ color[Registry] \notin Whites
      /\ gmt # NoObj => color[gmt] \notin Whites
  BY <1>1 DEF FullInv, Safety, Remarked, RemarkedLists, iswhite
<1>3. ProgramRoots \subseteq X
  <2>1. \A th \in Range(running) : color[th] \notin Whites
    BY RunningMarked
  <2>2. ProgramRoots \subseteq Live /\ Live = alive
    BY <1>1, Basics DEF FullInv, Safety, CheckLiveness, Roots, ProgramRoots
  <2> QED BY <1>2, <2>1, <2>2 DEF ProgramRoots
<1>4. ASSUME NEW o \in X, NEW r \in StrongRefs(o) PROVE r \in X
  <2>1. o \in alive /\ o \in Objects /\ r \in Refs(o) /\ r \in alive
    BY <1>1 DEF RefsByKind
  <2>2. CASE color[o] = "black"
    BY <1>1, <2>1, <2>2
  <2>3. CASE color[o] = "gray"
    <3>1. CASE o \in grayagain \cup weak
      BY <1>2, <2>1, <3>1
    <3>2. CASE o \in Strings
      BY <1>1, <2>1, <3>2 DEF RefsByKind
    <3>3. CASE o \in OpenUpvals
      <4>1. Refs(o) = {UpvalValue(o)} \ {NoObj}
        BY <1>1, <2>1, <3>3 DEF RefsByKind, OpenUpvals
      <4> QED BY <1>2, <2>1, <2>3, <3>3, <4>1
    <3> QED BY <1>1, <2>1, <2>3, <3>1, <3>2, <3>3
  <2> QED BY <1>1, <2>1, <2>2, <2>3
<1>5. X \in SUBSET Objects
  BY <1>1
<1> HIDE DEF X
<1>6. Reachable \subseteq X
  BY <1>3, <1>4, <1>5, ReachableLeast
<1> QED BY <1>6 DEF X

(***************************************************************************)
(* The collector is invisible.                                             *)
(***************************************************************************)

(* The program runs outside of atomic, and does not move the collector.     *)
LEMMA MutatorControl ==
  ASSUME Mutator
  PROVE  MutatorRuns /\ UNCHANGED <<tmudata, weak, unswept, sweepstrgc>> /\ UNCHANGED ctlVars
<1>1. CASE \E s \in LocalSlots :
             \/ \E v \in Held \cup {NoObj, cur} : Move(s, v)
             \/ \E o, v \in Objects : Load(o, v, s)
             \/ LoadBasicMetatable(s)
             \/ \E th \in Threads, v \in Held : StoreInThread(th, s, v)
  BY <1>1 DEF Move, Load, LoadBasicMetatable, StoreInThread, udVars, listVars
<1>2. CASE \E th \in Threads, t \in Tables : SetGlobals(th, t)
  BY <1>2 DEF SetGlobals, udVars, listVars
<1>3. CASE \E s \in LocalSlots :
             \/ \E t \in Tables : NewTable(t, s)
             \/ \E u \in Udatas, env \in Tables : NewUdata(u, env, s)
             \/ \E f \in Functions : \E S \in SUBSET (Held \cup Upvals) : NewFunction(f, S, s)
  BY <1>3 DEF NewTable, NewUdata, NewFunction, udVars, listVars
<1>4. CASE \E s \in LocalSlots :
             \/ \E f \in Functions, u \in Upvals : CaptureOpen(f, u, s)
             \/ \E f \in Functions, u \in Upvals, level \in LocalSlots : CaptureNew(f, u, level, s)
             \/ \E th \in Threads : NewThread(th, s)
             \/ \E str \in Strings : NewString(str, s)
  BY <1>4 DEF CaptureOpen, CaptureNew, NewThread, NewString, udVars, listVars
<1>5. CASE \/ \E t \in Tables, k \in (Held \cap AsKeys) \cup {NoObj} :
                \E v \in Held \cup {NoObj, Nil} : SetTable(t, k, v)
           \/ \E t \in Tables, m \in Values : SetTableMeta(t, m)
  BY <1>5 DEF SetTable, SetTableMeta, udVars, listVars
<1>6. CASE \/ \E u \in Udatas, m \in Values : SetUdataMeta(u, m)
           \/ \E u \in Udatas, env \in Tables : SetUdataEnv(u, env)
           \/ \E f \in Functions, old, v \in Values : SetField(f, old, v)
           \/ \E u \in Upvals, v \in Values : SetUpval(u, v)
  BY <1>6 DEF SetUdataMeta, SetUdataEnv, SetField, SetUpval, udVars, listVars
<1>7. CASE (\E th \in Threads : Resume(th)) \/ Yield \/ \E m \in Values : SetBasicMeta(m)
  BY <1>7 DEF Resume, Yield, SetBasicMeta, udVars, listVars
<1>8. CASE \E S \in SUBSET OpenUpvals : CloseUpvals(S)
  BY <1>8 DEF CloseUpvals, udVars, listVars
<1> QED BY <1>1, <1>2, <1>3, <1>4, <1>5, <1>6, <1>7, <1>8 DEF Mutator

(* Since remarkweak the list of weak tables has tables only whose metatable *)
(* says so: the program does not run and cannot change it.                 *)
WeakTables == gcstate \in {"remarkweak", "remarkagain", "marktmu"} => \A t \in weak : WeakMode(t) # {}

LEMMA NextWeakTables ==
  ASSUME FullInv, FullInv', WeakTables, [Next]_vars
  PROVE  WeakTables'
<1> SUFFICES ASSUME gcstate' \in {"remarkweak", "remarkagain", "marktmu"}, NEW t \in weak'
             PROVE  WeakMode(t)' # {}
  BY DEF WeakTables
<1>1. CASE Mutator
  <2>1. gcstate \notin AtomicStates /\ gcstate' = gcstate
    BY <1>1, MutatorControl DEF ctlVars, MutatorRuns
  <2> QED BY <2>1
<1>2. CASE RemarkWeak
  BY <1>2 DEF RemarkWeak
<1>3. CASE RemarkAgain \/ MarkTmu \/ UNCHANGED vars
  <2>1. /\ UNCHANGED <<weak, meta>> /\ gcstate \in {"remarkweak", "remarkagain", "marktmu"}
    BY <1>3 DEF RemarkAgain, MarkTmu, AtomicStage, heapVars, listVars, ctlVars, vars
  <2> QED BY <2>1 DEF WeakTables, WeakMode
<1>4. CASE \E o \in Objects : PropagateMark(o)
  <2>1. PICK o \in Objects : PropagateMark(o)
    BY <1>4
  <2>2. /\ UNCHANGED <<meta, gcstate>>
        /\ weak' = IF WeakMode(o) # {} THEN weak \cup {o} ELSE weak
    BY <2>1 DEF PropagateMark, heapVars, ctlVars
  <2> QED BY <2>2 DEF WeakTables, WeakMode
<1>5. CASE \/ MarkRoot \/ RemarkUpvals \/ (\E inarray : ClearAndFlip(inarray)) \/ SweepString
           \/ (\E o \in Objects : Sweep(o)) \/ (\E s \in LocalSlots : GCTM(s)) \/ EndCycle \/ FullGC
  <2>1. gcstate' \notin {"remarkweak", "remarkagain", "marktmu"}
    BY <1>5 DEF MarkRoot, RemarkUpvals, AtomicStage, ClearAndFlip, SweepString, Sweep, GCTM, EndCycle, FullGC,
                MutatorRuns, ctlVars
  <2> QED BY <2>1
<1> QED BY <1>1, <1>2, <1>3, <1>4, <1>5 DEF Next, Collector

(* What a step of the collector leaves of an object.                        *)
Untouched(o) ==
  /\ o \in alive'
  /\ meta'[o] = meta[o] /\ fields'[o] = fields[o]
  /\ entries'[o] \subseteq entries[o]
  /\ \A e \in entries[o] \ entries'[o] : Goes(o, e)
  /\ o \in Upvals => UpvalValue(o)' = UpvalValue(o)
  /\ o \in Threads => \A s \in Slots :
       \/ stack'[o][s] = stack[o][s]
       \/ tmudata # <<>> /\ stack'[o][s] = Head(tmudata)

LEMMA CollectorUntouched ==
  ASSUME FullInv, FullInv', WeakTables, Collector, NEW o \in Reachable
  PROVE  Untouched(o)
<1>1. o \in Live /\ o \in alive /\ o \in Objects
  BY ReachableLives, Basics
<1>2. CASE UNCHANGED <<heapVars, stack>>
  <2>1. UNCHANGED <<alive, meta, fields, entries, uvloc, uvval, stack>>
    BY <1>2 DEF heapVars
  <2>2. UpvalValue(o)' = UpvalValue(o)
    BY <2>1 DEF UpvalValue, IsOpen
  <2> QED BY <1>1, <2>1, <2>2 DEF Untouched
<1>3. CASE \E inarray : ClearAndFlip(inarray)
  <2>1. PICK inarray : ClearAndFlip(inarray)
    BY <1>3
  <2>2. /\ gcstate = "marktmu" /\ gray = {}
        /\ entries' = [p \in Objects |-> IF p \in weak THEN entries[p] \ ClearedOf(inarray, p) ELSE entries[p]]
        /\ UNCHANGED <<alive, meta, fields, uvloc, uvval, stack>>
    BY <2>1 DEF ClearAndFlip, ClearedOf
  <2>3. UpvalValue(o)' = UpvalValue(o)
    BY <2>2 DEF UpvalValue, IsOpen
  <2>4. ASSUME NEW e \in entries[o], o \in weak, e \in ClearedOf(inarray, o) PROVE Goes(o, e)
    <3>1. /\ o \in Tables /\ WeakMode(o) # {} /\ Reachable \subseteq {p \in alive : color[p] \notin Whites}
          /\ \A r \in StrongRefs(o) : color[r] \notin Whites
      BY <2>2, <2>4, ReachableMarked DEF WeakTables, FullInv, ListsInv, TypeOK, CollectorType,
           Safety, Remarked, RemarkedLists, iswhite
    <3>2. CASE ClearedKey(e[1])
      <4>1. e[1] \in Objects \ Strings /\ color[e[1]] \in Whites /\ e[1] # NoObj
        BY <3>2, KindsAssumption DEF ClearedKey, iswhite
      <4>2. e[1] \in Keys(o)
        BY DEF Keys
      <4>3. "k" \in WeakMode(o)
        BY <3>1, <4>1, <4>2 DEF StrongRefs
      <4> QED BY <3>1, <4>1, <4>3 DEF Goes
    <3>3. CASE ClearedKey(e[2])
      <4>1. e[2] \in Objects \ Strings /\ color[e[2]] \in Whites /\ e[2] # NoObj
        BY <3>3, KindsAssumption DEF ClearedKey, iswhite
      <4>2. e[2] \in Vals(o)
        BY DEF Vals
      <4>3. "v" \in WeakMode(o)
        BY <3>1, <4>1, <4>2 DEF StrongRefs
      <4> QED BY <3>1, <4>1, <4>3 DEF Goes
    <3>4. CASE e[2] \in Udatas \cap finalized
      BY <3>1, <3>4 DEF Goes
    <3> QED BY <2>4, <3>2, <3>3, <3>4 DEF ClearedOf, ClearedValue
  <2>5. entries'[o] \subseteq entries[o] /\ \A e \in entries[o] \ entries'[o] : Goes(o, e)
    BY <1>1, <2>2, <2>4
  <2> QED BY <1>1, <2>2, <2>3, <2>5 DEF Untouched
<1>4. CASE SweepString \/ \E p \in Objects : Sweep(p)
  <2>1. PICK B \in SUBSET alive : SweepList(B) /\ gcstate \in SweepStates /\ gcstate' \notin MarkPhase
                                   /\ UNCHANGED currentwhite
    <3>1. CASE SweepString
      <4>1. PICK B : B = {s \in alive \cap Strings : Hash[s] % strsize = sweepstrgc}
        OBVIOUS
      <4>2. B \in SUBSET alive /\ SweepList(B)
        BY <3>1, <4>1 DEF SweepString
      <4>3. gcstate \in SweepStates /\ gcstate' \notin MarkPhase /\ UNCHANGED currentwhite
        BY <3>1 DEF SweepString, MarkPhase
      <4> QED BY <4>2, <4>3
    <3>2. CASE \E p \in Objects : Sweep(p)
      <4>1. PICK p \in Objects : Sweep(p)
        BY <3>2
      <4>2. PICK B : B = {p} \cup UpvalsOf({p})
        OBVIOUS
      <4>3. B \in SUBSET alive /\ SweepList(B)
        BY <4>1, <4>2 DEF Sweep, FullInv, ListsInv, UnsweptListed, UpvalsOf, OpenUpvals
      <4>4. gcstate \in SweepStates /\ gcstate' \notin MarkPhase /\ UNCHANGED currentwhite
        BY <4>1 DEF Sweep, MarkPhase
      <4> QED BY <4>3, <4>4
    <3> QED BY <1>4, <3>1, <3>2
  <2>2. TypeOK'
    BY DEF FullInv, ListsInv
  <2>3. \A p \in Live : Whole(p)
    BY <2>1, <2>2, SweepListStep
  <2> QED BY <1>1, <2>3 DEF Whole, Untouched
<1>5. CASE \E s \in LocalSlots : GCTM(s)
  <2>1. PICK s \in LocalSlots : GCTM(s)
    BY <1>5
  <2>2. UNCHANGED <<alive, meta, fields, entries, uvloc, uvval, running>> /\ tmudata # <<>>
    BY <2>1 DEF GCTM, heapVars
  <2>3. CASE UNCHANGED stack
    BY <1>2, <2>1, <2>3 DEF GCTM
  <2>4. CASE OnTop(s, Head(tmudata))
    <3>1. \A t \in Threads, z \in Slots :
            stack'[t][z] = IF t = cur /\ z = s THEN Head(tmudata) ELSE stack[t][z]
      BY <2>4, PushFacts DEF OnTop, FullInv, ListsInv
    <3>2. ASSUME o \in Upvals PROVE UpvalValue(o)' = UpvalValue(o)
      <4>1. CASE IsOpen(o)
        <5>1. o \in OpenUpvals /\ uvloc[o] # <<cur, s>>
          BY <1>1, <2>4, <3>2, <4>1 DEF OpenUpvals, OnTop
        <5>2. uvloc[o] \in Threads \X Slots
          BY <3>2, <4>1 DEF FullInv, ListsInv, TypeOK, ProgramType, IsOpen
        <5>3. stack'[uvloc[o][1]][uvloc[o][2]] = stack[uvloc[o][1]][uvloc[o][2]]
          BY <3>1, <5>1, <5>2
        <5> QED BY <2>2, <4>1, <5>3 DEF UpvalValue, IsOpen
      <4>2. CASE ~ IsOpen(o)
        BY <2>2, <4>2 DEF UpvalValue, IsOpen
      <4> QED BY <4>1, <4>2
    <3> QED BY <1>1, <2>2, <3>1, <3>2 DEF Untouched
  <2> QED BY <2>1, <2>3, <2>4 DEF GCTM
<1>6. CASE \/ MarkRoot \/ (\E p \in Objects : PropagateMark(p)) \/ RemarkUpvals \/ RemarkWeak \/ RemarkAgain
           \/ MarkTmu \/ EndCycle
  BY <1>2, <1>6 DEF MarkRoot, PropagateMark, RemarkUpvals, RemarkWeak, RemarkAgain, MarkTmu, EndCycle, AtomicStage
<1> QED BY <1>3, <1>4, <1>5, <1>6 DEF Collector

(* No step of the collector can be seen by the program: whatever it can     *)
(* reach stays allocated and as it was, but for the fields of weak tables  *)
(* whose key or value nothing else keeps, and for the userdata that GCTM   *)
(* pushes.                                                                 *)
THEOREM CollectorIsInvisible == Spec => CollectorInvisible
<1>1. Init => FullInv
  BY InitFullInv
<1>2. FullInv /\ [Next]_vars => FullInv'
  BY NextFullInv
<1>3. Init => WeakTables
  BY DEF Init, InitWith, WeakTables
<1>4. FullInv /\ FullInv' /\ WeakTables /\ [Next]_vars => WeakTables'
  BY NextWeakTables
<1>5. FullInv /\ FullInv' /\ WeakTables /\ [Next]_vars =>
        [Collector => \A o \in Reachable :
         /\ o \in alive'
         /\ meta'[o] = meta[o] /\ fields'[o] = fields[o]
         /\ entries'[o] \subseteq entries[o]
         /\ \A e \in entries[o] \ entries'[o] : Goes(o, e)
         /\ o \in Upvals => UpvalValue(o)' = UpvalValue(o)
         /\ o \in Threads => \A s \in Slots :
              \/ stack'[o][s] = stack[o][s]
              \/ tmudata # <<>> /\ stack'[o][s] = Head(tmudata)]_vars
  BY CollectorUntouched DEF Untouched
<1> QED BY <1>1, <1>2, <1>3, <1>4, <1>5, PTL DEF Spec, CollectorInvisible

(***************************************************************************)
(* One cycle is enough.                                                    *)
(***************************************************************************)
ReferredRoots ==
  ProgramRoots \cup Range(tmudata) \cup {u \in Range(udlist) : HasFinalizer(u) /\ u \notin finalized}

ReferredClosed ==
  /\ Referred \subseteq Objects /\ ReferredRoots \subseteq Referred
  /\ \A o \in Referred : Refs(o) \subseteq Referred
  /\ cur \in Referred /\ Held \subseteq Referred /\ Registry \in Referred

ReferredIsLeast ==
  \A X \in SUBSET Objects : ReferredRoots \subseteq X /\ (\A o \in X : Refs(o) \subseteq X) => Referred \subseteq X

LEMMA ReferredLeast == ReferredIsLeast
<1> SUFFICES ASSUME NEW X \in SUBSET Objects, ReferredRoots \subseteq X, \A o \in X : Refs(o) \subseteq X
             PROVE  Referred \subseteq X
  BY DEF ReferredIsLeast
<1>1. PICK Y : Y = X \ ReferredRoots
  OBVIOUS
<1>2. Y \in SUBSET (Objects \ ReferredRoots) /\ X = ReferredRoots \cup Y
  BY <1>1
<1>3. X \in {ReferredRoots \cup Z : Z \in SUBSET (Objects \ ReferredRoots)}
  BY <1>2
<1>4. Referred = Closure(ReferredRoots, Refs)
  BY DEF Referred, ReferredRoots
<1> QED BY <1>3, <1>4 DEF Closure

LEMMA ReferredLeastPrime == ReferredIsLeast'
<1> QED BY ReferredLeast, PTL

LEMMA ReferredIsClosed == TypeOK => ReferredClosed
<1> SUFFICES ASSUME TypeOK PROVE ReferredClosed
  OBVIOUS
<1>1. RefsByKind /\ cur \in Threads /\ running \in Seq(Threads) /\ Len(running) \in Nat \ {0}
  BY RefsKinds, CurType DEF TypeOK, ProgramType
<1>2. ReferredRoots \subseteq Objects
  BY <1>1, KindsAssumption, RangeType DEF ReferredRoots, ProgramRoots, TypeOK, ProgramType, CollectorType, Range
<1>3. ReferredRoots \subseteq Referred /\ Referred \subseteq Objects
  BY <1>2 DEF Referred, Closure, ReferredRoots
<1>4. ASSUME NEW o \in Referred, NEW r \in Refs(o) PROVE r \in Referred
  <2>1. o \in Objects /\ r \in Objects
    BY <1>1, <1>3, <1>4 DEF RefsByKind
  <2>2. ASSUME NEW X \in {ReferredRoots \cup Y : Y \in SUBSET (Objects \ ReferredRoots)},
               \A p \in X : Refs(p) \subseteq X
        PROVE  r \in X
    <3>1. o \in X
      BY <1>4, <2>2 DEF Referred, Closure, ReferredRoots
    <3> QED BY <1>4, <2>2, <3>1
  <2> QED BY <2>1, <2>2 DEF Referred, Closure, ReferredRoots
<1>5. cur \in Referred /\ Registry \in Referred
  <2>1. cur \in Range(running)
    BY <1>1 DEF cur, Range
  <2> QED BY <1>3, <2>1 DEF ReferredRoots, ProgramRoots
<1>6. Held \subseteq Refs(cur)
  BY <1>1 DEF RefsByKind, Held, StackOf
<1> QED BY <1>3, <1>4, <1>5, <1>6 DEF ReferredClosed

LEMMA ReferredIsClosedPrime == TypeOK' => ReferredClosed'
<1> QED BY ReferredIsClosed, PTL

(* The invariant of a cycle.  What nothing referred to when it began is     *)
(* not referred to later, ...                                              *)
GarbageLost == garbage \subseteq Objects \ Strings /\ garbage \cap Referred = {}
(* ... not even by objects that are no garbage but that nothing refers to    *)
(* any more, ...                                                           *)
GarbageApart == \A o \in Live \ garbage : Refs(o) \cap garbage = {}
(* ... is not marked, and so is dead when the white is flipped.  A cycle    *)
(* that luaC_fullgc drops frees nothing.                                   *)
GarbageWhite == gcstate \in MarkPhase => \A o \in garbage \cap alive : iswhite(o)
GarbageDead == gcstate \notin MarkPhase /\ fullgc # "sweeping" => \A o \in garbage \cap alive : isdead(o)
GarbageInv == GarbageLost /\ GarbageApart /\ GarbageWhite /\ GarbageDead

(* What the program does to objects that are dead or will be: those of N,    *)
(* that it makes or finds again, are referred to, others get no reference   *)
(* but to the objects of V, that are referred to, and keep their color.     *)
Gains(N, V) ==
  /\ N \cup V \subseteq Referred' /\ alive' \subseteq alive \cup N
  /\ \A o \in Objects \ N : Refs(o)' \subseteq Refs(o) \cup V
  /\ \A o \in (alive \cap alive') \ N : isdead(o) \/ (o \in garbage /\ iswhite(o)) => color'[o] = color[o]

(* The garbage only gets smaller, until the next cycle begins.              *)
Remembers == /\ garbage' \subseteq garbage /\ garbage' \cap Referred' = {}
             /\ garbage \ garbage' \subseteq Referred'

LEMMA GarbageStep ==
  ASSUME FullInv, FullInv', GarbageInv, Remembers,
         \A o \in Live' \ Referred' : o \in Live /\ Refs(o)' \subseteq Refs(o) \cup Referred',
         GarbageWhite', GarbageDead'
  PROVE  GarbageInv'
<1>1. ReferredClosed'
  BY ReferredIsClosedPrime DEF FullInv, ListsInv
<1>2. GarbageLost'
  BY DEF GarbageInv, GarbageLost, Remembers
<1>3. ASSUME NEW o \in Live', o \notin garbage' PROVE Refs(o)' \cap garbage' = {}
  <2>1. CASE o \in Referred'
    BY <1>1, <2>1 DEF ReferredClosed, Remembers
  <2>2. CASE o \notin Referred'
    <3>1. o \notin garbage
      BY <1>3, <2>2 DEF Remembers
    <3>2. Refs(o) \cap garbage = {}
      BY <2>2, <3>1 DEF GarbageInv, GarbageApart
    <3> QED BY <2>2, <3>2 DEF Remembers
  <2> QED BY <2>1, <2>2
<1> QED BY <1>2, <1>3 DEF GarbageInv, GarbageApart

LEMMA GainsStep ==
  ASSUME FullInv, FullInv', GarbageInv, Remembers, UNCHANGED ctlVars, NEW N, NEW V, Gains(N, V)
  PROVE  GarbageInv'
<1>1. UNCHANGED <<gcstate, currentwhite, fullgc>> /\ otherwhite' = otherwhite
  BY DEF ctlVars, otherwhite
<1>2. alive' \subseteq Objects /\ alive \subseteq Objects
  BY DEF FullInv, ListsInv, TypeOK, HeapType
<1>3. ASSUME NEW o \in Live' \ Referred' PROVE o \in Live /\ Refs(o)' \subseteq Refs(o) \cup Referred'
  <2>1. o \in alive' /\ o \notin N /\ o \in alive /\ o \in Objects /\ color'[o] # otherwhite'
    BY <1>2 DEF Live, isdead, Gains
  <2>2. o \in Live
    BY <1>1, <2>1 DEF Live, isdead, Gains
  <2> QED BY <2>1, <2>2 DEF Gains
<1>4. ASSUME NEW o \in garbage' \cap alive'
      PROVE  o \in garbage \cap alive /\ (iswhite(o) => color'[o] = color[o])
  <2>1. o \in garbage /\ o \notin Referred' /\ o \notin N /\ o \in alive
    BY DEF Remembers, Gains
  <2> QED BY <2>1 DEF Gains
<1>5. GarbageWhite'
  BY <1>1, <1>4 DEF GarbageInv, GarbageWhite, iswhite
<1>6. GarbageDead'
  <2>1. \A o : isdead(o) => iswhite(o)
    BY Basics DEF isdead, iswhite
  <2> QED BY <1>1, <1>4, <2>1 DEF GarbageInv, GarbageDead, isdead
<1> QED BY <1>3, <1>5, <1>6, GarbageStep

(* What is marked is marked through references.                             *)
LEMMA MarkedWithin ==
  ASSUME TypeOK, NEW X \in SUBSET Objects, \A o \in X : Refs(o) \subseteq X, NEW S, S \subseteq X \cup {NoObj}
  PROVE  Marked(S) \subseteq X
<1> DEFINE w  == {o \in S : o # NoObj /\ iswhite(o)}
           vals == {v \in {UpvalValue(u) : u \in w \cap Upvals} : v # NoObj /\ iswhite(v)}
           wv == w \cup vals
           own == {v \in UNION {OwnRefs(u) : u \in wv \cap Udatas} : v # NoObj /\ iswhite(v)}
<1>1. Marked(S) = wv \cup own
  BY DEF Marked
<1>2. w \subseteq X
  OBVIOUS
<1>3. RefsByKind
  BY RefsKinds
<1>4. \A u \in w \cap Upvals : UpvalValue(u) # NoObj => UpvalValue(u) \in Refs(u)
  BY <1>2, <1>3 DEF RefsByKind
<1>5. wv \subseteq X
  BY <1>2, <1>4
<1>6. \A u \in wv \cap Udatas : OwnRefs(u) \ {NoObj} \subseteq Refs(u)
  BY <1>3, <1>5 DEF RefsByKind
<1>7. own \subseteq X
  BY <1>5, <1>6
<1> QED BY <1>1, <1>5, <1>7

(* What lives and is no garbage.                                            *)
Safe == Live \ garbage

LEMMA SafeFacts ==
  ASSUME FullInv, GarbageInv
  PROVE  /\ Safe \in SUBSET Objects /\ \A o \in Safe : Refs(o) \subseteq Safe
         /\ Held \subseteq Safe /\ cur \in Safe /\ Range(tmudata) \subseteq Safe
         /\ gmt # NoObj => gmt \in Safe
         /\ \A S \in SUBSET (Safe \cup {NoObj}) : Marked(S) \subseteq Safe
<1>1. /\ TypeOK /\ Live \subseteq Objects /\ \A o \in Live : Refs(o) \subseteq Live
      /\ Held \subseteq Live /\ cur \in Live /\ Range(tmudata) \subseteq Live /\ (gmt # NoObj => gmt \in Live)
  BY Basics
<1>2. ReferredClosed
  BY <1>1, ReferredIsClosed
<1>3. Safe \in SUBSET Objects /\ \A o \in Safe : Refs(o) \subseteq Safe
  BY <1>1 DEF Safe, GarbageInv, GarbageApart
<1>4. Held \subseteq Safe /\ cur \in Safe /\ Range(tmudata) \subseteq Safe /\ (gmt # NoObj => gmt \in Safe)
  BY <1>1, <1>2 DEF Safe, GarbageInv, GarbageLost, ReferredClosed, ReferredRoots, ProgramRoots
<1>5. \A S \in SUBSET (Safe \cup {NoObj}) : Marked(S) \subseteq Safe
  BY <1>1, <1>3, MarkedWithin
<1> QED BY <1>3, <1>4, <1>5

LEMMA RecolorSafe ==
  ASSUME FullInv, GarbageInv, NEW S \in SUBSET (Safe \cup {NoObj}), NEW graylist, MarkFrom(S, graylist)
  PROVE  \A o \in alive : isdead(o) \/ o \in garbage => color'[o] = color[o]
<1>1. Marked(S) \subseteq Safe /\ alive \subseteq Objects
  BY SafeFacts DEF FullInv, ListsInv, TypeOK, HeapType
<1> QED BY <1>1 DEF MarkFrom, Recolor, Safe, Live

LEMMA BarrierfSafe ==
  ASSUME FullInv, GarbageInv, NEW p, NEW v \in Safe \cup {NoObj}, luaC_barrierf(p, v)
  PROVE  \A o \in alive : isdead(o) \/ (o \in garbage /\ iswhite(o)) => color'[o] = color[o]
<1>1. /\ alive \subseteq Objects /\ color \in [Objects -> Whites \cup {"gray", "black"}] /\ otherwhite \in Whites
  BY Basics DEF TypeOK, HeapType
<1>2. CASE MarkFrom({v}, gray)
  BY <1>2, RecolorSafe
<1>3. CASE isblack(p) /\ color' = [color EXCEPT ![p] = currentwhite]
  BY <1>1, <1>3 DEF isdead, iswhite, isblack
<1>4. CASE UNCHANGED color
  BY <1>4
<1> QED BY <1>2, <1>3, <1>4 DEF luaC_barrierf

(***************************************************************************)
(* The operations of the program.                                          *)
(***************************************************************************)
LEMMA HeldStays ==
  ASSUME TypeOK, NEW th \in Threads, NEW s \in Slots, NEW v \in FirstClass,
         stack' = [stack EXCEPT ![th][s] = v], UNCHANGED running
  PROVE  /\ th = cur => v \in Held' \cup {NoObj}
         /\ v \in Held => v \in Held'
<1>1. cur' = cur /\ cur \in Threads /\ stack \in [Threads -> [Slots -> FirstClass]]
  BY CurType DEF cur, TypeOK, ProgramType
<1>2. \A t \in Threads, z \in Slots : stack'[t][z] = IF t = th /\ z = s THEN v ELSE stack[t][z]
  BY <1>1
<1>3. \A t \in Threads : DOMAIN stack[t] = Slots /\ DOMAIN stack'[t] = Slots
  BY <1>1
<1>4. th = cur => v \in Range(stack[cur])'
  BY <1>1, <1>2, <1>3 DEF Range
<1>5. v \in Held => v \in Range(stack[cur])'
  <2> SUFFICES ASSUME v \in Held, th # cur PROVE v \in Range(stack[cur])'
    BY <1>4
  <2>1. PICK z \in Slots : stack[cur][z] = v
    BY <1>3, <1>1 DEF Held, StackOf, Range
  <2> QED BY <1>1, <1>2, <1>3, <2>1 DEF Range
<1> QED BY <1>4, <1>5 DEF Held, StackOf

(* A store in a stack.                                                     *)
LEMMA StackGains ==
  ASSUME FullInv, FullInv', NEW th \in Threads \cap alive, NEW s \in Slots, NEW v \in FirstClass,
         th = cur \/ v \in Held,
         stack' = [stack EXCEPT ![th][s] = v], UNCHANGED <<heapVars, color, running>>
  PROVE  Gains({}, {v} \ {NoObj})
<1>1. /\ TypeOK /\ TypeOK' /\ OpenListed /\ ReferredClosed'
      /\ UNCHANGED <<alive, meta, fields, entries, uvloc, uvval>>
  BY ReferredIsClosedPrime DEF FullInv, ListsInv, Safety, heapVars
<1>2. {v} \ {NoObj} \subseteq Referred'
  BY <1>1, HeldStays DEF ReferredClosed
<1>3. \A o \in Objects : Refs(o)' \subseteq Refs(o) \cup ({v} \ {NoObj})
  <2>1. /\ \A t \in Threads, z \in Slots : stack'[t][z] = IF t = th /\ z = s THEN v ELSE stack[t][z]
        /\ \A t \in Threads \ {th} : stack'[t] = stack[t]
    BY <1>1 DEF TypeOK, ProgramType
  <2> QED BY <1>1, <2>1, PushRefs
<1> QED BY <1>1, <1>2, <1>3 DEF Gains

(* Objects that are made or found, of which v is pushed.                    *)
LEMMA PushGains ==
  ASSUME FullInv, FullInv', NEW N \in SUBSET Objects, NEW s \in LocalSlots, NEW v \in FirstClass \ {NoObj},
         \A o \in N : o = v \/ o \in fields'[v],
         alive' \subseteq alive \cup N, UNCHANGED <<meta, entries, uvval, running>>,
         \A o \in Objects \ N : fields'[o] = fields[o] /\ color'[o] = color[o],
         \A u \in Upvals \ N : uvloc'[u] = uvloc[u],
         \A t \in Threads \cap alive, z \in Slots : stack'[t][z] = IF t = cur /\ z = s THEN v ELSE stack[t][z],
         \A t \in Threads \ (alive \cup N) : stack'[t] = stack[t]
  PROVE  Gains(N, {v})
<1>1. /\ TypeOK /\ TypeOK' /\ OpenListed /\ ReferredClosed' /\ cur \in Threads \cap alive /\ cur' = cur
      /\ s \in Slots /\ alive \subseteq Objects
  BY Basics, ReferredIsClosedPrime DEF FullInv, ListsInv, Safety, cur, TypeOK, HeapType
<1>2. v \in Referred'
  <2>1. DOMAIN stack'[cur] = Slots /\ stack'[cur][s] = v
    BY <1>1 DEF TypeOK, ProgramType
  <2>2. v \in Range(stack[cur])'
    BY <1>1, <2>1 DEF Range
  <2> QED BY <1>1, <2>2 DEF ReferredClosed, Held, StackOf
<1>3. N \subseteq Referred'
  <2>1. \A o \in N : o # NoObj
    BY KindsAssumption
  <2>2. \A o \in fields'[v] : o # NoObj => o \in Refs(v)'
    BY DEF Refs, OwnRefs
  <2> QED BY <1>1, <1>2, <2>1, <2>2 DEF ReferredClosed
<1>4. ASSUME NEW o \in Objects \ N PROVE Refs(o)' \subseteq Refs(o) \cup {v}
  <2>1. o \in Threads \ alive => stack'[o] = stack[o] /\ o # cur
    BY <1>1
  <2>2. Refs(o)' \subseteq Refs(o) \cup ({v} \ {NoObj})
    BY <1>1, <2>1, PushRefs
  <2> QED BY <2>2
<1> QED BY <1>1, <1>2, <1>3, <1>4 DEF Gains

LEMMA StackOpsGain ==
  ASSUME FullInv, FullInv', NEW s \in LocalSlots,
         \/ \E v \in Held \cup {NoObj, cur} : Move(s, v)
         \/ \E o, v \in Objects : Load(o, v, s)
         \/ LoadBasicMetatable(s)
         \/ \E th \in Threads, v \in Held : StoreInThread(th, s, v)
  PROVE  \E N, V : Gains(N, V)
<1>1. /\ cur \in Threads \cap alive /\ Held \subseteq FirstClass \ {NoObj} /\ NoObj \in FirstClass
      /\ cur \in FirstClass /\ gmt \in FirstClass /\ Tables \subseteq FirstClass /\ GlobalSlot \in Slots
      /\ s \in Slots /\ Held \subseteq alive
  BY Basics, HeldType, KindsAssumption DEF TypeOK, ProgramType
<1>2. CASE \E v \in Held \cup {NoObj, cur} : Move(s, v)
  <2> PICK v \in Held \cup {NoObj, cur} : Move(s, v)
    BY <1>2
  <2>1. /\ v \in FirstClass /\ stack' = [stack EXCEPT ![cur][s] = v]
        /\ UNCHANGED <<heapVars, color, running>>
    BY <1>1 DEF Move, Push
  <2> QED BY <1>1, <2>1, StackGains
<1>3. CASE \E o, v \in Objects : Load(o, v, s)
  <2> PICK o \in Objects, v \in Objects : Load(o, v, s)
    BY <1>3
  <2>1. /\ v \in FirstClass /\ stack' = [stack EXCEPT ![cur][s] = v]
        /\ UNCHANGED <<heapVars, color, running>>
    BY DEF Load, Push
  <2> QED BY <1>1, <2>1, StackGains
<1>4. CASE LoadBasicMetatable(s)
  <2>1. stack' = [stack EXCEPT ![cur][s] = gmt] /\ UNCHANGED <<heapVars, color, running>>
    BY <1>4 DEF LoadBasicMetatable, Push
  <2> QED BY <1>1, <2>1, StackGains
<1>5. CASE \E th \in Threads, v \in Held : StoreInThread(th, s, v)
  <2> PICK th \in Threads, v \in Held : StoreInThread(th, s, v)
    BY <1>5
  <2>1. /\ th \in Threads \cap alive /\ v \in FirstClass /\ stack' = [stack EXCEPT ![th][s] = v]
        /\ UNCHANGED <<heapVars, color, running>>
    BY <1>1 DEF StoreInThread
  <2> QED BY <1>1, <2>1, StackGains
<1> QED BY <1>2, <1>3, <1>4, <1>5

(* Object o is made or found, with those of M, that it has as upvalues.      *)
Finds(o, M, s) ==
  /\ M \subseteq fields'[o] /\ alive' \subseteq alive \cup {o} \cup M
  /\ UNCHANGED <<meta, entries, uvval, running>>
  /\ \A p \in Objects \ ({o} \cup M) : fields'[p] = fields[p] /\ color'[p] = color[p]
  /\ \A u \in Upvals \ M : uvloc'[u] = uvloc[u]
  /\ Push(s, o)

LEMMA FindsGain ==
  ASSUME FullInv, FullInv', NEW s \in LocalSlots, NEW o \in Tables \cup Udatas \cup Functions \cup Strings,
         NEW M \in SUBSET Upvals, Finds(o, M, s)
  PROVE  \E N, V : Gains(N, V)
<1>1. /\ TypeOK /\ o \in Objects /\ o \in FirstClass \ {NoObj} /\ o \notin Upvals \cup Threads
      /\ M \cap Threads = {}
  BY Basics, KindsAssumption
<1>2. PICK K \in SUBSET Objects : K = {o} \cup M
  BY <1>1
<1>3. /\ \A p \in K : p = o \/ p \in fields'[o]
      /\ alive' \subseteq alive \cup K /\ UNCHANGED <<meta, entries, uvval, running>>
      /\ \A p \in Objects \ K : fields'[p] = fields[p] /\ color'[p] = color[p]
      /\ \A u \in Upvals \ K : uvloc'[u] = uvloc[u]
  BY <1>2 DEF Finds
<1>4. /\ \A t \in Threads, z \in Slots : stack'[t][z] = IF t = cur /\ z = s THEN o ELSE stack[t][z]
      /\ \A t \in Threads \ alive : stack'[t] = stack[t]
  BY <1>1, PushFacts, Basics DEF Finds
<1>5. Gains(K, {o})
  BY <1>1, <1>3, <1>4, PushGains
<1> QED BY <1>5

LEMMA MakesGain ==
  ASSUME FullInv, FullInv', NEW s \in LocalSlots,
         \/ \E t \in Tables : NewTable(t, s)
         \/ \E u \in Udatas, env \in Tables : NewUdata(u, env, s)
         \/ \E f \in Functions : \E S \in SUBSET (Held \cup Upvals) : NewFunction(f, S, s)
         \/ \E f \in Functions, u \in Upvals : CaptureOpen(f, u, s)
         \/ \E f \in Functions, u \in Upvals, level \in LocalSlots : CaptureNew(f, u, level, s)
         \/ \E str \in Strings : NewString(str, s)
  PROVE  \E N, V : Gains(N, V)
<1>1. /\ TypeOK /\ TypeOK' /\ cur \in Threads \cap alive
      /\ color \in [Objects -> Whites \cup {"gray", "black"}] /\ fields \in [Objects -> SUBSET Objects]
      /\ uvloc \in [Upvals -> (Threads \X LocalSlots) \cup {Closed}]
  BY Basics DEF FullInv, ListsInv, TypeOK, HeapType, ProgramType
<1>2. \A o \in Tables \cup Udatas \cup Functions \cup Strings :
        o \in Objects /\ o \in FirstClass \ {NoObj} /\ o \notin Upvals \cup Threads
  BY KindsAssumption
<1>4. CASE \E t \in Tables : NewTable(t, s)
  <2> PICK t \in Tables : NewTable(t, s)
    BY <1>4
  <2>1. /\ alive' = alive \cup {t} /\ UNCHANGED <<meta, fields, entries, uvloc, uvval, running>> /\ Push(s, t)
        /\ color' = [color EXCEPT ![t] = currentwhite]
    BY DEF NewTable, Link
  <2>2. \A p \in Objects \ ({t} \cup {}) : fields'[p] = fields[p] /\ color'[p] = color[p]
    BY <1>1, <2>1
  <2>3. alive' \subseteq alive \cup {t} \cup {}
    BY <2>1
  <2>9. Finds(t, {}, s)
    BY <2>1, <2>2, <2>3 DEF Finds
  <2> QED BY <2>9, FindsGain
<1>5. CASE \E u \in Udatas, env \in Tables : NewUdata(u, env, s)
  <2> PICK u \in Udatas, env \in Tables : NewUdata(u, env, s)
    BY <1>5
  <2>1. /\ alive' = alive \cup {u} /\ UNCHANGED <<meta, entries, uvloc, uvval, running>> /\ Push(s, u)
        /\ color' = [color EXCEPT ![u] = currentwhite] /\ fields' = [fields EXCEPT ![u] = {env}]
    BY DEF NewUdata, Link
  <2>2. \A p \in Objects \ ({u} \cup {}) : fields'[p] = fields[p] /\ color'[p] = color[p]
    BY <1>1, <2>1
  <2>3. alive' \subseteq alive \cup {u} \cup {}
    BY <2>1
  <2>9. Finds(u, {}, s)
    BY <2>1, <2>2, <2>3 DEF Finds
  <2> QED BY <2>9, FindsGain
<1>6. CASE \E f \in Functions : \E S \in SUBSET (Held \cup Upvals) : NewFunction(f, S, s)
  <2> PICK f \in Functions, S \in SUBSET (Held \cup Upvals) : NewFunction(f, S, s)
    BY <1>6
  <2>1. /\ alive' = alive \cup {f} /\ UNCHANGED <<meta, entries, uvloc, uvval, running>> /\ Push(s, f)
        /\ color' = [color EXCEPT ![f] = currentwhite] /\ fields' = [fields EXCEPT ![f] = S]
    BY DEF NewFunction, Link
  <2>2. \A p \in Objects \ ({f} \cup {}) : fields'[p] = fields[p] /\ color'[p] = color[p]
    BY <1>1, <2>1
  <2>3. alive' \subseteq alive \cup {f} \cup {}
    BY <2>1
  <2>9. Finds(f, {}, s)
    BY <2>1, <2>2, <2>3 DEF Finds
  <2> QED BY <2>9, FindsGain
<1>7. CASE \E f \in Functions, u \in Upvals : CaptureOpen(f, u, s)
  <2> PICK f \in Functions, u \in Upvals : CaptureOpen(f, u, s)
    BY <1>7
  <2>1. /\ alive' = alive \cup {f} /\ UNCHANGED <<meta, entries, uvloc, uvval, running>> /\ Push(s, f)
        /\ color' = [color EXCEPT ![f] = currentwhite, ![u] = Resurrected(u)]
        /\ fields' = [fields EXCEPT ![f] = {u}]
    BY DEF CaptureOpen
  <2>2. \A p \in Objects \ ({f} \cup {u}) : fields'[p] = fields[p] /\ color'[p] = color[p]
    BY <1>1, <2>1
  <2>3. alive' \subseteq alive \cup {f} \cup {u} /\ {u} \subseteq fields'[f]
    BY <1>1, <1>2, <2>1
  <2>9. Finds(f, {u}, s)
    BY <2>1, <2>2, <2>3 DEF Finds
  <2> QED BY <2>9, FindsGain
<1>8. CASE \E f \in Functions, u \in Upvals, level \in LocalSlots : CaptureNew(f, u, level, s)
  <2> PICK f \in Functions, u \in Upvals, level \in LocalSlots : CaptureNew(f, u, level, s)
    BY <1>8
  <2>1. /\ alive' = alive \cup {f, u} /\ UNCHANGED <<meta, entries, uvval, running>> /\ Push(s, f)
        /\ color' = [color EXCEPT ![f] = currentwhite, ![u] = currentwhite]
        /\ fields' = [fields EXCEPT ![f] = {u}]
        /\ uvloc' = [uvloc EXCEPT ![u] = <<cur, level>>]
    BY DEF CaptureNew
  <2>2. \A p \in Objects \ ({f} \cup {u}) : fields'[p] = fields[p] /\ color'[p] = color[p]
    BY <1>1, <2>1
  <2>3. alive' \subseteq alive \cup {f} \cup {u} /\ {u} \subseteq fields'[f]
    BY <1>1, <1>2, <2>1
  <2>4. \A w \in Upvals \ {u} : uvloc'[w] = uvloc[w]
    BY <1>1, <2>1
  <2>9. Finds(f, {u}, s)
    BY <2>1, <2>2, <2>3, <2>4 DEF Finds
  <2> QED BY <2>9, FindsGain
<1>9. CASE \E str \in Strings : NewString(str, s)
  <2> PICK str \in Strings : NewString(str, s)
    BY <1>9
  <2>1. /\ alive' = alive \cup {str} /\ UNCHANGED <<meta, fields, entries, uvloc, uvval, running>> /\ Push(s, str)
        /\ color' = [color EXCEPT ![str] = IF str \in alive THEN Resurrected(str) ELSE currentwhite]
    BY DEF NewString
  <2>2. \A p \in Objects \ ({str} \cup {}) : fields'[p] = fields[p] /\ color'[p] = color[p]
    BY <1>1, <2>1
  <2>3. alive' \subseteq alive \cup {str} \cup {}
    BY <2>1
  <2>9. Finds(str, {}, s)
    BY <2>1, <2>2, <2>3 DEF Finds
  <2> QED BY <2>9, FindsGain
<1> QED BY <1>4, <1>5, <1>6, <1>7, <1>8, <1>9

LEMMA NewThreadGains ==
  ASSUME FullInv, FullInv', NEW s \in LocalSlots, NEW th \in Threads, NewThread(th, s)
  PROVE  Gains({th}, {th})
<1>1. /\ TypeOK /\ th \in Objects \ alive /\ th \in FirstClass \ {NoObj} /\ th \notin Upvals
      /\ cur \in Threads /\ cur \in alive /\ cur # th
      /\ s \in Slots /\ s # GlobalSlot /\ GlobalSlot \in Slots
  BY Basics, KindsAssumption DEF NewThread, Link, FullInv, ListsInv
<1>2. /\ \A t \in Threads \cap alive, z \in Slots :
           stack'[t][z] = IF t = cur /\ z = s THEN th ELSE stack[t][z]
      /\ \A t \in Threads \ (alive \cup {th}) : stack'[t] = stack[t]
  <2>1. /\ stack \in [Threads -> [Slots -> FirstClass]]
        /\ stack' = [stack EXCEPT ![cur] = [stack[cur] EXCEPT ![s] = th],
                                  ![th] = [stack[th] EXCEPT ![GlobalSlot] = stack[cur][GlobalSlot]]]
    BY <1>1 DEF NewThread, TypeOK, ProgramType
  <2> QED BY <1>1, <2>1
<1>3. /\ color' = [color EXCEPT ![th] = currentwhite]
      /\ alive' = alive \cup {th}
      /\ UNCHANGED <<meta, fields, entries, uvloc, uvval, running>>
  BY DEF NewThread, Link
<1>4. \A o \in Objects \ {th} : fields'[o] = fields[o] /\ color'[o] = color[o]
  BY <1>3 DEF FullInv, ListsInv, TypeOK, HeapType
<1>5. /\ {th} \in SUBSET Objects /\ \A o \in {th} : o = th \/ o \in fields'[th]
      /\ alive' \subseteq alive \cup {th} /\ \A u \in Upvals \ {th} : uvloc'[u] = uvloc[u]
  BY <1>1, <1>3
<1> QED BY <1>1, <1>2, <1>3, <1>4, <1>5, PushGains

(* A store of an object of W in p, that is no thread and no upvalue.         *)
LEMMA OneWritten ==
  ASSUME FullInv, FullInv', NEW p \in Tables \cup Udatas \cup Functions, NEW W \in SUBSET (Held \cup {NoObj}),
         UNCHANGED <<alive, running, stack, uvloc, uvval>>,
         \A o \in Objects \ {p} : meta'[o] = meta[o] /\ fields'[o] = fields[o] /\ entries'[o] = entries[o],
         meta'[p] \in {meta[p]} \cup W, fields'[p] \subseteq fields[p] \cup W,
         \A e \in entries'[p] \ entries[p] : e[1] \in W \cup Keys(p) /\ e[2] \in W,
         \A o \in alive : isdead(o) \/ (o \in garbage /\ iswhite(o)) => color'[o] = color[o]
  PROVE  Gains({}, W \ {NoObj})
<1>1. /\ p \in Objects /\ p \notin Threads \cup Upvals /\ cur' = cur /\ ReferredClosed'
  BY KindsAssumption, ReferredIsClosedPrime DEF cur, FullInv, ListsInv
<1>2. Held' = Held
  BY <1>1 DEF Held, StackOf, Range
<1>3. W \ {NoObj} \subseteq Referred'
  BY <1>1, <1>2 DEF ReferredClosed
<1>4. \A o \in Objects \ {p} : Refs(o)' = Refs(o)
  <2> TAKE o \in Objects \ {p}
  <2>1. UpvalValue(o)' = UpvalValue(o)
    BY DEF UpvalValue, IsOpen
  <2> QED BY <2>1, RefsKept
<1>5. Refs(p)' \subseteq Refs(p) \cup (W \ {NoObj})
  <2>1. OwnRefs(p)' \subseteq OwnRefs(p) \cup W
    BY <1>1 DEF OwnRefs
  <2>2. Keys(p)' \subseteq Keys(p) \cup W /\ Vals(p)' \subseteq Vals(p) \cup W
    BY DEF Keys, Vals
  <2> QED BY <2>1, <2>2 DEF Refs
<1> QED BY <1>3, <1>4, <1>5 DEF Gains

LEMMA StoresGain ==
  ASSUME FullInv, FullInv', GarbageInv,
         \/ \E t \in Tables, k \in (Held \cap AsKeys) \cup {NoObj} :
              \E v \in Held \cup {NoObj, Nil} : SetTable(t, k, v)
         \/ \E t \in Tables, m \in Values : SetTableMeta(t, m)
         \/ \E u \in Udatas, m \in Values : SetUdataMeta(u, m)
         \/ \E u \in Udatas, env \in Tables : SetUdataEnv(u, env)
         \/ \E f \in Functions, old, v \in Values : SetField(f, old, v)
  PROVE  \E N, V : Gains(N, V)
<1>1. /\ TypeOK /\ alive \subseteq Objects /\ otherwhite \in Whites /\ Tables \cup Udatas \cup Functions \subseteq Objects
      /\ color \in [Objects -> Whites \cup {"gray", "black"}]
      /\ meta \in [Objects -> Tables \cup {NoObj}] /\ fields \in [Objects -> SUBSET Objects]
      /\ entries \in [Objects -> SUBSET (FirstClass \X FirstClass)]
      /\ Held \subseteq Safe
  BY Basics, SafeFacts DEF TypeOK, HeapType
<1>2. \A t, S : luaC_barrierback(t, S) =>
        \A o \in alive : isdead(o) \/ (o \in garbage /\ iswhite(o)) => color'[o] = color[o]
  BY <1>1 DEF luaC_barrierback, isblack, iswhite, isdead
<1>3. CASE \E t \in Tables, k \in (Held \cap AsKeys) \cup {NoObj} :
             \E v \in Held \cup {NoObj, Nil} : SetTable(t, k, v)
  <2> PICK t \in Tables, k \in (Held \cap AsKeys) \cup {NoObj}, v \in Held \cup {NoObj, Nil} : SetTable(t, k, v)
    BY <1>3
  <2>1. /\ luaC_barrierback(t, ({k} \ Keys(t)) \cup ({v} \ {Nil}))
        /\ entries' = [entries EXCEPT ![t] = {e \in entries[t] : e[1] # k} \cup ({<<k, v>>} \ {<<k, Nil>>})]
        /\ UNCHANGED <<alive, meta, fields, stack, uvloc, uvval, running>>
    BY DEF SetTable
  <2>2. PICK W \in SUBSET (Held \cup {NoObj}) : W = {k} \cup ({v} \ {Nil})
    OBVIOUS
  <2>3. /\ entries'[t] = {e \in entries[t] : e[1] # k} \cup ({<<k, v>>} \ {<<k, Nil>>})
        /\ \A o \in Objects \ {t} : entries'[o] = entries[o]
    BY <1>1, <2>1
  <2>4. \A e \in entries'[t] \ entries[t] : e[1] \in W \cup Keys(t) /\ e[2] \in W
    <3>1. ASSUME NEW e \in entries'[t] \ entries[t] PROVE e = <<k, v>> /\ v # Nil
      BY ONLY <2>3, <3>1
    <3> QED BY ONLY <2>2, <3>1
  <2>5. \A o \in alive : isdead(o) \/ (o \in garbage /\ iswhite(o)) => color'[o] = color[o]
    BY <1>2, <2>1
  <2>6. \A o \in Objects \ {t} : meta'[o] = meta[o] /\ fields'[o] = fields[o] /\ entries'[o] = entries[o]
    BY <2>1, <2>3
  <2>7. meta'[t] \in {meta[t]} \cup W /\ fields'[t] \subseteq fields[t] \cup W
    BY <2>1
  <2>8. UNCHANGED <<alive, running, stack, uvloc, uvval>>
    BY <2>1
  <2> QED BY <2>4, <2>5, <2>6, <2>7, <2>8, OneWritten
<1>4. CASE \E t \in Tables, m \in Values : SetTableMeta(t, m)
  <2> PICK t \in Tables, m \in Values : SetTableMeta(t, m)
    BY <1>4
  <2>1. /\ luaC_barrierback(t, {m}) /\ meta' = [meta EXCEPT ![t] = m]
        /\ UNCHANGED <<alive, fields, entries, stack, uvloc, uvval, running>>
        /\ {m} \in SUBSET (Held \cup {NoObj})
    BY DEF SetTableMeta
  <2>2. meta'[t] \in {meta[t]} \cup {m} /\ \A o \in Objects \ {t} : meta'[o] = meta[o]
    BY <1>1, <2>1
  <2>3. \A o \in alive : isdead(o) \/ (o \in garbage /\ iswhite(o)) => color'[o] = color[o]
    BY <1>2, <2>1
  <2> QED BY <2>1, <2>2, <2>3, OneWritten
<1>5. CASE \E u \in Udatas, m \in Values : SetUdataMeta(u, m)
  <2> PICK u \in Udatas, m \in Values : SetUdataMeta(u, m)
    BY <1>5
  <2>1. /\ luaC_barrierf(u, m) /\ meta' = [meta EXCEPT ![u] = m]
        /\ UNCHANGED <<alive, fields, entries, stack, uvloc, uvval, running>>
        /\ {m} \in SUBSET (Held \cup {NoObj}) /\ m \in Safe \cup {NoObj}
    BY <1>1 DEF SetUdataMeta
  <2>2. meta'[u] \in {meta[u]} \cup {m} /\ \A o \in Objects \ {u} : meta'[o] = meta[o]
    BY <1>1, <2>1
  <2>3. \A o \in alive : isdead(o) \/ (o \in garbage /\ iswhite(o)) => color'[o] = color[o]
    BY <2>1, BarrierfSafe
  <2> QED BY <2>1, <2>2, <2>3, OneWritten
<1>6. CASE \E u \in Udatas, env \in Tables : SetUdataEnv(u, env)
  <2> PICK u \in Udatas, env \in Tables : SetUdataEnv(u, env)
    BY <1>6
  <2>1. /\ luaC_barrierf(u, env) /\ fields' = [fields EXCEPT ![u] = {env}]
        /\ UNCHANGED <<alive, meta, entries, stack, uvloc, uvval, running>>
        /\ {env} \in SUBSET (Held \cup {NoObj}) /\ env \in Safe \cup {NoObj}
    BY <1>1 DEF SetUdataEnv
  <2>2. fields'[u] \subseteq fields[u] \cup {env} /\ \A o \in Objects \ {u} : fields'[o] = fields[o]
    BY <1>1, <2>1
  <2>3. \A o \in alive : isdead(o) \/ (o \in garbage /\ iswhite(o)) => color'[o] = color[o]
    BY <2>1, BarrierfSafe
  <2> QED BY <2>1, <2>2, <2>3, OneWritten
<1>7. CASE \E f \in Functions, old, v \in Values : SetField(f, old, v)
  <2> PICK f \in Functions, old \in Values, v \in Values : SetField(f, old, v)
    BY <1>7
  <2>1. /\ luaC_barrierf(f, v) /\ fields' = [fields EXCEPT ![f] = (fields[f] \ {old}) \cup {v}]
        /\ UNCHANGED <<alive, meta, entries, stack, uvloc, uvval, running>>
        /\ {v} \in SUBSET (Held \cup {NoObj}) /\ v \in Safe \cup {NoObj}
    BY <1>1 DEF SetField
  <2>2. fields'[f] \subseteq fields[f] \cup {v} /\ \A o \in Objects \ {f} : fields'[o] = fields[o]
    BY <1>1, <2>1
  <2>3. \A o \in alive : isdead(o) \/ (o \in garbage /\ iswhite(o)) => color'[o] = color[o]
    BY <2>1, BarrierfSafe
  <2> QED BY <2>1, <2>2, <2>3, OneWritten
<1> QED BY <1>3, <1>4, <1>5, <1>6, <1>7

LEMMA SetUpvalGains ==
  ASSUME FullInv, FullInv', GarbageInv, NEW u \in Upvals, NEW v, SetUpval(u, v)
  PROVE  Gains({}, {v} \ {NoObj})
<1>1. /\ TypeOK /\ u \in Objects /\ v \in Held \cup {NoObj} /\ v \in FirstClass /\ v \in Safe \cup {NoObj}
      /\ luaC_barrierf(u, v) /\ u \in alive
      /\ UNCHANGED <<alive, meta, fields, entries, uvloc, gmt, running>>
  BY Basics, HeldUpvals, HeldType, SafeFacts, KindsAssumption DEF SetUpval
<1>2. \A o \in alive : isdead(o) \/ (o \in garbage /\ iswhite(o)) => color'[o] = color[o]
  BY <1>1, BarrierfSafe
<1>3. CASE IsOpen(u)
  <2>1. PICK th \in Threads \cap alive, sl \in Slots : th = uvloc[u][1] /\ sl = uvloc[u][2]
    BY <1>1, <1>3 DEF TypeOK, ProgramType, FullInv, Safety, OpenListed, IsOpen
  <2>2. stack' = [stack EXCEPT ![th][sl] = v] /\ UNCHANGED uvval
    BY <1>3, <2>1 DEF SetUpval
  <2>3. /\ \A t \in Threads, z \in Slots : stack'[t][z] = IF t = th /\ z = sl THEN v ELSE stack[t][z]
        /\ \A t \in Threads \ {th} : stack'[t] = stack[t]
    BY <1>1, <2>1, <2>2 DEF TypeOK, ProgramType
  <2>4. ASSUME NEW o \in Objects PROVE Refs(o)' \subseteq Refs(o) \cup ({v} \ {NoObj})
    <3>1. TypeOK' /\ OpenListed
      BY DEF FullInv, ListsInv, Safety
    <3> QED BY <1>1, <2>2, <2>3, <3>1, PushRefs
  <2>5. v \in Held' \cup {NoObj}
    BY <1>1, <2>1, <2>2, HeldStays
  <2>6. {v} \ {NoObj} \subseteq Referred'
    BY <2>5, ReferredIsClosedPrime DEF FullInv, ListsInv, ReferredClosed
  <2> QED BY <1>1, <1>2, <2>4, <2>6 DEF Gains
<1>4. CASE ~ IsOpen(u)
  <2>1. uvval' = [uvval EXCEPT ![u] = v] /\ UNCHANGED stack
    BY <1>4 DEF SetUpval
  <2>2. uvval'[u] = v /\ \A w \in Upvals \ {u} : uvval'[w] = uvval[w]
    BY <2>1, <1>1 DEF TypeOK, ProgramType
  <2>3. \A o \in Objects \ {u} : Refs(o)' = Refs(o)
    <3> TAKE o \in Objects \ {u}
    <3>1. o \in Upvals => UpvalValue(o)' = UpvalValue(o)
      BY <1>1, <2>1, <2>2 DEF UpvalValue, IsOpen
    <3> QED BY <1>1, <2>1, <3>1, RefsKept
  <2>4. Refs(u)' \subseteq Refs(u) \cup ({v} \ {NoObj})
    <3>1. Refs(u)' = {UpvalValue(u)'} \ {NoObj}
      BY <1>1, RefsKindsPrime DEF RefsByKind, FullInv, ListsInv
    <3>2. UpvalValue(u)' = v
      BY <1>1, <1>4, <2>2 DEF UpvalValue, IsOpen
    <3> QED BY <3>1, <3>2
  <2>5. Held' = Held
    BY <1>1, <2>1 DEF Held, StackOf, Range, cur
  <2>6. {v} \ {NoObj} \subseteq Referred'
    BY <1>1, <2>5, ReferredIsClosedPrime DEF FullInv, ListsInv, ReferredClosed
  <2> QED BY <1>1, <1>2, <2>3, <2>4, <2>6 DEF Gains
<1> QED BY <1>3, <1>4

LEMMA ControlGains ==
  ASSUME FullInv, FullInv', (\E th \in Threads : Resume(th)) \/ Yield \/ \E m \in Values : SetBasicMeta(m)
  PROVE  \E N, V : Gains(N, V)
<1>1. /\ TypeOK /\ TypeOK' /\ RefsByKind /\ RefsByKind' /\ ReferredClosed'
      /\ running \in Seq(Threads) /\ Len(running) \in Nat \ {0}
  BY Basics, CurType, RefsKindsPrime, ReferredIsClosedPrime DEF FullInv, ListsInv, TypeOK, ProgramType
<1>2. UNCHANGED <<alive, meta, fields, entries, uvloc, uvval, color, stack>>
  BY DEF Resume, Yield, SetBasicMeta, heapVars
<1>3. ASSUME NEW W \in SUBSET Referred', \A o \in Threads : Resumed(o)' \subseteq Resumed(o) \cup W
      PROVE  Gains({}, W)
  <2>1. ASSUME NEW o \in Objects PROVE Refs(o)' \subseteq Refs(o) \cup W
    <3>1. UpvalValue(o)' = UpvalValue(o) /\ Keys(o)' = Keys(o) /\ Vals(o)' = Vals(o)
      BY <1>2 DEF UpvalValue, IsOpen, Keys, Vals
    <3>2. OwnRefs(o)' \subseteq OwnRefs(o) \cup W
      BY <1>2, <1>3, <3>1 DEF OwnRefs, Range
    <3> QED BY <3>1, <3>2 DEF Refs
  <2> QED BY <1>2, <2>1 DEF Gains
<1>4. CASE \E th \in Threads : Resume(th)
  <2> PICK th \in Threads : Resume(th)
    BY <1>4
  <2>1. running' = Append(running, th)
    BY DEF Resume
  <2>2. /\ Len(running') = Len(running) + 1 /\ running'[Len(running) + 1] = th
        /\ \A i \in 1..Len(running) : running'[i] = running[i]
        /\ DOMAIN running' = 1..(Len(running) + 1)
    BY <1>1, <2>1
  <2>3. th \in Range(running)' /\ {th} \in SUBSET Referred'
    <3>1. th \in Range(running)'
      BY <1>1, <2>2 DEF Range
    <3> QED BY <1>1, <3>1 DEF ReferredClosed, ReferredRoots, ProgramRoots
  <2>4. \A o \in Threads : Resumed(o)' \subseteq Resumed(o) \cup {th}
    BY <1>1, <2>2 DEF Resumed
  <2>5. Gains({}, {th})
    BY <1>3, <2>3, <2>4
  <2> QED BY <2>5
<1>5. CASE Yield
  <2>1. running' = SubSeq(running, 1, Len(running) - 1) /\ Len(running) > 1
    BY <1>5 DEF Yield
  <2>2. /\ Len(running') = Len(running) - 1
        /\ \A i \in 1..(Len(running) - 1) : running'[i] = running[i]
    BY <1>1, <2>1
  <2>3. \A o \in Threads : Resumed(o)' \subseteq Resumed(o) \cup {}
    BY <1>1, <2>2 DEF Resumed
  <2>4. Gains({}, {})
    BY <1>3, <2>3
  <2> QED BY <2>4
<1>6. CASE \E m \in Values : SetBasicMeta(m)
  <2>1. UNCHANGED running
    BY <1>6 DEF SetBasicMeta
  <2>2. \A o \in Threads : Resumed(o)' \subseteq Resumed(o) \cup {}
    BY <2>1 DEF Resumed
  <2>3. Gains({}, {})
    BY <1>3, <2>2
  <2> QED BY <2>3
<1> QED BY <1>4, <1>5, <1>6

(* The value of an upvalue that is closed was that of its slot; it is only   *)
(* marked when the upvalue was.                                            *)
LEMMA CloseUpvalsGains ==
  ASSUME FullInv, FullInv', GarbageInv, NEW S \in SUBSET OpenUpvals, CloseUpvals(S)
  PROVE  Gains({}, {})
<1> DEFINE kept == {u \in S : ~ isdead(u)}
           F == S \ kept
           B == IF gcstate = "propagate" THEN {u \in kept : color[u] = "gray"} ELSE {}
           held == {UpvalValue(u) : u \in B}
           M == Marked(held)
<1>1. /\ TypeOK /\ RefsByKind /\ RefsByKind' /\ alive \subseteq Objects /\ otherwhite \in Whites
      /\ OpenListed
      /\ color \in [Objects -> Whites \cup {"gray", "black"}]
  BY Basics, RefsKindsPrime DEF FullInv, ListsInv, Safety, TypeOK, HeapType
<1>2. /\ luaF_close(S) /\ \A u \in S : u \in Upvals \cap alive /\ IsOpen(u)
      /\ UNCHANGED <<meta, fields, entries, stack, running>>
  BY DEF CloseUpvals, OpenUpvals
<1>3. /\ alive' = alive \ F
      /\ uvloc' = [u \in Upvals |-> IF u \in S THEN Closed ELSE uvloc[u]]
      /\ uvval' = [u \in Upvals |-> IF u \in kept THEN UpvalValue(u) ELSE uvval[u]]
      /\ color' = [o \in Objects |->
                     IF o \in F THEN "white0"
                     ELSE IF o \in B THEN "black"
                     ELSE IF o \in kept /\ color[o] = "gray" THEN currentwhite
                     ELSE IF o \in M THEN ColorOnceMarked(o) ELSE color[o]]
  BY <1>2 DEF luaF_close
<1>4. held \subseteq Safe \cup {NoObj}
  <2>1. ASSUME NEW u \in B PROVE UpvalValue(u) \in Safe \cup {NoObj}
    <3>1. u \in Upvals \cap alive /\ color[u] = "gray" /\ gcstate = "propagate" /\ ~ isdead(u)
      BY <1>2
    <3>2. u \in Safe
      BY <3>1 DEF Safe, Live, GarbageInv, GarbageWhite, MarkPhase, iswhite
    <3>3. Refs(u) = {UpvalValue(u)} \ {NoObj}
      BY <1>1, <3>1 DEF RefsByKind
    <3> QED BY <3>2, <3>3, SafeFacts
  <2> QED BY <2>1
<1>5. M \subseteq Safe
  <2> HIDE DEF held
  <2> QED BY <1>4, SafeFacts
<1>6. /\ kept \subseteq S /\ B \subseteq kept /\ \A u \in B : color[u] = "gray"
      /\ \A u \in kept : ~ isdead(u)
  OBVIOUS
<1> HIDE DEF kept, B, M, held
<1>7. \A o \in alive \cap alive' : isdead(o) \/ (o \in garbage /\ iswhite(o)) => color'[o] = color[o]
  <2> SUFFICES ASSUME NEW o \in alive \cap alive', isdead(o) \/ (o \in garbage /\ iswhite(o))
               PROVE  color'[o] = color[o]
    OBVIOUS
  <2>1. iswhite(o) /\ color[o] \in Whites /\ o \in Objects /\ o \notin F
    BY <1>1, <1>3 DEF isdead, iswhite
  <2>2. o \notin M
    BY <1>5 DEF Safe, Live
  <2>3. o \notin B /\ color[o] # "gray"
    BY <1>6, <2>1
  <2> QED BY <1>3, <2>1, <2>2, <2>3
<1>8. ASSUME NEW o \in Objects PROVE Refs(o)' \subseteq Refs(o)
  <2>1. CASE o \in S /\ o \notin kept
    <3>1. o \in Upvals /\ uvval[o] = NoObj
      BY <1>1, <1>2, <2>1 DEF OpenListed
    <3>2. UpvalValue(o)' = NoObj
      BY <1>3, <2>1, <3>1 DEF UpvalValue, IsOpen
    <3>3. Refs(o)' = {UpvalValue(o)'} \ {NoObj}
      BY <1>1, <3>1 DEF RefsByKind
    <3> QED BY <3>2, <3>3
  <2>2. CASE o \in kept \/ o \notin S
    <3>1. ASSUME o \in Upvals PROVE UpvalValue(o)' = UpvalValue(o)
      <4>1. CASE o \in kept
        BY <1>3, <1>6, <3>1, <4>1 DEF UpvalValue, IsOpen
      <4>2. CASE o \notin S
        BY <1>2, <1>3, <1>6, <3>1, <4>2 DEF UpvalValue, IsOpen
      <4> QED BY <2>2, <4>1, <4>2
    <3> QED BY <1>2, <3>1, RefsKept
  <2> QED BY <2>1, <2>2
<1> QED BY <1>3, <1>7, <1>8 DEF Gains

LEMMA MutatorGains ==
  ASSUME FullInv, FullInv', GarbageInv, Mutator
  PROVE  \E N, V : Gains(N, V)
<1>1. CASE \E s \in LocalSlots :
             \/ \E v \in Held \cup {NoObj, cur} : Move(s, v)
             \/ \E o, v \in Objects : Load(o, v, s)
             \/ LoadBasicMetatable(s)
             \/ \E th \in Threads, v \in Held : StoreInThread(th, s, v)
  BY <1>1, StackOpsGain
<1>2. CASE \E th \in Threads, t \in Tables : SetGlobals(th, t)
  <2> PICK th \in Threads, t \in Tables : SetGlobals(th, t)
    BY <1>2
  <2>1. /\ th \in Threads \cap alive /\ t \in FirstClass /\ t \in Held /\ GlobalSlot \in Slots
        /\ stack' = [stack EXCEPT ![th][GlobalSlot] = t]
        /\ UNCHANGED <<heapVars, color, running>>
    BY Basics, KindsAssumption DEF SetGlobals
  <2>2. Gains({}, {t} \ {NoObj})
    BY <2>1, StackGains
  <2> QED BY <2>2
<1>3. CASE \E s \in LocalSlots :
             \/ \E t \in Tables : NewTable(t, s)
             \/ \E u \in Udatas, env \in Tables : NewUdata(u, env, s)
             \/ \E f \in Functions : \E S \in SUBSET (Held \cup Upvals) : NewFunction(f, S, s)
             \/ \E f \in Functions, u \in Upvals : CaptureOpen(f, u, s)
             \/ \E f \in Functions, u \in Upvals, level \in LocalSlots : CaptureNew(f, u, level, s)
             \/ \E th \in Threads : NewThread(th, s)
             \/ \E str \in Strings : NewString(str, s)
  BY <1>3, MakesGain, NewThreadGains
<1>4. CASE \/ \E t \in Tables, k \in (Held \cap AsKeys) \cup {NoObj} :
                \E v \in Held \cup {NoObj, Nil} : SetTable(t, k, v)
           \/ \E t \in Tables, m \in Values : SetTableMeta(t, m)
           \/ \E u \in Udatas, m \in Values : SetUdataMeta(u, m)
           \/ \E u \in Udatas, env \in Tables : SetUdataEnv(u, env)
           \/ \E f \in Functions, old, v \in Values : SetField(f, old, v)
  BY <1>4, StoresGain
<1>5. CASE \E u \in Upvals, v \in Values : SetUpval(u, v)
  BY <1>5, SetUpvalGains
<1>6. CASE (\E th \in Threads : Resume(th)) \/ Yield \/ \E m \in Values : SetBasicMeta(m)
  BY <1>6, ControlGains
<1>7. CASE \E S \in SUBSET OpenUpvals : CloseUpvals(S)
  BY <1>7, CloseUpvalsGains
<1> QED BY <1>1, <1>2, <1>3, <1>4, <1>5, <1>6, <1>7 DEF Mutator

(***************************************************************************)
(* The steps of the collector.                                             *)
(***************************************************************************)

(* markroot: what nothing refers to, but for strings, has the current white *)
(* since the sweep, and is not marked.                                     *)
LEMMA MarkRootGarbage ==
  ASSUME FullInv, FullInv', MarkRoot, garbage' = alive' \ (Referred' \cup Strings)
  PROVE  GarbageInv'
<1>1. /\ gcstate \in {"pause", "finalize"} /\ gcstate' = "propagate"
      /\ MarkFrom({MainThread, stack[MainThread][GlobalSlot], Registry, gmt}, {})
      /\ UNCHANGED <<alive, meta, fields, entries, uvloc, uvval, gmt, stack, running, tmudata, currentwhite>>
  BY DEF MarkRoot, heapVars, udVars
<1>2. /\ TypeOK /\ RefsByKind /\ RefsByKind' /\ ReferredClosed' /\ alive \subseteq Objects /\ Live' \subseteq alive'
      /\ currentwhite \in Whites /\ MainThread \in Threads
      /\ color \in [Objects -> Whites \cup {"gray", "black"}]
  BY Basics, RefsKindsPrime, ReferredIsClosedPrime, KindsAssumption DEF FullInv, ListsInv, TypeOK, HeapType, Live
<1>3. \A o \in Objects : Refs(o)' = Refs(o)
  BY <1>1, RefsAllSame
<1>4. {MainThread, stack[MainThread][GlobalSlot], Registry, gmt} \subseteq Referred' \cup {NoObj}
  <2>1. {MainThread, Registry} \cup ({gmt} \ {NoObj}) \subseteq Referred'
    BY <1>1, <1>2 DEF ReferredClosed, ReferredRoots, ProgramRoots
  <2>2. stack[MainThread][GlobalSlot] \in Range(stack[MainThread])
    BY <1>2, KindsAssumption DEF Range, TypeOK, ProgramType
  <2>3. stack[MainThread][GlobalSlot] # NoObj => stack[MainThread][GlobalSlot] \in Refs(MainThread)
    BY <1>2, <2>2 DEF RefsByKind
  <2>4. MainThread \in Objects
    BY <1>2
  <2> QED BY <1>2, <1>3, <2>1, <2>3, <2>4 DEF ReferredClosed
<1>5. Marked({MainThread, stack[MainThread][GlobalSlot], Registry, gmt}) \subseteq Referred'
  <2>1. PICK X \in SUBSET Objects : X = Referred'
    BY <1>2 DEF ReferredClosed
  <2>2. \A o \in X : Refs(o) \subseteq X
    BY <1>2, <1>3, <2>1 DEF ReferredClosed
  <2> QED BY <1>2, <1>4, <2>1, <2>2, MarkedWithin
<1>6. ASSUME NEW o \in garbage' \cap alive' PROVE iswhite(o)'
  <2>1. o \in alive /\ o \in Objects /\ o \notin Referred'
    BY <1>1, <1>2
  <2>2. o \notin Range(tmudata)
    BY <1>1, <1>2, <2>1 DEF ReferredClosed, ReferredRoots, Range
  <2>3. color[o] = currentwhite
    BY <1>1, <2>1, <2>2 DEF FullInv, Safety, SweepComplete, StillToSweep, MarkPhase
  <2>4. color'[o] = color[o]
    BY <1>1, <1>5, <2>1 DEF MarkFrom, Recolor
  <2> QED BY <1>2, <2>3, <2>4 DEF iswhite
<1>7. ASSUME NEW o \in Live' \ garbage' PROVE Refs(o)' \cap garbage' = {}
  <2>1. CASE o \in Strings
    BY <1>2, <2>1 DEF RefsByKind
  <2>2. CASE o \in Referred'
    BY <1>2, <2>2 DEF ReferredClosed
  <2> QED BY <1>2, <2>1, <2>2
<1>8. garbage' \subseteq Objects \ Strings /\ garbage' \cap Referred' = {}
  BY <1>1, <1>2
<1> QED BY <1>1, <1>6, <1>7, <1>8
     DEF GarbageInv, GarbageLost, GarbageApart, GarbageWhite, GarbageDead, MarkPhase

(* No garbage is marked.                                                   *)
LEMMA MarkingKeepsGarbage ==
  ASSUME FullInv, FullInv', GarbageInv,
         \/ \E o \in Objects : PropagateMark(o)
         \/ RemarkUpvals \/ RemarkWeak \/ RemarkAgain \/ MarkTmu
  PROVE  \A o \in garbage \cap alive : color'[o] = color[o]
<1>1. /\ TypeOK /\ RefsByKind /\ alive \subseteq Objects /\ gcstate \in MarkPhase /\ Live = alive
      /\ gray \subseteq {o \in alive : color[o] = "gray"}
      /\ \A o \in alive : iswhite(o) \/ o \notin garbage
  <2>1. gcstate \in MarkPhase
    BY DEF PropagateMark, RemarkUpvals, RemarkWeak, RemarkAgain, MarkTmu, AtomicStage, MarkPhase
  <2> QED BY <2>1, MarkPhaseFacts DEF GarbageInv, GarbageWhite
<1>2. /\ Safe \in SUBSET Objects /\ \A o \in Safe : Refs(o) \subseteq Safe
      /\ cur \in Safe /\ Range(tmudata) \subseteq Safe /\ (gmt # NoObj => gmt \in Safe)
      /\ \A S \in SUBSET (Safe \cup {NoObj}) : Marked(S) \subseteq Safe
      /\ \A o \in alive : ~ iswhite(o) => o \in Safe
  BY <1>1, SafeFacts DEF Safe
<1>3. CASE \E o \in Objects : PropagateMark(o)
  <2> PICK o \in Objects : PropagateMark(o)
    BY <1>3
  <2>1. /\ o \in gray
        /\ \A p \in Objects : \/ p \in Marked(StrongRefs(o)) \/ color'[p] = color[p] \/ p = o
    BY DEF PropagateMark
  <2>2. o \in Safe
    BY <1>1, <1>2, <2>1 DEF iswhite
  <2>3. StrongRefs(o) \subseteq Safe
    BY <1>1, <1>2, <2>2 DEF RefsByKind
  <2>4. Marked(StrongRefs(o)) \subseteq Safe
    BY <1>2, <2>3
  <2> QED BY <1>1, <2>1, <2>2, <2>4 DEF Safe
<1>4. CASE RemarkUpvals
  <2> DEFINE S == {UpvalValue(u) : u \in {w \in OpenUpvals : color[w] = "gray"}}
  <2>1. MarkFrom(S, {})
    BY <1>4 DEF RemarkUpvals
  <2>2. ASSUME NEW u \in OpenUpvals, color[u] = "gray" PROVE UpvalValue(u) \in Safe \cup {NoObj}
    <3>1. u \in Upvals /\ u \in Safe
      BY <1>2, <2>2 DEF OpenUpvals, iswhite
    <3>2. Refs(u) = {UpvalValue(u)} \ {NoObj}
      BY <1>1, <3>1 DEF RefsByKind
    <3> QED BY <1>2, <3>1, <3>2
  <2>3. S \in SUBSET (Safe \cup {NoObj})
    BY <2>2
  <2> HIDE DEF S
  <2> QED BY <2>1, <2>3, RecolorSafe
<1>5. CASE RemarkWeak
  <2>1. MarkFrom({cur, gmt}, weak) /\ {cur, gmt} \in SUBSET (Safe \cup {NoObj})
    BY <1>2, <1>5 DEF RemarkWeak
  <2> QED BY <2>1, RecolorSafe
<1>6. CASE RemarkAgain
  BY <1>6 DEF RemarkAgain
<1>7. CASE MarkTmu
  <2> DEFINE B == Range(tmudata')
             M == {o \in UNION {OwnRefs(u) : u \in B} : o # NoObj /\ iswhite(o)}
  <2>1. /\ luaC_separateudata(FALSE)
        /\ color' = [o \in Objects |-> IF o \in B THEN "black" ELSE IF o \in M THEN "gray" ELSE color[o]]
    BY <1>7 DEF MarkTmu
  <2>2. Range(tmudata') = Range(tmudata) \cup {u \in NotFinalized(FALSE) : HasFinalizer(u)}
    BY <1>1, <2>1, SeparateType
  <2>3. ASSUME NEW u \in NotFinalized(FALSE), HasFinalizer(u) PROVE u \in Safe
    <3>1. u \in ReferredRoots /\ u \in Range(udlist)
      BY <2>3 DEF NotFinalized, ReferredRoots
    <3>2. u \in alive /\ u \in Referred
      BY <1>1, <3>1, ReferredIsClosed DEF ReferredClosed, FullInv, ListsInv, UdataLists
    <3> QED BY <1>1, <3>2 DEF Safe, GarbageInv, GarbageLost
  <2>4. B \subseteq Safe
    BY <1>2, <2>2, <2>3
  <2>5. ASSUME NEW u \in B, NEW o \in OwnRefs(u), o # NoObj PROVE o \in Safe
    <3>1. o \in Refs(u)
      BY <2>5 DEF Refs
    <3> QED BY <1>2, <2>4, <3>1
  <2>6. M \subseteq Safe
    BY <2>5
  <2> HIDE DEF M, B
  <2> QED BY <1>1, <2>1, <2>4, <2>6 DEF Safe
<1> QED BY <1>3, <1>4, <1>5, <1>6, <1>7

LEMMA MarkingGarbage ==
  ASSUME FullInv, FullInv', GarbageInv, Remembers,
         \/ \E o \in Objects : PropagateMark(o)
         \/ RemarkUpvals \/ RemarkWeak \/ RemarkAgain \/ MarkTmu
  PROVE  GarbageInv'
<1>1. /\ gcstate \in MarkPhase /\ gcstate' \in MarkPhase
      /\ UNCHANGED <<alive, meta, fields, entries, uvloc, uvval, stack, running>>
  BY DEF PropagateMark, RemarkUpvals, RemarkWeak, RemarkAgain, MarkTmu, AtomicStage, MarkPhase, heapVars, ctlVars
<1>2. \A o \in garbage \cap alive : color'[o] = color[o]
  BY MarkingKeepsGarbage
<1>3. GarbageWhite'
  BY <1>1, <1>2 DEF GarbageInv, GarbageWhite, Remembers, iswhite
<1>4. GarbageDead'
  BY <1>1 DEF GarbageDead
<1>5. Live' \subseteq Live /\ \A o \in Live' : o \in Objects
  BY <1>1, MarkPhaseFacts DEF Live
<1>6. \A o \in Objects : Refs(o)' = Refs(o)
  BY <1>1, RefsAllSame
<1> QED BY <1>3, <1>4, <1>5, <1>6, GarbageStep

(* The white is flipped: the garbage is dead.                              *)
LEMMA FlipGarbage ==
  ASSUME FullInv, FullInv', GarbageInv, Remembers, NEW inarray, ClearAndFlip(inarray)
  PROVE  GarbageInv'
<1>1. /\ gcstate = "marktmu" /\ gcstate \in MarkPhase /\ gcstate' \notin MarkPhase
      /\ entries' = [o \in Objects |-> IF o \in weak THEN entries[o] \ ClearedOf(inarray, o) ELSE entries[o]]
      /\ color' = [o \in Objects |-> IF o \in StringsOfWeak THEN "gray" ELSE color[o]]
      /\ currentwhite' = otherwhite
      /\ UNCHANGED <<alive, meta, fields, uvloc, uvval, stack, running>>
  BY DEF ClearAndFlip, ClearedOf, StringsOfWeak, MarkPhase
<1>2. /\ TypeOK /\ Live = alive /\ alive \subseteq Objects
      /\ currentwhite \in Whites /\ otherwhite \in Whites /\ currentwhite # otherwhite
  BY <1>1, MarkPhaseFacts, Basics
<1>3. otherwhite' = currentwhite /\ Whites \subseteq {currentwhite, otherwhite}
  BY <1>1, <1>2 DEF otherwhite
<1>4. GarbageDead'
  <2> SUFFICES ASSUME NEW o \in garbage' \cap alive' PROVE isdead(o)'
    BY DEF GarbageDead
  <2>1. o \in garbage /\ o \in alive /\ o \notin Strings /\ o \in Objects
    BY <1>1 DEF Remembers, GarbageInv, GarbageLost
  <2>2. color[o] \in Whites /\ color[o] # otherwhite
    BY <1>1, <1>2, <2>1 DEF GarbageInv, GarbageWhite, iswhite, Live, isdead
  <2>3. color'[o] = color[o]
    BY <1>1, <2>1 DEF StringsOfWeak
  <2> QED BY <1>3, <2>2, <2>3 DEF isdead
<1>5. GarbageWhite'
  BY <1>1 DEF GarbageWhite
<1>6. ASSUME NEW o \in Live' PROVE o \in Live /\ Refs(o)' \subseteq Refs(o)
  <2>1. o \in alive /\ o \in Objects
    BY <1>1, <1>2, <1>6 DEF Live
  <2>2. UpvalValue(o)' = UpvalValue(o)
    BY <1>1 DEF UpvalValue, IsOpen
  <2>3. Keys(o)' \subseteq Keys(o) /\ Vals(o)' \subseteq Vals(o)
    BY <1>1, <2>1 DEF Keys, Vals
  <2>4. OwnRefs(o)' = OwnRefs(o)
    BY <1>1, <2>2 DEF OwnRefs, Resumed, Range
  <2> QED BY <1>2, <2>1, <2>3, <2>4 DEF Refs
<1> QED BY <1>4, <1>5, <1>6, GarbageStep

(* What is dead is freed when its turn comes, and nothing else.             *)
LEMMA SweepGarbage ==
  ASSUME FullInv, FullInv', GarbageInv, Remembers, SweepString \/ \E o \in Objects : Sweep(o)
  PROVE  GarbageInv'
<1>1. PICK B \in SUBSET alive : SweepList(B)
  <2>1. CASE SweepString
    BY <2>1 DEF SweepString
  <2>2. CASE \E o \in Objects : Sweep(o)
    <3>1. PICK o \in Objects : Sweep(o)
      BY <2>2
    <3>2. PICK B : B = {o} \cup UpvalsOf({o})
      OBVIOUS
    <3>3. B \in SUBSET alive /\ SweepList(B)
      BY <3>1, <3>2 DEF Sweep, FullInv, ListsInv, UnsweptListed, UpvalsOf, OpenUpvals
    <3> QED BY <3>3
  <2> QED BY <2>1, <2>2
<1>2. /\ gcstate \in SweepStates /\ gcstate' \notin MarkPhase /\ gcstate \notin MarkPhase
      /\ UNCHANGED currentwhite /\ (fullgc' # "sweeping" => fullgc # "sweeping")
  BY DEF SweepString, Sweep, MarkPhase
<1>3. /\ alive' = alive \ {o \in B : isdead(o)}
      /\ color' = [o \in Objects |-> IF o \notin B THEN color[o]
                                     ELSE IF isdead(o) THEN "white0" ELSE currentwhite]
      /\ UNCHANGED running
  BY <1>1 DEF SweepList, Free
<1>4. /\ alive \subseteq Objects /\ otherwhite' = otherwhite /\ TypeOK'
  BY <1>2 DEF FullInv, ListsInv, TypeOK, HeapType, otherwhite
<1>5. \A p \in Live : Whole(p)
  BY <1>1, <1>2, <1>4, SweepListStep
<1>6. \A o \in alive' : isdead(o) => o \notin B /\ isdead(o)'
  BY <1>3, <1>4 DEF isdead
<1>7. GarbageDead'
  BY <1>2, <1>3, <1>6 DEF GarbageInv, GarbageDead, Remembers
<1>8. GarbageWhite'
  BY <1>2 DEF GarbageWhite
<1>9. ASSUME NEW o \in Live' PROVE o \in Live /\ Refs(o)' \subseteq Refs(o)
  <2>1. o \in Live /\ o \in Objects
    BY <1>3, <1>4, <1>6, <1>9 DEF Live
  <2>2. Refs(o)' = Refs(o)
    BY <1>3, <1>5, <2>1, RefsKept DEF Whole
  <2> QED BY <2>1, <2>2
<1> QED BY <1>7, <1>8, <1>9, GarbageStep

(* A finalizer is called with its userdata, that it may store anywhere.      *)
LEMMA GCTMGarbage ==
  ASSUME FullInv, FullInv', GarbageInv, Remembers, NEW s \in LocalSlots, GCTM(s)
  PROVE  GarbageInv'
<1>1. /\ tmudata # <<>> /\ color' = [color EXCEPT ![Head(tmudata)] = currentwhite]
      /\ OnTop(s, Head(tmudata)) \/ UNCHANGED stack
      /\ UNCHANGED <<heapVars, running>> /\ UNCHANGED ctlVars
  BY DEF GCTM
<1>2. PICK u : u = Head(tmudata)
  OBVIOUS
<1>3. /\ u \in Safe /\ u \in Udatas /\ u \in FirstClass /\ cur \in Threads \cap alive /\ TypeOK /\ alive \subseteq Objects
      /\ s \in Slots
  <2>1. tmudata \in Seq(Udatas)
    BY Basics DEF TypeOK, CollectorType
  <2>2. u \in Udatas /\ u \in Range(tmudata)
    BY <1>1, <1>2, <2>1 DEF Range
  <2> QED BY <2>2, SafeFacts, Basics, KindsAssumption DEF TypeOK, HeapType
<1>4. \A o \in alive : isdead(o) \/ (o \in garbage /\ iswhite(o)) => color'[o] = color[o]
  BY <1>1, <1>2, <1>3 DEF Safe, Live, FullInv, ListsInv, TypeOK, HeapType
<1>5. CASE OnTop(s, u)
  <2>1. /\ TypeOK' /\ OpenListed /\ ReferredClosed' /\ stack' = [stack EXCEPT ![cur][s] = u]
        /\ UNCHANGED <<alive, meta, fields, entries, uvloc, uvval, running>>
    BY <1>1, <1>5, ReferredIsClosedPrime DEF FullInv, ListsInv, Safety, heapVars, OnTop, Push
  <2>2. {u} \ {NoObj} \subseteq Referred'
    BY <1>3, <2>1, HeldStays DEF ReferredClosed
  <2>3. \A o \in Objects : Refs(o)' \subseteq Refs(o) \cup ({u} \ {NoObj})
    <3>1. /\ \A t \in Threads, z \in Slots : stack'[t][z] = IF t = cur /\ z = s THEN u ELSE stack[t][z]
          /\ \A t \in Threads \ {cur} : stack'[t] = stack[t]
      BY <1>3, <1>5, PushFacts DEF OnTop
    <3> QED BY <1>3, <2>1, <3>1, PushRefs
  <2>4. Gains({}, {u} \ {NoObj})
    BY <1>4, <2>1, <2>2, <2>3 DEF Gains
  <2> QED BY <1>1, <2>4, GainsStep
<1>6. CASE UNCHANGED stack
  <2>1. UNCHANGED <<alive, meta, fields, entries, uvloc, uvval, stack, running>>
    BY <1>1, <1>6 DEF heapVars
  <2>2. \A o \in Objects : Refs(o)' = Refs(o)
    BY <2>1, RefsAllSame
  <2>3. Gains({}, {})
    BY <1>4, <2>1, <2>2 DEF Gains
  <2> QED BY <1>1, <2>3, GainsStep
<1> QED BY <1>1, <1>2, <1>5, <1>6

LEMMA QuietGarbage ==
  ASSUME FullInv, FullInv', GarbageInv, Remembers, EndCycle \/ FullGC \/ UNCHANGED vars
  PROVE  GarbageInv'
<1>1. /\ UNCHANGED <<alive, meta, fields, entries, uvloc, uvval, stack, running, color, currentwhite>>
      /\ gcstate' \in MarkPhase => gcstate \in MarkPhase
      /\ gcstate' \notin MarkPhase /\ fullgc' # "sweeping" => gcstate \notin MarkPhase /\ fullgc # "sweeping"
  BY DEF EndCycle, FullGC, vars, heapVars, ctlVars, MarkPhase
<1>2. otherwhite' = otherwhite
  BY <1>1 DEF otherwhite
<1>3. GarbageWhite' /\ GarbageDead'
  BY <1>1, <1>2 DEF GarbageInv, GarbageWhite, GarbageDead, Remembers, iswhite, isdead
<1>4. Live' = Live /\ Live \subseteq Objects
  BY <1>1, <1>2, Basics DEF Live, isdead
<1>5. \A o \in Objects : Refs(o)' = Refs(o)
  BY <1>1, RefsAllSame
<1> QED BY <1>3, <1>4, <1>5, GarbageStep

(* The whole step: a cycle that begins, or one that goes on.                *)
LEMMA NextGarbage ==
  ASSUME FullInv, FullInv', GarbageInv, Next /\ Record
  PROVE  GarbageInv'
<1>1. CASE gcstate' = "propagate" /\ gcstate # "propagate"
  <2>1. MarkRoot
    <3>1. Mutator => gcstate' = gcstate
      BY MutatorControl DEF ctlVars
    <3> QED BY <1>1, <3>1 DEF Next, Collector, PropagateMark, RemarkUpvals, RemarkWeak, RemarkAgain, MarkTmu,
            AtomicStage, ClearAndFlip, SweepString, Sweep, GCTM, EndCycle, FullGC, ctlVars
  <2>2. garbage' = alive' \ (Referred' \cup Strings)
    BY <1>1 DEF Record
  <2> QED BY <2>1, <2>2, MarkRootGarbage
<1>2. CASE ~ (gcstate' = "propagate" /\ gcstate # "propagate")
  <2>1. Remembers
    BY <1>2 DEF Record, Remembers
  <2>2. CASE Mutator
    <3>1. UNCHANGED ctlVars
      BY <2>2, MutatorControl
    <3>2. PICK N, V : Gains(N, V)
      BY <2>2, MutatorGains
    <3> QED BY <2>1, <3>1, <3>2, GainsStep
  <2>3. ~ MarkRoot
    BY <1>2 DEF MarkRoot
  <2> QED BY <2>1, <2>2, <2>3, MarkingGarbage, FlipGarbage, SweepGarbage, GCTMGarbage, QuietGarbage
       DEF Next, Collector
<1> QED BY <1>1, <1>2

(* What nothing referred to when a cycle began is freed when its sweep ends: *)
(* one cycle is enough, whatever the program stores, captures, resumes or  *)
(* closes and the finalizers do meanwhile.                                 *)
THEOREM OneCycleIsEnough == HSpec => []OneCycleEnough
<1>1. HInit => FullInv /\ GarbageInv
  BY InitFullInv DEF HInit, GarbageInv, GarbageLost, GarbageApart, GarbageWhite, GarbageDead
<1>2. FullInv /\ [Next /\ Record]_<<vars, historyVars>> => FullInv'
  <2>1. [Next /\ Record]_<<vars, historyVars>> => [Next]_vars
    OBVIOUS
  <2> QED BY <2>1, NextFullInv
<1>3. FullInv /\ FullInv' /\ GarbageInv /\ [Next /\ Record]_<<vars, historyVars>> => GarbageInv'
  <2> SUFFICES ASSUME FullInv, FullInv', GarbageInv, UNCHANGED <<vars, historyVars>> PROVE GarbageInv'
    BY NextGarbage
  <2>1. Referred' \subseteq Referred
    <3>1. UNCHANGED <<meta, fields, entries, uvloc, uvval, stack, running, tmudata, udlist, gmt, finalized>>
      BY DEF vars, heapVars, udVars
    <3>2. \A o \in Objects : Refs(o)' = Refs(o)
      BY <3>1, RefsAllSame
    <3>3. ReferredRoots' = ReferredRoots
      BY <3>1 DEF ReferredRoots, ProgramRoots, Range, HasFinalizer
    <3>4. ReferredClosed
      BY ReferredIsClosed DEF FullInv, ListsInv
    <3>5. PICK X \in SUBSET Objects : X = Referred
      BY <3>4 DEF ReferredClosed
    <3>6. ReferredRoots' \subseteq X /\ \A o \in X : Refs(o)' \subseteq X
      BY <3>2, <3>3, <3>4, <3>5 DEF ReferredClosed
    <3> QED BY <3>5, <3>6, ReferredLeastPrime DEF ReferredIsLeast
  <2>2. Remembers
    BY <2>1 DEF historyVars, Remembers, GarbageInv, GarbageLost
  <2>3. UNCHANGED vars
    OBVIOUS
  <2> QED BY <2>2, <2>3, QuietGarbage
<1>4. FullInv /\ GarbageInv => OneCycleEnough
  <2> SUFFICES ASSUME FullInv, GarbageInv, gcstate = "finalize", fullgc = "no", NEW o \in garbage \cap alive
               PROVE  FALSE
    BY DEF OneCycleEnough
  <2>1. isdead(o) /\ currentwhite # otherwhite
    BY Basics DEF GarbageInv, GarbageDead, MarkPhase
  <2>2. o \in Range(tmudata)
    BY <2>1 DEF FullInv, Safety, SweepComplete, StillToSweep, MarkPhase, isdead
  <2>3. o \in Referred
    BY <2>2, ReferredIsClosed DEF FullInv, ListsInv, ReferredClosed, ReferredRoots
  <2> QED BY <2>3 DEF GarbageInv, GarbageLost
<1> QED BY <1>1, <1>2, <1>3, <1>4, PTL DEF HSpec

(***************************************************************************)
(* What a step does to the two lists of userdata.                          *)
(***************************************************************************)
KeepsUdata ==
  UNCHANGED <<udlist, tmudata, finalized>> /\ Udatas \cap alive' = Udatas \cap alive
MakesUdata(u) ==
  /\ u \in Udatas \ alive /\ Udatas \cap alive' = {u} \cup (Udatas \cap alive)
  /\ udlist' = <<u>> \o udlist /\ UNCHANGED <<tmudata, finalized>>
  /\ color'[u] = currentwhite
SeparatesUdata == luaC_separateudata(FALSE) /\ UNCHANGED <<alive, meta>>
CallsFinalizer ==
  /\ tmudata # <<>> /\ tmudata' = Tail(tmudata) /\ udlist' = <<Head(tmudata)>> \o udlist
  /\ UNCHANGED <<finalized, alive, meta>>
FreesUdata(F) ==
  /\ F \cap Range(tmudata) = {} /\ \A o \in F : isdead(o)
  /\ alive' = alive \ F /\ finalized' = finalized \ F /\ UNCHANGED tmudata
  /\ udlist' \in Filtered(udlist, Range(udlist) \ F)
UdataStep ==
  KeepsUdata \/ (\E u : MakesUdata(u)) \/ SeparatesUdata \/ CallsFinalizer \/ \E F : FreesUdata(F)

LEMMA MutatorUdata ==
  ASSUME FullInv, Mutator
  PROVE  KeepsUdata \/ \E u : MakesUdata(u)
<1>1. CASE \E s \in LocalSlots :
             \/ \E v \in Held \cup {NoObj, cur} : Move(s, v)
             \/ \E o, v \in Objects : Load(o, v, s)
             \/ LoadBasicMetatable(s)
             \/ \E th \in Threads, v \in Held : StoreInThread(th, s, v)
  BY <1>1 DEF Move, Load, LoadBasicMetatable, StoreInThread, udVars, heapVars, KeepsUdata
<1>2. CASE \E th \in Threads, t \in Tables : SetGlobals(th, t)
  BY <1>2 DEF SetGlobals, udVars, heapVars, KeepsUdata
<1>3. CASE \E s \in LocalSlots :
             \/ \E t \in Tables : NewTable(t, s)
             \/ \E f \in Functions : \E S \in SUBSET (Held \cup Upvals) : NewFunction(f, S, s)
  BY <1>3, KindsAssumption DEF NewTable, NewFunction, udVars, KeepsUdata
<1>4. CASE \E s \in LocalSlots, u \in Udatas, env \in Tables : NewUdata(u, env, s)
  <2> PICK s \in LocalSlots, u \in Udatas, env \in Tables : NewUdata(u, env, s)
    BY <1>4
  <2>1. MakesUdata(u)
    BY DEF NewUdata, Link, MakesUdata, FullInv, ListsInv, TypeOK, HeapType
  <2> QED BY <2>1
<1>5. CASE \E s \in LocalSlots, f \in Functions, u \in Upvals :
             CaptureOpen(f, u, s) \/ \E level \in LocalSlots : CaptureNew(f, u, level, s)
  <2>1. /\ UNCHANGED <<udlist, tmudata, finalized>>
        /\ \E f \in Functions, u \in Upvals : alive' = alive \cup {f} \/ alive' = alive \cup {f, u}
    BY <1>5 DEF CaptureOpen, CaptureNew, udVars
  <2> QED BY <2>1, KindsAssumption DEF KeepsUdata
<1>6. CASE \E s \in LocalSlots :
              (\E th \in Threads : NewThread(th, s)) \/ \E str \in Strings : NewString(str, s)
  <2>1. /\ UNCHANGED <<udlist, tmudata, finalized>>
        /\ \E o \in Threads \cup Strings : alive' = alive \cup {o}
    BY <1>6 DEF NewThread, NewString, udVars
  <2> QED BY <2>1, KindsAssumption DEF KeepsUdata
<1>7. CASE \/ \E t \in Tables, k \in (Held \cap AsKeys) \cup {NoObj} :
                \E v \in Held \cup {NoObj, Nil} : SetTable(t, k, v)
           \/ \E t \in Tables, m \in Values : SetTableMeta(t, m)
  <2>1. UNCHANGED <<alive, udVars>>
    BY <1>7 DEF SetTable, SetTableMeta
  <2> QED BY <2>1 DEF udVars, KeepsUdata
<1>8. CASE \/ \E u \in Udatas, m \in Values : SetUdataMeta(u, m)
           \/ \E u \in Udatas, env \in Tables : SetUdataEnv(u, env)
           \/ \E f \in Functions, old, v \in Values : SetField(f, old, v)
           \/ \E u \in Upvals, v \in Values : SetUpval(u, v)
  <2>1. UNCHANGED <<alive, udVars>>
    BY <1>8 DEF SetUdataMeta, SetUdataEnv, SetField, SetUpval
  <2> QED BY <2>1 DEF udVars, KeepsUdata
<1>9. CASE (\E th \in Threads : Resume(th)) \/ Yield \/ \E m \in Values : SetBasicMeta(m)
  BY <1>9 DEF Resume, Yield, SetBasicMeta, udVars, heapVars, KeepsUdata
<1>10. CASE \E S \in SUBSET OpenUpvals : CloseUpvals(S)
  <2> PICK S \in SUBSET OpenUpvals : CloseUpvals(S)
    BY <1>10
  <2>1. alive' = alive \ {u \in S : isdead(u)} /\ S \cap Udatas = {}
    BY KindsAssumption DEF CloseUpvals, luaF_close, OpenUpvals
  <2> QED BY <2>1 DEF CloseUpvals, udVars, KeepsUdata
<1> QED BY <1>1, <1>2, <1>3, <1>4, <1>5, <1>6, <1>7, <1>8, <1>9, <1>10 DEF Mutator

(* A sweep frees what is dead, and what waits in tmudata is not.           *)
LEMMA SweepUdata ==
  ASSUME FullInv, SweepString \/ \E o \in Objects : Sweep(o)
  PROVE  \E F : FreesUdata(F)
<1>1. PICK B : SweepList(B)
  BY DEF SweepString, Sweep
<1>2. PICK F : F = {o \in B : isdead(o)}
  OBVIOUS
<1>3. Free(F)
  BY <1>1, <1>2 DEF SweepList
<1>4. Range(tmudata) \cap F = {}
  BY <1>2, Basics DEF Live
<1>5. FreesUdata(F)
  BY <1>2, <1>3, <1>4 DEF FreesUdata, Free
<1> QED BY <1>5

LEMMA NextUdata ==
  ASSUME FullInv, [Next]_vars
  PROVE  UdataStep
<1>1. CASE Mutator
  BY <1>1, MutatorUdata DEF UdataStep
<1>2. CASE SweepString \/ \E o \in Objects : Sweep(o)
  BY <1>2, SweepUdata DEF UdataStep
<1>3. CASE MarkTmu
  BY <1>3 DEF MarkTmu, AtomicStage, heapVars, SeparatesUdata, UdataStep
<1>4. CASE \E s \in LocalSlots : GCTM(s)
  BY <1>4 DEF GCTM, heapVars, CallsFinalizer, UdataStep
<1>5. CASE \/ MarkRoot \/ RemarkUpvals \/ RemarkWeak \/ RemarkAgain \/ EndCycle \/ FullGC
           \/ \E o \in Objects : PropagateMark(o)
  BY <1>5 DEF MarkRoot, RemarkUpvals, RemarkWeak, RemarkAgain, EndCycle, FullGC, PropagateMark,
              AtomicStage, heapVars, udVars, KeepsUdata, UdataStep
<1>6. CASE \E inarray : ClearAndFlip(inarray)
  BY <1>6 DEF ClearAndFlip, udVars, KeepsUdata, UdataStep
<1>7. CASE UNCHANGED vars
  BY <1>7 DEF vars, heapVars, udVars, KeepsUdata, UdataStep
<1> QED BY <1>1, <1>2, <1>3, <1>4, <1>5, <1>6, <1>7 DEF Next, Collector

(***************************************************************************)
(* The order.                                                              *)
(***************************************************************************)

(* The userdata that are not freed, each once.                              *)
OrderListed == order \in Seq(Udatas) /\ Injective(order) /\ Range(order) = Udatas \cap alive

(* The list after the main thread has the newest first, but for those whose *)
(* finalizer was called.                                                   *)
NewerInFront ==
  \A i, j \in DOMAIN udlist :
    i < j /\ udlist[i] \notin finalized /\ udlist[j] \notin finalized
      => Before(order, udlist[j], udlist[i])

(* What Filtered keeps keeps its order, if nothing is there twice.          *)
LEMMA FilteredBefore ==
  ASSUME NEW A, NEW s \in Seq(A), NEW S \in SUBSET A, NEW q \in Filtered(s, S), Injective(s),
         NEW a \in S, NEW b \in S, Before(s, a, b)
  PROVE  Before(q, a, b)
<1>1. q \in Seq(A) /\ Range(q) = S
  BY FilteredType
<1>2. PICK k, l \in DOMAIN s : k < l /\ s[k] = a /\ s[l] = b
  BY DEF Before
<1>3. PICK i, j \in DOMAIN q : q[i] = a /\ q[j] = b
  BY <1>1 DEF Range
<1>4. ~ j < i
  <2> SUFFICES ASSUME j < i PROVE FALSE
    OBVIOUS
  <2>1. PICK m, n \in DOMAIN s : m < n /\ s[m] = b /\ s[n] = a
    BY <1>3 DEF Filtered
  <2>2. m = l /\ n = k
    BY <1>2, <2>1 DEF Injective
  <2> QED BY <1>2, <2>1, <2>2
<1>5. i # j
  <2>1. a # b
    BY <1>2 DEF Injective
  <2> QED BY <1>3, <2>1
<1>6. i < j
  BY <1>1, <1>4, <1>5
<1> QED BY <1>3, <1>6 DEF Before

(* A new last element.                                                     *)
LEMMA SnocBefore ==
  ASSUME NEW A, NEW s \in Seq(A), NEW u \in A, Injective(s), u \notin Range(s)
  PROVE  /\ s \o <<u>> \in Seq(A) /\ Injective(s \o <<u>>) /\ Range(s \o <<u>>) = Range(s) \cup {u}
         /\ \A a \in Range(s) : Before(s \o <<u>>, a, u)
         /\ \A a, b : Before(s, a, b) => Before(s \o <<u>>, a, b)
<1>1. /\ s \o <<u>> \in Seq(A) /\ DOMAIN s = 1..Len(s) /\ DOMAIN (s \o <<u>>) = 1..(Len(s) + 1) /\ Len(s) \in Nat
      /\ \A i \in 1..Len(s) : (s \o <<u>>)[i] = s[i]
      /\ (s \o <<u>>)[Len(s) + 1] = u
  OBVIOUS
<1>2. <<u>> \in Seq(A) /\ Range(<<u>>) = {u} /\ Injective(<<u>>)
  BY DEF Range, Injective
<1>3. PICK t \in Seq(A) : t = <<u>>
  BY <1>2
<1>4. Injective(s \o <<u>>)
  <2>1. Range(s) \cap Range(t) = {} /\ Injective(t)
    BY <1>2, <1>3
  <2>2. Injective(s \o t)
    BY <2>1, ConcatInjective
  <2> QED BY <1>3, <2>2
<1>5. Range(s \o <<u>>) = Range(s) \cup {u}
  <2>1. Range(s \o t) = Range(s) \cup Range(t)
    BY ConcatRange
  <2> QED BY <1>2, <1>3, <2>1
<1>6. ASSUME NEW a \in Range(s) PROVE Before(s \o <<u>>, a, u)
  <2>1. PICK i \in 1..Len(s) : s[i] = a
    BY <1>1 DEF Range
  <2>2. i < Len(s) + 1 /\ i \in 1..(Len(s) + 1) /\ Len(s) + 1 \in 1..(Len(s) + 1)
    BY <1>1
  <2> QED BY <1>1, <2>1, <2>2 DEF Before
<1>7. ASSUME NEW a, NEW b, Before(s, a, b) PROVE Before(s \o <<u>>, a, b)
  <2>1. PICK i, j \in 1..Len(s) : i < j /\ s[i] = a /\ s[j] = b
    BY <1>1, <1>7 DEF Before
  <2>2. i \in 1..(Len(s) + 1) /\ j \in 1..(Len(s) + 1)
    BY <1>1
  <2> QED BY <1>1, <2>1, <2>2 DEF Before
<1> QED BY <1>1, <1>4, <1>5, <1>6, <1>7

(* The order of creation of those that live on stays, and a new one is last. *)
LEMMA OrderStep ==
  ASSUME FullInv, OrderListed, UdataStep, Record
  PROVE  /\ OrderListed'
         /\ \A a, b \in Udatas \cap alive \cap alive' : Before(order, a, b) => Before(order', a, b)
         /\ \A u : MakesUdata(u) => \A a \in Udatas \cap alive : Before(order', a, u)
<1> DEFINE S == Range(order) \cap alive'
           new == Udatas \cap (alive' \ alive)
<1>1. PICK kept \in Filtered(order, S) :
        order' = IF new = {} THEN kept ELSE kept \o <<CHOOSE u \in new : TRUE>>
  BY DEF Record
<1>2. S \in SUBSET Udatas /\ S = Udatas \cap alive \cap alive' /\ order \in Seq(Udatas) /\ Injective(order)
  BY DEF OrderListed
<1>3. kept \in Seq(Udatas) /\ Range(kept) = S /\ Injective(kept)
  <2> HIDE DEF S
  <2> QED BY <1>2, FilteredType, FilteredInjective
<1>4. \A a, b \in S : Before(order, a, b) => Before(kept, a, b)
  <2> HIDE DEF S
  <2> QED BY <1>2, FilteredBefore
<1>5. CASE new = {}
  <2>1. order' = kept /\ Udatas \cap alive' = S /\ \A u : ~ MakesUdata(u)
    BY <1>1, <1>2, <1>5 DEF MakesUdata
  <2> QED BY <1>2, <1>3, <1>4, <2>1 DEF OrderListed
<1>6. CASE new # {}
  <2>1. PICK u : MakesUdata(u)
    <3>1. Udatas \cap alive' \subseteq alive \/ \E u : MakesUdata(u)
      BY DEF UdataStep, KeepsUdata, SeparatesUdata, CallsFinalizer, FreesUdata
    <3> QED BY <1>6, <3>1
  <2>2. new = {u} /\ u \in Udatas /\ u \notin S /\ Udatas \cap alive' = S \cup {u} /\ S = Udatas \cap alive
    BY <1>2, <2>1 DEF MakesUdata
  <2>3. order' = kept \o <<u>>
    <3>1. (CHOOSE v \in new : TRUE) = u
      BY <2>2
    <3> QED BY <1>1, <1>6, <3>1
  <2> HIDE DEF S, new
  <2>4. /\ order' \in Seq(Udatas) /\ Injective(order') /\ Range(order') = S \cup {u}
        /\ \A a \in S : Before(order', a, u)
        /\ \A a, b : Before(kept, a, b) => Before(order', a, b)
    BY <1>3, <2>2, <2>3, SnocBefore
  <2>5. \A v : MakesUdata(v) => v = u
    BY <2>2 DEF MakesUdata, new
  <2>6. OrderListed'
    BY <2>2, <2>4 DEF OrderListed, Range
  <2> QED BY <1>2, <1>4, <2>2, <2>4, <2>5, <2>6
<1> QED BY <1>5, <1>6

(* The list after the main thread stays in order.                          *)
LEMMA NewerStep ==
  ASSUME FullInv, FullInv', OrderListed, NewerInFront, UdataStep, Record
  PROVE  NewerInFront'
<1>1. /\ OrderListed'
      /\ \A a, b \in Udatas \cap alive \cap alive' : Before(order, a, b) => Before(order', a, b)
      /\ \A u : MakesUdata(u) => \A a \in Udatas \cap alive : Before(order', a, u)
  BY OrderStep
<1>2. /\ udlist \in Seq(Udatas) /\ udlist' \in Seq(Udatas) /\ tmudata \in Seq(Udatas)
      /\ Range(udlist) \subseteq Udatas \cap alive /\ Range(udlist') \subseteq alive'
  BY DEF FullInv, ListsInv, TypeOK, CollectorType, UdataLists, Range
<1>3. \A i \in DOMAIN udlist : udlist[i] \in Udatas \cap alive
  BY <1>2 DEF Range
<1>4. \A i \in DOMAIN udlist' : udlist'[i] \in alive'
  BY <1>2 DEF Range
(* Each pair of udlist' is a pair of udlist, or has a new or a finalized first. *)
<1>5. ASSUME NEW i \in DOMAIN udlist', NEW j \in DOMAIN udlist', i < j,
             \E k, l \in DOMAIN udlist : k < l /\ udlist[k] = udlist'[i] /\ udlist[l] = udlist'[j],
             udlist'[i] \notin finalized, udlist'[j] \notin finalized
      PROVE  Before(order', udlist'[j], udlist'[i])
  BY <1>1, <1>3, <1>4, <1>5 DEF NewerInFront
<1>6. CASE KeepsUdata
  BY <1>5, <1>6 DEF KeepsUdata, NewerInFront
<1>7. CASE SeparatesUdata
  <2>1. PICK S : udlist' \in Filtered(udlist, S) /\ finalized \subseteq finalized'
    BY <1>7 DEF SeparatesUdata, luaC_separateudata
  <2> QED BY <1>5, <2>1 DEF Filtered, NewerInFront
<1>8. CASE \E F : FreesUdata(F)
  <2>1. PICK F : FreesUdata(F)
    BY <1>8
  <2>2. /\ udlist' \in Filtered(udlist, Range(udlist) \ F) /\ alive' = alive \ F /\ finalized' = finalized \ F
    BY <2>1 DEF FreesUdata
  <2>3. \A i \in DOMAIN udlist' : udlist'[i] \notin finalized' => udlist'[i] \notin finalized
    BY <1>4, <2>2
  <2> QED BY <1>5, <2>2, <2>3 DEF Filtered, NewerInFront
<1>9. ASSUME NEW u \in Udatas, udlist' = <<u>> \o udlist, UNCHANGED finalized,
             u \in finalized \/ \A a \in Udatas \cap alive : Before(order', a, u)
      PROVE  NewerInFront'
  <2>1. /\ DOMAIN udlist = 1..Len(udlist) /\ DOMAIN udlist' = 1..(Len(udlist) + 1) /\ Len(udlist) \in Nat
        /\ udlist'[1] = u /\ \A i \in 2..(Len(udlist) + 1) : udlist'[i] = udlist[i - 1]
    BY <1>2, <1>9
  <2> SUFFICES ASSUME NEW i \in 1..(Len(udlist) + 1), NEW j \in 1..(Len(udlist) + 1), i < j,
                      udlist'[i] \notin finalized, udlist'[j] \notin finalized
               PROVE  Before(order', udlist'[j], udlist'[i])
    BY <1>9, <2>1 DEF NewerInFront
  <2>2. j - 1 \in DOMAIN udlist /\ udlist'[j] = udlist[j - 1]
    BY <2>1
  <2>3. CASE i = 1
    BY <1>3, <1>9, <2>1, <2>2, <2>3
  <2>4. CASE i # 1
    <3>1. i - 1 \in DOMAIN udlist /\ udlist'[i] = udlist[i - 1] /\ i - 1 < j - 1
      BY <2>1, <2>4
    <3> QED BY <1>5, <2>1, <2>2, <3>1
  <2> QED BY <2>3, <2>4
<1>10. CASE \E u : MakesUdata(u)
  BY <1>1, <1>9, <1>10 DEF MakesUdata
<1>11. CASE CallsFinalizer
  <2>1. Head(tmudata) \in Udatas /\ Head(tmudata) \in Range(tmudata)
    BY <1>2, <1>11 DEF CallsFinalizer, Range
  <2>2. Head(tmudata) \in finalized
    BY <2>1 DEF FullInv, ListsInv, UdataLists
  <2> QED BY <1>9, <1>11, <2>1, <2>2 DEF CallsFinalizer
<1> QED BY <1>6, <1>7, <1>8, <1>10, <1>11 DEF UdataStep

(* What a cycle has to finalize is called newest first, behind what is left  *)
(* of an earlier one.                                                      *)
THEOREM FinalizersNewestFirst == HSpec => NewestFirst
<1> DEFINE Inv == FullInv /\ OrderListed /\ NewerInFront
           ordered == \A i, j \in DOMAIN tmudata' :
                        Len(tmudata) < i /\ i < j => Before(order, tmudata'[j], tmudata'[i])
<1>1. HInit => Inv
  <2> SUFFICES ASSUME HInit PROVE OrderListed /\ NewerInFront
    BY InitFullInv DEF HInit
  <2>1. order = <<>> /\ udlist = <<>> /\ alive = {MainThread, Registry, Globals}
    BY DEF HInit, Init, InitWith, NewState
  <2>2. Udatas \cap alive = {}
    BY <2>1, KindsAssumption
  <2> QED BY <2>1, <2>2 DEF OrderListed, NewerInFront, Injective, Range
<1>2. Inv /\ [Next /\ Record]_<<vars, historyVars>> => Inv'
  <2> SUFFICES ASSUME Inv, [Next /\ Record]_<<vars, historyVars>> PROVE Inv'
    OBVIOUS
  <2>1. FullInv' /\ UdataStep
    BY NextFullInv, NextUdata
  <2>2. CASE Record
    BY <2>1, <2>2, OrderStep, NewerStep
  <2>3. CASE UNCHANGED <<vars, historyVars>>
    BY <2>1, <2>3 DEF vars, heapVars, udVars, historyVars, OrderListed, NewerInFront, Injective, Before, Range
  <2> QED BY <2>2, <2>3
<1>3. Inv /\ [Next /\ Record]_<<vars, historyVars>> => ordered
  <2> SUFFICES ASSUME Inv, [Next]_vars, NEW i \in DOMAIN tmudata', NEW j \in DOMAIN tmudata',
                      Len(tmudata) < i, i < j
               PROVE  Before(order, tmudata'[j], tmudata'[i])
    OBVIOUS
  <2>1. /\ tmudata \in Seq(Udatas) /\ tmudata' \in Seq(Udatas) /\ udlist \in Seq(Udatas)
        /\ Range(udlist) \subseteq Udatas
    BY NextFullInv, RangeType DEF FullInv, ListsInv, TypeOK, CollectorType
  <2>2. i \in 1..Len(tmudata') /\ Len(tmudata') \in Nat /\ Len(tmudata) \in Nat /\ Len(tmudata') > Len(tmudata)
    BY <2>1
  <2>3. SeparatesUdata
    <3>1. CASE CallsFinalizer
      BY <2>1, <2>2, <3>1 DEF CallsFinalizer
    <3>2. tmudata' # tmudata
      BY <2>2
    <3> QED BY <3>1, <3>2, NextUdata DEF UdataStep, KeepsUdata, MakesUdata, FreesUdata
  <2>4. PICK due : due = {u \in NotFinalized(FALSE) : HasFinalizer(u)}
    OBVIOUS
  <2>5. due \in SUBSET Udatas /\ due \cap finalized = {}
    BY <2>1, <2>4 DEF NotFinalized
  <2>6. PICK q \in Filtered(udlist, due) : tmudata' = tmudata \o q
    BY <2>3, <2>4 DEF SeparatesUdata, luaC_separateudata
  <2>7. q \in Seq(Udatas) /\ Range(q) = due
    BY <2>1, <2>5, FilteredType
  <2>8. PICK m, n \in DOMAIN q : m < n /\ tmudata'[i] = q[m] /\ tmudata'[j] = q[n]
    <3>1. /\ i - Len(tmudata) \in DOMAIN q /\ tmudata'[i] = q[i - Len(tmudata)]
          /\ j - Len(tmudata) \in DOMAIN q /\ tmudata'[j] = q[j - Len(tmudata)]
          /\ i - Len(tmudata) < j - Len(tmudata)
      BY <2>1, <2>6, <2>7
    <3> QED BY <3>1
  <2>9. q[m] \notin finalized /\ q[n] \notin finalized
    BY <2>5, <2>7 DEF Range
  <2>10. PICK k, l \in DOMAIN udlist : k < l /\ udlist[k] = q[m] /\ udlist[l] = q[n]
    BY <2>6, <2>8 DEF Filtered
  <2> QED BY <2>8, <2>9, <2>10 DEF NewerInFront
<1> QED BY <1>1, <1>2, <1>3, PTL DEF HSpec, NewestFirst

(***************************************************************************)
(* No userdata is freed before its finalizer was called.                   *)
(***************************************************************************)

(* A userdata that is dead, or is white when the marks are done, had its    *)
(* turn of separation.                                                     *)
DeadSeparated == \A u \in Udatas \cap alive : isdead(u) => u \in finalized
WhiteSeparated == gcstate = "marktmu" => \A u \in Udatas \cap alive : iswhite(u) => u \in finalized

(* A step of the program kills no userdata.                                *)
LEMMA BarrierfKillsNone ==
  ASSUME TypeOK, NEW p \in Objects, NEW v, luaC_barrierf(p, v), NEW u \in Objects
  PROVE  color'[u] \in {color[u], currentwhite, "gray", "black"}
  BY DEF luaC_barrierf, MarkFrom, Recolor, ColorOnceMarked, TypeOK, HeapType

LEMMA MutatorKillsNone ==
  ASSUME FullInv, Mutator, NEW u \in Udatas \cap alive'
  PROVE  color'[u] \in {color[u], currentwhite, "gray", "black"}
<1>1. TypeOK /\ u \in Objects /\ color \in [Objects -> Whites \cup {"gray", "black"}]
  BY DEF FullInv, ListsInv, TypeOK, HeapType
<1>2. CASE \E s \in LocalSlots :
             \/ \E v \in Held \cup {NoObj, cur} : Move(s, v)
             \/ \E o, v \in Objects : Load(o, v, s)
             \/ LoadBasicMetatable(s)
             \/ \E th \in Threads, v \in Held : StoreInThread(th, s, v)
  BY <1>2 DEF Move, Load, LoadBasicMetatable, StoreInThread
<1>3. CASE \/ \E th \in Threads, t \in Tables : SetGlobals(th, t)
           \/ \E th \in Threads : Resume(th)
           \/ Yield
           \/ \E m \in Values : SetBasicMeta(m)
  BY <1>3 DEF SetGlobals, Resume, Yield, SetBasicMeta
<1>4. CASE \E s \in LocalSlots :
             \/ \E t \in Tables : NewTable(t, s)
             \/ \E w \in Udatas, env \in Tables : NewUdata(w, env, s)
             \/ \E f \in Functions : \E S \in SUBSET (Held \cup Upvals) : NewFunction(f, S, s)
             \/ \E th \in Threads : NewThread(th, s)
  BY <1>1, <1>4 DEF NewTable, NewUdata, NewFunction, NewThread, Link
<1>5. CASE \E s \in LocalSlots, f \in Functions, w \in Upvals :
             CaptureOpen(f, w, s) \/ \E level \in LocalSlots : CaptureNew(f, w, level, s)
  BY <1>1, <1>5, KindsAssumption DEF CaptureOpen, CaptureNew
<1>6. CASE \E s \in LocalSlots, str \in Strings : NewString(str, s)
  BY <1>1, <1>6, KindsAssumption DEF NewString
<1>7. CASE \/ \E t \in Tables, k \in (Held \cap AsKeys) \cup {NoObj} :
                \E v \in Held \cup {NoObj, Nil} : SetTable(t, k, v)
           \/ \E t \in Tables, m \in Values : SetTableMeta(t, m)
  BY <1>1, <1>7 DEF SetTable, SetTableMeta, luaC_barrierback
<1>8. CASE \/ \E w \in Udatas, m \in Values : SetUdataMeta(w, m)
           \/ \E w \in Udatas, env \in Tables : SetUdataEnv(w, env)
           \/ \E f \in Functions, old, v \in Values : SetField(f, old, v)
           \/ \E w \in Upvals, v \in Values : SetUpval(w, v)
  <2>1. \E p \in Objects, v \in Values : luaC_barrierf(p, v)
    BY <1>8 DEF SetUdataMeta, SetUdataEnv, SetField, SetUpval
  <2> QED BY <1>1, <2>1, BarrierfKillsNone
<1>9. CASE \E S \in SUBSET OpenUpvals : CloseUpvals(S)
  <2>1. PICK S \in SUBSET OpenUpvals : luaF_close(S)
    BY <1>9 DEF CloseUpvals
  <2>2. u \notin S
    BY KindsAssumption DEF OpenUpvals
  <2> QED BY <1>1, <2>1, <2>2 DEF luaF_close, ColorOnceMarked
<1> QED BY <1>2, <1>3, <1>4, <1>5, <1>6, <1>7, <1>8, <1>9 DEF Mutator

LEMMA MutatorDead ==
  ASSUME FullInv, DeadSeparated, Mutator
  PROVE  DeadSeparated' /\ WhiteSeparated'
<1>1. /\ MutatorRuns /\ gcstate' = gcstate /\ currentwhite' = currentwhite /\ otherwhite' = otherwhite
      /\ currentwhite \in Whites /\ otherwhite \in Whites /\ currentwhite # otherwhite
  BY MutatorControl, Basics DEF ctlVars, otherwhite
<1>2. KeepsUdata \/ \E u : MakesUdata(u)
  BY MutatorUdata
<1>3. ASSUME NEW u \in Udatas \cap alive', isdead(u)' PROVE u \in finalized'
  <2>1. color'[u] = color[u] \/ color'[u] = currentwhite \/ color'[u] = "gray" \/ color'[u] = "black"
    BY MutatorKillsNone
  <2>2. color'[u] = color[u] /\ isdead(u) /\ ~ MakesUdata(u)
    BY <1>1, <1>3, <2>1 DEF isdead, MakesUdata
  <2>3. u \in alive /\ finalized' = finalized
    <3>1. CASE KeepsUdata
      BY <3>1 DEF KeepsUdata
    <3>2. CASE \E w : MakesUdata(w)
      BY <2>2, <3>2 DEF MakesUdata
    <3> QED BY <1>2, <3>1, <3>2
  <2> QED BY <2>2, <2>3 DEF DeadSeparated
<1>4. WhiteSeparated'
  BY <1>1 DEF WhiteSeparated, MutatorRuns
<1> QED BY <1>3, <1>4 DEF DeadSeparated

(* The marks, and marktmu, which separates the white userdata first.        *)
LEMMA MarkingDead ==
  ASSUME FullInv, FullInv', WhiteSeparated,
         \/ MarkRoot \/ RemarkUpvals \/ RemarkWeak \/ RemarkAgain \/ MarkTmu
         \/ \E o \in Objects : PropagateMark(o)
  PROVE  DeadSeparated' /\ WhiteSeparated'
<1>1. gcstate' \in MarkPhase
  BY DEF MarkRoot, RemarkUpvals, RemarkWeak, RemarkAgain, MarkTmu, PropagateMark, AtomicStage, MarkPhase, ctlVars
<1>2. DeadSeparated'
  BY <1>1 DEF FullInv, Safety, SweepComplete, DeadSeparated
<1>3. CASE MarkRoot \/ RemarkUpvals \/ RemarkWeak \/ RemarkAgain
  BY <1>2, <1>3 DEF MarkRoot, RemarkUpvals, RemarkWeak, RemarkAgain, AtomicStage, WhiteSeparated
<1>4. CASE \E o \in Objects : PropagateMark(o)
  <2>1. /\ UNCHANGED <<alive, gcstate, finalized>>
        /\ \A u \in Objects : color'[u] \in {color[u], "gray", "black"}
    BY <1>4 DEF PropagateMark, heapVars, udVars, ctlVars, ColorOnceMarked
  <2> QED BY <1>2, <2>1 DEF WhiteSeparated, iswhite
<1>5. CASE MarkTmu
  <2>1. /\ luaC_separateudata(FALSE) /\ UNCHANGED alive
        /\ \A u \in Objects : IF u \in Range(tmudata') THEN color'[u] = "black" ELSE color'[u] \in {color[u], "gray"}
    BY <1>5 DEF MarkTmu, AtomicStage, heapVars
  <2> SUFFICES ASSUME NEW u \in Udatas \cap alive', iswhite(u)' PROVE u \in finalized'
    BY <1>2 DEF WhiteSeparated
  <2>2. u \notin Range(tmudata') /\ iswhite(u)
    BY <2>1 DEF iswhite
  <2>3. Range(tmudata') = Range(tmudata) \cup {w \in NotFinalized(FALSE) : HasFinalizer(w)}
    BY <2>1, SeparateType DEF FullInv, ListsInv
  <2>4. u \in Range(udlist)
    BY <2>1, <2>2, <2>3 DEF FullInv, ListsInv, UdataLists
  <2>5. u \in finalized \cup NotFinalized(FALSE)
    BY <2>2, <2>4 DEF NotFinalized
  <2> QED BY <2>1, <2>5 DEF luaC_separateudata
<1> QED BY <1>2, <1>3, <1>4, <1>5

LEMMA SweepingDead ==
  ASSUME FullInv, DeadSeparated, SweepString \/ \E o \in Objects : Sweep(o)
  PROVE  DeadSeparated' /\ WhiteSeparated'
<1>1. PICK B : SweepList(B)
  BY DEF SweepString, Sweep
<1>2. /\ alive' = alive \ {o \in B : isdead(o)} /\ finalized' = finalized \ {o \in B : isdead(o)}
      /\ color' = [o \in Objects |-> IF o \notin B THEN color[o]
                                     ELSE IF isdead(o) THEN "white0" ELSE currentwhite]
  BY <1>1 DEF SweepList, Free
<1>3. currentwhite' = currentwhite /\ otherwhite' = otherwhite /\ gcstate' # "marktmu" /\ currentwhite # otherwhite
  BY Basics DEF SweepString, Sweep, otherwhite
<1> QED BY <1>2, <1>3 DEF DeadSeparated, WhiteSeparated, isdead

LEMMA NextDead ==
  ASSUME FullInv, FullInv', DeadSeparated, WhiteSeparated, [Next]_vars
  PROVE  DeadSeparated' /\ WhiteSeparated'
<1>1. CASE \E inarray : ClearAndFlip(inarray)
  <2>1. /\ gcstate = "marktmu" /\ gcstate' # "marktmu" /\ currentwhite' = otherwhite
        /\ UNCHANGED <<alive, finalized>>
        /\ \A u \in Udatas : color'[u] = color[u]
    BY <1>1, KindsAssumption DEF ClearAndFlip, udVars
  <2>2. otherwhite' \in Whites
    BY DEF otherwhite
  <2> QED BY <2>1, <2>2 DEF DeadSeparated, WhiteSeparated, isdead, iswhite
<1>2. CASE (\E s \in LocalSlots : GCTM(s)) \/ EndCycle \/ FullGC \/ UNCHANGED vars
  <2>1. /\ UNCHANGED <<alive, finalized, currentwhite>> /\ (gcstate' = "marktmu" => UNCHANGED vars)
        /\ \A u \in Objects : color'[u] = color[u] \/ color'[u] = currentwhite
    <3>1. color \in [Objects -> Whites \cup {"gray", "black"}]
      BY DEF FullInv, ListsInv, TypeOK, HeapType
    <3>2. CASE \E s \in LocalSlots : GCTM(s)
      BY <3>1, <3>2 DEF GCTM, heapVars, ctlVars
    <3>3. CASE EndCycle \/ FullGC \/ UNCHANGED vars
      BY <3>3 DEF EndCycle, FullGC, MutatorRuns, vars, heapVars, udVars, ctlVars
    <3> QED BY <1>2, <3>2, <3>3
  <2>2. otherwhite' = otherwhite /\ currentwhite # otherwhite
    BY <2>1, Basics DEF otherwhite
  <2>3. DeadSeparated'
    BY <2>1, <2>2 DEF DeadSeparated, isdead
  <2>4. WhiteSeparated'
    BY <2>1 DEF WhiteSeparated, iswhite, vars, heapVars, udVars, ctlVars
  <2> QED BY <2>3, <2>4
<1> QED BY <1>1, <1>2, MutatorDead, MarkingDead, SweepingDead DEF Next, Collector

(* Those that had their turn were called, or had no finalizer then, or wait; *)
(* those that wait have a finalizer and were not called.                   *)
TurnsTaken ==
  /\ finalized \subseteq called \cup passedOver \cup Range(tmudata)
  /\ called \subseteq finalized /\ called \cap Range(tmudata) = {}
  /\ \A u \in Range(tmudata) : HasFinalizer(u)

NotTakenAway == \A u \in Range(tmudata) : HasFinalizer(u) => HasFinalizer(u)'

LEMMA TurnsStep ==
  ASSUME FullInv, FullInv', TurnsTaken, UdataStep, Record, NotTakenAway
  PROVE  TurnsTaken' /\ \A u \in called : u \notin Range(tmudata')
<1>1. /\ called' = (called \cup {u \in Range(tmudata) \ Range(tmudata') : HasFinalizer(u)}) \cap alive'
      /\ passedOver' = (passedOver \cup ((finalized' \ finalized) \ Range(tmudata'))) \cap alive'
  BY DEF Record
<1>2. /\ finalized' \subseteq alive' /\ Range(tmudata') \subseteq finalized' /\ Range(tmudata) \subseteq finalized
      /\ TypeOK /\ tmudata \in Seq(Udatas) /\ Range(tmudata)' = Range(tmudata') /\ Injective(tmudata)
  BY DEF FullInv, ListsInv, UdataLists, TypeOK, CollectorType, Range, Injective
<1>3. CASE KeepsUdata \/ \E u : MakesUdata(u)
  <2>1. tmudata' = tmudata /\ finalized' = finalized
    BY <1>3 DEF KeepsUdata, MakesUdata
  <2> QED BY <1>1, <1>2, <2>1 DEF TurnsTaken, NotTakenAway
<1>4. CASE SeparatesUdata
  <2>1. /\ Range(tmudata') = Range(tmudata) \cup {w \in NotFinalized(FALSE) : HasFinalizer(w)}
        /\ finalized' = finalized \cup NotFinalized(FALSE)
    BY <1>2, <1>4, SeparateType DEF SeparatesUdata, luaC_separateudata
  <2>2. NotFinalized(FALSE) \cap finalized = {}
    BY DEF NotFinalized
  <2>3. \A u \in Range(tmudata') : HasFinalizer(u)'
    BY <1>4, <2>1 DEF TurnsTaken, NotTakenAway, SeparatesUdata, HasFinalizer
  <2>4. called' \subseteq called /\ called \subseteq called' \cup (Objects \ alive')
    <3>1. called \subseteq Objects
      BY <1>2 DEF TurnsTaken, TypeOK, CollectorType
    <3> QED BY <1>1, <2>1, <3>1
  <2>5. \A u \in called : u \notin Range(tmudata')
    BY <2>1, <2>2 DEF TurnsTaken
  <2>6. finalized' \subseteq called' \cup passedOver' \cup Range(tmudata')
    BY <1>1, <1>2, <2>1 DEF TurnsTaken
  <2>7. called' \subseteq finalized'
    BY <2>1, <2>4 DEF TurnsTaken
  <2> QED BY <1>2, <2>3, <2>4, <2>5, <2>6, <2>7 DEF TurnsTaken
<1>5. CASE CallsFinalizer
  <2>1. /\ Head(tmudata) \in Range(tmudata) /\ Range(tmudata') = Range(tmudata) \ {Head(tmudata)}
        /\ finalized' = finalized /\ meta' = meta
    BY <1>2, <1>5, TailInjective DEF CallsFinalizer
  <2> QED BY <1>1, <1>2, <2>1 DEF TurnsTaken, HasFinalizer
<1>6. CASE \E F : FreesUdata(F)
  <2>1. PICK F : FreesUdata(F)
    BY <1>6
  <2>2. tmudata' = tmudata /\ finalized' = finalized \ F /\ alive' = alive \ F /\ F \cap Range(tmudata) = {}
    BY <2>1 DEF FreesUdata
  <2> QED BY <1>1, <1>2, <2>2 DEF TurnsTaken, NotTakenAway
<1> QED BY <1>3, <1>4, <1>5, <1>6 DEF UdataStep

(* If the program takes no finalizer away from a userdata that waits for it, *)
(* none is freed that had a finalizer whenever the collector found it dead *)
(* and was not called, and none is called twice.                           *)
THEOREM CalledBeforeFreed == HSpec /\ FinalizersKept => FinalizedBeforeFreed
<1> DEFINE Inv == FullInv /\ DeadSeparated /\ WhiteSeparated /\ TurnsTaken
           Step == [Next /\ Record]_<<vars, historyVars>> /\ [NotTakenAway]_<<vars, historyVars>>
           Promise == /\ \A u \in Udatas \cap (alive \ alive') : HasFinalizer(u) => u \in called \cup passedOver
                      /\ \A u \in called : u \notin Range(tmudata')
<1>1. HInit => Inv
  <2> SUFFICES ASSUME HInit PROVE DeadSeparated /\ WhiteSeparated /\ TurnsTaken
    BY InitFullInv DEF HInit
  <2>1. /\ alive = {MainThread, Registry, Globals} /\ gcstate = "pause" /\ finalized = {} /\ called = {}
        /\ tmudata = <<>>
    BY DEF HInit, Init, InitWith, NewState
  <2>2. Udatas \cap alive = {}
    BY <2>1, KindsAssumption
  <2> QED BY <2>1, <2>2 DEF DeadSeparated, WhiteSeparated, TurnsTaken, Range
<1>2. Inv /\ Step => Inv'
  <2> SUFFICES ASSUME Inv, Step PROVE Inv'
    OBVIOUS
  <2>1. FullInv' /\ UdataStep
    BY NextFullInv, NextUdata
  <2>2. DeadSeparated' /\ WhiteSeparated'
    BY <2>1, NextDead
  <2>3. TurnsTaken'
    <3>1. CASE UNCHANGED <<vars, historyVars>>
      BY <3>1 DEF vars, heapVars, udVars, historyVars, TurnsTaken, Range, HasFinalizer
    <3>2. CASE Record /\ NotTakenAway
      BY <2>1, <3>2, TurnsStep
    <3> QED BY <3>1, <3>2
  <2> QED BY <2>1, <2>2, <2>3
<1>3. Inv /\ Step => Promise
  <2> SUFFICES ASSUME Inv, Step PROVE Promise
    OBVIOUS
  <2>1. FullInv' /\ UdataStep
    BY NextFullInv, NextUdata
  <2>2. ASSUME NEW u \in Udatas \cap (alive \ alive') PROVE u \in called \cup passedOver
    <3>1. PICK F : FreesUdata(F)
      BY <2>1, <2>2 DEF UdataStep, KeepsUdata, MakesUdata, SeparatesUdata, CallsFinalizer
    <3>2. isdead(u) /\ u \notin Range(tmudata)
      BY <2>2, <3>1 DEF FreesUdata
    <3> QED BY <2>2, <3>2 DEF DeadSeparated, TurnsTaken
  <2>3. \A u \in called : u \notin Range(tmudata')
    <3>1. CASE UNCHANGED <<vars, historyVars>>
      BY <3>1 DEF vars, udVars, TurnsTaken
    <3>2. CASE Record /\ NotTakenAway
      BY <2>1, <3>2, TurnsStep
    <3> QED BY <3>1, <3>2
  <2> QED BY <2>2, <2>3
<1>4. FinalizersKept => [][NotTakenAway]_<<vars, historyVars>>
  BY PTL DEF FinalizersKept, NotTakenAway
<1> QED BY <1>1, <1>2, <1>3, <1>4, PTL DEF HSpec, FinalizedBeforeFreed
=============================================================================
