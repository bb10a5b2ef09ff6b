----------------------------- MODULE LuaGCProofs -----------------------------
(***************************************************************************)
(* Proofs about the collector of LuaGC, for every set of objects: the types *)
(* of its state, its lists of userdata and of objects, and that nothing    *)
(* the program does makes the collector lose an object it can still name.  *)
(***************************************************************************)
EXTENDS LuaGC, TLAPS

USE DEF Objects, Values, FirstClass, Closed, Nil, Whites, AtomicStates, SweepStates, GCStates,
        HasGclist, Linked, LocalSlots

(* The initial state is of the right type.                                 *)
LEMMA InitType == Init => TypeOK
  BY KindsAssumption, FieldsAssumption DEF Init, InitWith, NewState, TypeOK, HeapType, ProgramType, CollectorType

(* Marking keeps the types of the colors and of the gray list.             *)
LEMMA MarkedType ==
  ASSUME TypeOK, NEW S \in SUBSET Values
  PROVE  Marked(S) \subseteq Objects
  BY KindsAssumption DEF TypeOK, HeapType, ProgramType, CollectorType, Marked, OwnRefs, UpvalValue, IsOpen, Range, Resumed

LEMMA MarkFromType ==
  ASSUME TypeOK, NEW S \in SUBSET Values, NEW G \in SUBSET HasGclist, MarkFrom(S, G)
  PROVE  /\ color' \in [Objects -> Whites \cup {"gray", "black"}]
         /\ gray' \subseteq HasGclist
  BY MarkedType DEF TypeOK, HeapType, ProgramType, CollectorType, MarkFrom, Recolor, ColorOnceMarked

LEMMA CurType == TypeOK => cur \in Threads /\ Len(running) \in Nat \ {0}
  BY DEF TypeOK, HeapType, ProgramType, CollectorType, cur

LEMMA HeldType == TypeOK => Held \subseteq FirstClass \ {NoObj}
  BY CurType, KindsAssumption DEF TypeOK, HeapType, ProgramType, CollectorType, Held, StackOf, Range

(* Each operation of the program, and each step of the collector, keeps    *)
(* the types.                                                              *)
LEMMA StackOpsType ==
  ASSUME TypeOK, NEW s \in LocalSlots,
         \/ \E v \in Held \cup {NoObj, cur} : Move(s, v)
         \/ \E o, v \in Objects : Load(o, v, s)
         \/ LoadBasicMetatable(s)
         \/ \E th \in Threads, v \in Held : StoreInThread(th, s, v)
  PROVE  TypeOK'
<1>1. cur \in Threads /\ Held \subseteq FirstClass \ {NoObj}
  BY CurType, HeldType
<1>2. CASE \E v \in Held \cup {NoObj, cur} : Move(s, v)
  BY <1>1, <1>2, KindsAssumption DEF TypeOK, HeapType, ProgramType, CollectorType, Move, Push, heapVars, udVars, listVars, ctlVars
<1>3. CASE \E o, v \in Objects : Load(o, v, s)
  BY <1>1, <1>3, KindsAssumption DEF TypeOK, HeapType, ProgramType, CollectorType, Load, Push, heapVars, udVars, listVars, ctlVars
<1>4. CASE LoadBasicMetatable(s)
  BY <1>1, <1>4, KindsAssumption DEF TypeOK, HeapType, ProgramType, CollectorType, LoadBasicMetatable, Push, heapVars, udVars, listVars, ctlVars
<1>5. CASE \E th \in Threads, v \in Held : StoreInThread(th, s, v)
  BY <1>1, <1>5, KindsAssumption DEF TypeOK, HeapType, ProgramType, CollectorType, StoreInThread, heapVars, udVars, listVars, ctlVars
<1> QED BY <1>2, <1>3, <1>4, <1>5

LEMMA NewObjectsType ==
  ASSUME TypeOK, NEW s \in LocalSlots,
         \/ \E t \in Tables : NewTable(t, s)
         \/ \E u \in Udatas, env \in Tables : NewUdata(u, env, s)
         \/ \E f \in Functions : \E S \in SUBSET (Held \cup Upvals) : NewFunction(f, S, s)
         \/ \E f \in Functions, u \in Upvals : CaptureOpen(f, u, s)
         \/ \E f \in Functions, u \in Upvals, level \in LocalSlots : CaptureNew(f, u, level, s)
         \/ \E th \in Threads : NewThread(th, s)
         \/ \E str \in Strings : NewString(str, s)
  PROVE  TypeOK'
<1>1. cur \in Threads /\ Held \subseteq FirstClass \ {NoObj}
  BY CurType, HeldType
<1>2. CASE \E t \in Tables : NewTable(t, s)
  BY <1>1, <1>2, KindsAssumption DEF TypeOK, HeapType, ProgramType, CollectorType, NewTable, Link, Push, udVars, listVars, ctlVars
<1>3. CASE \E u \in Udatas, env \in Tables : NewUdata(u, env, s)
  BY <1>1, <1>3, KindsAssumption DEF TypeOK, HeapType, ProgramType, CollectorType, NewUdata, Link, Push, listVars, ctlVars
<1>4. CASE \E f \in Functions : \E S \in SUBSET (Held \cup Upvals) : NewFunction(f, S, s)
  BY <1>1, <1>4, KindsAssumption DEF TypeOK, HeapType, ProgramType, CollectorType, NewFunction, Link, Push, udVars, listVars, ctlVars
<1>5. CASE \E f \in Functions, u \in Upvals : CaptureOpen(f, u, s)
  <2> PICK f \in Functions, u \in Upvals : CaptureOpen(f, u, s)
    BY <1>5
  <2>1. color' \in [Objects -> Whites \cup {"gray", "black"}]
    BY DEF CaptureOpen, Resurrected, TypeOK, HeapType, CollectorType
  <2>2. fields' \in [Objects -> SUBSET Objects] /\ stack' \in [Threads -> [Slots -> FirstClass]]
    BY <1>1, KindsAssumption DEF CaptureOpen, Push, TypeOK, HeapType, ProgramType, CollectorType
  <2>3. f \notin Udatas /\ \A o \in Objects \ {f} : fields'[o] = fields[o]
    BY KindsAssumption DEF CaptureOpen, TypeOK, HeapType, ProgramType, CollectorType
  <2>4. \A o \in Objects : /\ o \in Udatas => fields'[o] \subseteq Tables
                           /\ o \notin Udatas \cup Functions => fields'[o] = {}
    BY <2>3 DEF TypeOK, HeapType, ProgramType, CollectorType
  <2>5. alive' \subseteq Objects
    BY DEF TypeOK, HeapType, ProgramType, CollectorType, CaptureOpen
  <2>6. UNCHANGED <<meta, entries, uvloc, uvval, gmt, running, udVars, gray, listVars, ctlVars>>
    BY DEF CaptureOpen
  <2>7. HeapType'
    BY <2>1, <2>2, <2>4, <2>5, <2>6 DEF TypeOK, HeapType
  <2>8. ProgramType'
    BY <2>2, <2>6 DEF TypeOK, ProgramType
  <2>9. CollectorType'
    BY <2>6 DEF TypeOK, CollectorType, udVars, listVars, ctlVars
  <2> QED BY <2>7, <2>8, <2>9 DEF TypeOK
<1>6. CASE \E f \in Functions, u \in Upvals, level \in LocalSlots : CaptureNew(f, u, level, s)
  <2> PICK f \in Functions, u \in Upvals, level \in LocalSlots : CaptureNew(f, u, level, s)
    BY <1>6
  <2>1. color' \in [Objects -> Whites \cup {"gray", "black"}]
    BY DEF CaptureNew, TypeOK, HeapType, ProgramType, CollectorType
  <2>2. fields' \in [Objects -> SUBSET Objects] /\ stack' \in [Threads -> [Slots -> FirstClass]]
    BY <1>1, KindsAssumption DEF CaptureNew, Push, TypeOK, HeapType, ProgramType, CollectorType
  <2>3. f \notin Udatas /\ \A o \in Objects \ {f} : fields'[o] = fields[o]
    BY KindsAssumption DEF CaptureNew, TypeOK, HeapType, ProgramType, CollectorType
  <2>4. uvloc' \in [Upvals -> (Threads \X LocalSlots) \cup {Closed}]
    BY <1>1 DEF CaptureNew, TypeOK, HeapType, ProgramType, CollectorType
  <2>5. \A o \in Objects : /\ o \in Udatas => fields'[o] \subseteq Tables
                           /\ o \notin Udatas \cup Functions => fields'[o] = {}
    BY <2>3 DEF TypeOK, HeapType, ProgramType, CollectorType
  <2>6. alive' \subseteq Objects
    BY DEF TypeOK, HeapType, ProgramType, CollectorType, CaptureNew
  <2>7. UNCHANGED <<meta, entries, uvval, gmt, running, udVars, gray, listVars, ctlVars>>
    BY DEF CaptureNew
  <2>8. HeapType'
    BY <2>1, <2>2, <2>5, <2>6, <2>7 DEF TypeOK, HeapType
  <2>9. ProgramType'
    BY <2>2, <2>4, <2>7 DEF TypeOK, ProgramType
  <2>10. CollectorType'
    BY <2>7 DEF TypeOK, CollectorType, udVars, listVars, ctlVars
  <2> QED BY <2>8, <2>9, <2>10 DEF TypeOK
<1>7. CASE \E th \in Threads : NewThread(th, s)
  <2> PICK th \in Threads : NewThread(th, s)
    BY <1>7
  <2>1. stack[cur][GlobalSlot] \in FirstClass /\ th \in FirstClass
    BY <1>1, KindsAssumption DEF TypeOK, HeapType, ProgramType, CollectorType
  <2>2. stack' \in [Threads -> [Slots -> FirstClass]]
    <3>1. [stack EXCEPT ![cur][s] = th] \in [Threads -> [Slots -> FirstClass]]
      BY <1>1, <2>1 DEF TypeOK, HeapType, ProgramType, CollectorType
    <3>2. stack' = [[stack EXCEPT ![cur][s] = th] EXCEPT ![th][GlobalSlot] = stack[cur][GlobalSlot]]
      BY DEF NewThread
    <3> QED BY <3>1, <3>2, <2>1, KindsAssumption
  <2> QED BY <2>2 DEF TypeOK, HeapType, ProgramType, CollectorType, NewThread, Link, udVars, listVars, ctlVars
<1>8. CASE \E str \in Strings : NewString(str, s)
  <2> PICK str \in Strings : NewString(str, s)
    BY <1>8
  <2>1. color' \in [Objects -> Whites \cup {"gray", "black"}]
    BY DEF NewString, Resurrected, TypeOK, HeapType, CollectorType
  <2>2. strsize' \in Nat \ {0}
    BY DEF NewString, luaS_resize, TypeOK, CollectorType
  <2> QED BY <1>1, <2>1, <2>2, KindsAssumption
          DEF TypeOK, HeapType, ProgramType, CollectorType, NewString, Push, udVars, listVars, ctlVars
<1> QED BY <1>2, <1>3, <1>4, <1>5, <1>6, <1>7, <1>8

LEMMA BarrierfType ==
  ASSUME TypeOK, NEW o \in Objects, NEW v \in Values, luaC_barrierf(o, v)
  PROVE  /\ color' \in [Objects -> Whites \cup {"gray", "black"}]
         /\ gray' \subseteq HasGclist
<1>1. CASE MarkFrom({v}, gray)
  BY ZenonT(40), <1>1, MarkFromType DEF TypeOK, HeapType, ProgramType, CollectorType
<1>2. CASE color' = [color EXCEPT ![o] = currentwhite] /\ UNCHANGED gray
  BY <1>2 DEF TypeOK, HeapType, ProgramType, CollectorType
<1>3. CASE UNCHANGED <<color, gray>>
  BY <1>3 DEF TypeOK, HeapType, ProgramType, CollectorType
<1> QED BY <1>1, <1>2, <1>3 DEF luaC_barrierf

LEMMA StoresType ==
  ASSUME TypeOK,
         \/ \E t \in Tables, k \in Held \cup {NoObj}, v \in Held \cup {NoObj, Nil} : SetTable(t, k, v)
         \/ \E t \in Tables, m \in Values : SetTableMeta(t, m)
         \/ \E u \in Udatas, m \in Values : SetUdataMeta(u, m)
         \/ \E m \in Values : SetBasicMeta(m)
         \/ \E u \in Udatas, env \in Tables : SetUdataEnv(u, env)
         \/ \E f \in Functions, old, v \in Values : SetField(f, old, v)
         \/ \E u \in Upvals, v \in Values : SetUpval(u, v)
  PROVE  TypeOK'
<1>1. cur \in Threads /\ Held \subseteq FirstClass \ {NoObj}
  BY CurType, HeldType
<1>2. CASE \E t \in Tables, k \in Held \cup {NoObj}, v \in Held \cup {NoObj, Nil} : SetTable(t, k, v)
  <2> PICK t \in Tables, k \in Held \cup {NoObj}, v \in Held \cup {NoObj, Nil} : SetTable(t, k, v)
    BY <1>2
  <2>1. entries' \in [Objects -> SUBSET (FirstClass \X FirstClass)]
    <3> DEFINE E == {e \in entries[t] : e[1] # k} \cup ({<<k, v>>} \ {<<k, Nil>>})
    <3>1. E \in SUBSET (FirstClass \X FirstClass)
      BY <1>1, KindsAssumption DEF TypeOK, HeapType, ProgramType, CollectorType
    <3> HIDE DEF E
    <3>2. entries' = [entries EXCEPT ![t] = E]
      BY DEF SetTable, E
    <3> QED BY <3>1, <3>2 DEF TypeOK, HeapType, ProgramType, CollectorType
  <2>2. \A o \in Objects : o \notin Tables => entries'[o] = {}
    BY DEF SetTable, TypeOK, HeapType, ProgramType, CollectorType
  <2>3. /\ color' \in [Objects -> Whites \cup {"gray", "black"}]
        /\ grayagain' \subseteq HasGclist
    BY DEF SetTable, luaC_barrierback, TypeOK, HeapType, ProgramType, CollectorType
  <2> QED BY <2>1, <2>2, <2>3, <1>1 DEF TypeOK, HeapType, ProgramType, CollectorType, SetTable, udVars, ctlVars
<1>3. CASE \E t \in Tables, m \in Values : SetTableMeta(t, m)
  <2> PICK t \in Tables, m \in Values : SetTableMeta(t, m)
    BY <1>3
  <2>1. /\ color' \in [Objects -> Whites \cup {"gray", "black"}]
        /\ grayagain' \subseteq HasGclist
    BY SMTT(30) DEF SetTableMeta, luaC_barrierback, TypeOK, HeapType, ProgramType, CollectorType
  <2> QED BY <1>1, <2>1, KindsAssumption DEF TypeOK, HeapType, ProgramType, CollectorType, SetTableMeta, udVars, ctlVars
<1>4. CASE \E u \in Udatas, m \in Values : SetUdataMeta(u, m)
  <2> PICK u \in Udatas, m \in Values : SetUdataMeta(u, m)
    BY <1>4
  <2>1. /\ color' \in [Objects -> Whites \cup {"gray", "black"}]
        /\ gray' \subseteq HasGclist
    BY BarrierfType DEF SetUdataMeta
  <2> QED BY <1>1, <2>1, KindsAssumption DEF TypeOK, HeapType, ProgramType, CollectorType, SetUdataMeta, udVars, listVars, ctlVars
<1>5. CASE \E m \in Values : SetBasicMeta(m)
  BY <1>1, <1>5, KindsAssumption DEF TypeOK, HeapType, ProgramType, CollectorType, SetBasicMeta, udVars, listVars, ctlVars
<1>6. CASE \E u \in Udatas, env \in Tables : SetUdataEnv(u, env)
  BY <1>1, <1>6, KindsAssumption, BarrierfType DEF TypeOK, HeapType, ProgramType, CollectorType, SetUdataEnv, udVars, listVars, ctlVars
<1>7. CASE \E f \in Functions, old, v \in Values : SetField(f, old, v)
  BY <1>1, <1>7, KindsAssumption, BarrierfType DEF TypeOK, HeapType, ProgramType, CollectorType, SetField, udVars, listVars, ctlVars
<1>8. CASE \E u \in Upvals, v \in Values : SetUpval(u, v)
  <2> PICK u \in Upvals, v \in Values : SetUpval(u, v)
    BY <1>8
  <2>1. v \in FirstClass
    BY <1>1, KindsAssumption DEF SetUpval
  <2>2. stack' \in [Threads -> [Slots -> FirstClass]] /\ uvval' \in [Upvals -> FirstClass]
    <3>1. CASE IsOpen(u)
      <4>1. uvloc[u][1] \in Threads /\ uvloc[u][2] \in Slots
        BY <3>1 DEF IsOpen, TypeOK, HeapType, ProgramType, CollectorType
      <4>2. /\ stack' = [stack EXCEPT ![uvloc[u][1]][uvloc[u][2]] = v]
            /\ uvval' = uvval
        BY <3>1 DEF SetUpval
      <4> QED BY <2>1, <4>1, <4>2 DEF TypeOK, HeapType, ProgramType, CollectorType
    <3>2. CASE ~ IsOpen(u)
      <4>1. uvval' = [uvval EXCEPT ![u] = v] /\ stack' = stack
        BY <3>2 DEF SetUpval
      <4>2. stack \in [Threads -> [Slots -> FirstClass]] /\ uvval \in [Upvals -> FirstClass]
        BY DEF TypeOK, ProgramType
      <4> QED BY ONLY <2>1, <4>1, <4>2
    <3> QED BY <3>1, <3>2
  <2>3. color' \in [Objects -> Whites \cup {"gray", "black"}] /\ gray' \subseteq HasGclist
    <3>1. u \in Objects /\ v \in Values /\ luaC_barrierf(u, v)
      BY KindsAssumption DEF SetUpval
    <3> QED BY <3>1, BarrierfType
  <2> QED BY <2>2, <2>3 DEF TypeOK, HeapType, ProgramType, CollectorType, SetUpval, udVars, listVars, ctlVars
<1> QED BY <1>2, <1>3, <1>4, <1>5, <1>6, <1>7, <1>8

LEMMA ControlType ==
  ASSUME TypeOK,
         \/ \E th \in Threads : Resume(th)
         \/ Yield
         \/ \E S \in SUBSET OpenUpvals : CloseUpvals(S)
         \/ FullGC
  PROVE  TypeOK'
<1>1. CASE \E th \in Threads : Resume(th)
  <2>1. running' \in Seq(Threads) \ {<<>>}
    <3> PICK th \in Threads : Resume(th)
      BY <1>1
    <3>1. running' = Append(running, th) /\ running \in Seq(Threads)
      BY DEF TypeOK, HeapType, ProgramType, CollectorType, Resume
    <3>2. running' \in Seq(Threads) /\ Len(running') = Len(running) + 1 /\ Len(running) \in Nat
      BY <3>1
    <3> QED BY <3>2
  <2> QED BY <1>1, <2>1 DEF TypeOK, HeapType, ProgramType, CollectorType, Resume, heapVars, udVars, listVars, ctlVars
<1>2. CASE Yield
  <2>1. running' \in Seq(Threads) /\ Len(running') = Len(running) - 1 /\ Len(running) > 1
    BY <1>2 DEF TypeOK, HeapType, ProgramType, CollectorType, Yield
  <2>2. running' # <<>>
    BY <2>1
  <2> QED BY <1>2, <2>1, <2>2 DEF TypeOK, HeapType, ProgramType, CollectorType, Yield, heapVars, udVars, listVars, ctlVars
<1>3. CASE \E S \in SUBSET OpenUpvals : CloseUpvals(S)
  <2> PICK S \in SUBSET OpenUpvals : CloseUpvals(S)
    BY <1>3
  <2>1. \A u \in Upvals : UpvalValue(u) \in FirstClass
    BY DEF UpvalValue, IsOpen, TypeOK, HeapType, ProgramType, CollectorType
  <2>2. OpenUpvals \subseteq Upvals
    BY DEF OpenUpvals
  <2>3. /\ color' \in [Objects -> Whites \cup {"gray", "black"}]
        /\ gray' \subseteq HasGclist
    BY <2>1, <2>2 DEF CloseUpvals, luaF_close, ColorOnceMarked, TypeOK, HeapType, ProgramType, CollectorType
  <2> QED BY <2>1, <2>2, <2>3 DEF TypeOK, HeapType, ProgramType, CollectorType, CloseUpvals, luaF_close, udVars, listVars, ctlVars
<1>4. CASE FullGC
  BY <1>4, KindsAssumption DEF TypeOK, HeapType, ProgramType, CollectorType, FullGC, Rootgc, heapVars, udVars
<1> QED BY <1>1, <1>2, <1>3, <1>4

(* What luaC_separateudata and the sweep leave of a list of userdata.      *)
LEMMA FilteredType ==
  ASSUME NEW A, NEW s \in Seq(A), NEW S \in SUBSET A, NEW q \in Filtered(s, S)
  PROVE  q \in Seq(A) /\ Range(q) = S
<1>1. PICK n \in 0..Len(s) : q \in [1..n -> S]
  BY DEF Filtered
<1>2. n \in Nat /\ q \in Seq(S)
  BY <1>1
<1> QED BY <1>2 DEF Filtered

LEMMA ConcatRange ==
  ASSUME NEW A, NEW s \in Seq(A), NEW q \in Seq(A)
  PROVE  s \o q \in Seq(A) /\ Range(s \o q) = Range(s) \cup Range(q)
<1>1. /\ s \o q \in Seq(A)
      /\ DOMAIN (s \o q) = 1..(Len(s) + Len(q)) /\ DOMAIN s = 1..Len(s) /\ DOMAIN q = 1..Len(q)
      /\ \A i \in 1..(Len(s) + Len(q)) : (s \o q)[i] = IF i <= Len(s) THEN s[i] ELSE q[i - Len(s)]
  OBVIOUS
<1>2. ASSUME NEW x \in Range(s) PROVE x \in Range(s \o q)
  <2>1. PICK i \in 1..Len(s) : x = s[i]
    BY <1>1 DEF Range
  <2>2. i \in 1..(Len(s) + Len(q)) /\ (s \o q)[i] = s[i]
    BY <1>1
  <2> QED BY <1>1, <2>1, <2>2 DEF Range
<1>3. ASSUME NEW x \in Range(q) PROVE x \in Range(s \o q)
  <2>1. PICK i \in 1..Len(q) : x = q[i]
    BY <1>1 DEF Range
  <2>2. i + Len(s) \in 1..(Len(s) + Len(q)) /\ (s \o q)[i + Len(s)] = q[i]
    BY <1>1
  <2> QED BY <1>1, <2>1, <2>2 DEF Range
<1>4. ASSUME NEW x \in Range(s \o q) PROVE x \in Range(s) \cup Range(q)
  <2>1. PICK i \in 1..(Len(s) + Len(q)) : x = (s \o q)[i]
    BY <1>1 DEF Range
  <2>2. CASE i <= Len(s)
    BY <1>1, <2>1, <2>2 DEF Range
  <2>3. CASE i > Len(s)
    <3>1. i - Len(s) \in 1..Len(q) /\ x = q[i - Len(s)]
      BY <1>1, <2>1, <2>3
    <3> QED BY <1>1, <3>1 DEF Range
  <2> QED BY <2>2, <2>3
<1> QED BY <1>1, <1>2, <1>3, <1>4

LEMMA RangeType ==
  ASSUME NEW A, NEW s \in Seq(A)
  PROVE  Range(s) \subseteq A
  BY DEF Range

LEMMA RefsType ==
  ASSUME TypeOK, NEW o \in Objects
  PROVE  OwnRefs(o) \subseteq Values /\ Refs(o) \subseteq Objects /\ StrongRefs(o) \subseteq Refs(o)
<1>1. Resumed(o) \subseteq Threads
  BY DEF TypeOK, ProgramType, Resumed
<1>2. o \in Threads => Range(stack[o]) \subseteq FirstClass
  BY DEF TypeOK, ProgramType, Range
<1>3. o \in Upvals => UpvalValue(o) \in FirstClass
  BY DEF TypeOK, ProgramType, UpvalValue, IsOpen
<1>4. fields[o] \subseteq Objects /\ meta[o] \in Values
  BY DEF TypeOK, HeapType
<1>5. OwnRefs(o) \subseteq Values
  BY <1>1, <1>2, <1>3, <1>4 DEF OwnRefs
<1>6. Keys(o) \subseteq FirstClass /\ Vals(o) \subseteq FirstClass
  BY DEF Keys, Vals, TypeOK, HeapType
<1>7. Refs(o) \subseteq Objects
  BY <1>5, <1>6 DEF Refs
<1>8. StrongRefs(o) \subseteq Refs(o)
  BY DEF Refs, StrongRefs
<1> QED BY <1>5, <1>7, <1>8

LEMMA MarkStepsType ==
  ASSUME TypeOK,
         \/ MarkRoot \/ RemarkUpvals \/ RemarkWeak \/ RemarkAgain
         \/ \E o \in Objects : PropagateMark(o)
  PROVE  TypeOK'
<1>1. cur \in Threads /\ stack[MainThread][GlobalSlot] \in Values
  BY CurType, KindsAssumption DEF TypeOK, ProgramType
<1>2. CASE MarkRoot
  <2>1. {MainThread, stack[MainThread][GlobalSlot], Registry, gmt} \in SUBSET Values
    BY <1>1, KindsAssumption DEF TypeOK, ProgramType
  <2>2. /\ color' \in [Objects -> Whites \cup {"gray", "black"}]
        /\ gray' \subseteq HasGclist
    BY <1>2, <2>1, MarkFromType DEF MarkRoot
  <2> QED BY <1>2, <2>2 DEF MarkRoot, TypeOK, HeapType, ProgramType, CollectorType, heapVars, udVars
<1>3. CASE RemarkUpvals
  <2>1. {UpvalValue(u) : u \in {w \in OpenUpvals : color[w] = "gray"}} \in SUBSET Values
    BY DEF TypeOK, ProgramType, UpvalValue, OpenUpvals, IsOpen
  <2>2. /\ color' \in [Objects -> Whites \cup {"gray", "black"}]
        /\ gray' \subseteq HasGclist
    BY <1>3, <2>1, MarkFromType DEF RemarkUpvals
  <2> QED BY <1>3, <2>2
          DEF RemarkUpvals, AtomicStage, TypeOK, HeapType, ProgramType, CollectorType, heapVars, udVars
<1>4. CASE RemarkWeak
  <2>1. {cur, gmt} \in SUBSET Values /\ weak \in SUBSET HasGclist
    BY <1>1 DEF TypeOK, ProgramType, CollectorType
  <2>2. /\ color' \in [Objects -> Whites \cup {"gray", "black"}]
        /\ gray' \subseteq HasGclist
    BY <1>4, <2>1, MarkFromType DEF RemarkWeak
  <2> QED BY <1>4, <2>2
          DEF RemarkWeak, AtomicStage, TypeOK, HeapType, ProgramType, CollectorType, heapVars, udVars
<1>5. CASE RemarkAgain
  BY <1>5 DEF RemarkAgain, AtomicStage, TypeOK, HeapType, ProgramType, CollectorType, heapVars, udVars
<1>6. CASE \E o \in Objects : PropagateMark(o)
  <2> PICK o \in Objects : PropagateMark(o)
    BY <1>6
  <2>1. Marked(StrongRefs(o)) \subseteq Objects
    BY RefsType, MarkedType
  <2>2. /\ color' \in [Objects -> Whites \cup {"gray", "black"}]
        /\ gray' \subseteq HasGclist
    BY <2>1 DEF PropagateMark, ColorOnceMarked, TypeOK, HeapType, CollectorType
  <2>3. weak' \subseteq Tables /\ grayagain' \subseteq HasGclist
    BY DEF PropagateMark, WeakMode, TypeOK, CollectorType
  <2> QED BY <2>2, <2>3
          DEF PropagateMark, TypeOK, HeapType, ProgramType, CollectorType, heapVars, udVars, ctlVars
<1> QED BY <1>2, <1>3, <1>4, <1>5, <1>6

LEMMA SeparateType ==
  ASSUME TypeOK, NEW all \in BOOLEAN, luaC_separateudata(all)
  PROVE  /\ udlist' \in Seq(Udatas) /\ tmudata' \in Seq(Udatas) /\ finalized' \subseteq Udatas
         /\ Range(tmudata') = Range(tmudata) \cup {u \in NotFinalized(all) : HasFinalizer(u)}
         /\ Range(udlist') = Range(udlist) \ {u \in NotFinalized(all) : HasFinalizer(u)}
<1> DEFINE due == {u \in NotFinalized(all) : HasFinalizer(u)}
<1>1. udlist \in Seq(Udatas) /\ tmudata \in Seq(Udatas) /\ finalized \subseteq Udatas
  BY DEF TypeOK, CollectorType
<1>2. Range(udlist) \subseteq Udatas
  BY <1>1, RangeType
<1>3. NotFinalized(all) \subseteq Udatas /\ due \in SUBSET Udatas
  BY <1>2 DEF NotFinalized
<1>4. PICK q \in Filtered(udlist, due) : tmudata' = tmudata \o q
  BY DEF luaC_separateudata
<1>5. q \in Seq(Udatas) /\ Range(q) = due
  BY <1>1, <1>3, FilteredType
<1>6. tmudata' \in Seq(Udatas) /\ Range(tmudata') = Range(tmudata) \cup due
  BY <1>1, <1>4, <1>5, ConcatRange
<1>7. udlist' \in Filtered(udlist, Range(udlist) \ due)
  BY DEF luaC_separateudata
<1>8. udlist' \in Seq(Udatas) /\ Range(udlist') = Range(udlist) \ due
  BY <1>1, <1>2, <1>7, FilteredType
<1> QED BY <1>1, <1>3, <1>6, <1>8 DEF luaC_separateudata

LEMMA MarkTmuType ==
  ASSUME TypeOK, MarkTmu
  PROVE  TypeOK'
<1>1. udlist' \in Seq(Udatas) /\ tmudata' \in Seq(Udatas) /\ finalized' \subseteq Udatas
  BY SeparateType DEF MarkTmu
<1>2. /\ color' \in [Objects -> Whites \cup {"gray", "black"}]
      /\ gray' \subseteq HasGclist
  BY DEF MarkTmu, TypeOK, HeapType
<1> QED BY <1>1, <1>2
        DEF MarkTmu, AtomicStage, TypeOK, HeapType, ProgramType, CollectorType, heapVars, udVars

LEMMA ClearAndFlipType ==
  ASSUME TypeOK, NEW inarray, ClearAndFlip(inarray)
  PROVE  TypeOK'
<1>1. entries' \in [Objects -> SUBSET (FirstClass \X FirstClass)]
  BY DEF ClearAndFlip, TypeOK, HeapType
<1>2. \A o \in Objects : entries'[o] \subseteq entries[o]
  BY DEF ClearAndFlip
<1>3. color' \in [Objects -> Whites \cup {"gray", "black"}]
  BY DEF ClearAndFlip, TypeOK, HeapType
<1>4. currentwhite' \in Whites /\ unswept' \subseteq Objects
  BY DEF ClearAndFlip, otherwhite, Rootgc, TypeOK, HeapType
<1> QED BY <1>1, <1>2, <1>3, <1>4
        DEF ClearAndFlip, TypeOK, HeapType, ProgramType, CollectorType, udVars

LEMMA SweepListType ==
  ASSUME TypeOK, NEW B \in SUBSET Objects, SweepList(B)
  PROVE  /\ HeapType' /\ ProgramType'
         /\ udlist' \in Seq(Udatas) /\ tmudata' \in Seq(Udatas) /\ finalized' \subseteq Udatas
<1> DEFINE F == {o \in B : isdead(o)}
<1>1. Free(F)
  BY DEF SweepList
<1>2. udlist' \in Seq(Udatas)
  <2>1. udlist \in Seq(Udatas) /\ Range(udlist) \subseteq Udatas
    BY RangeType DEF TypeOK, CollectorType
  <2> QED BY <1>1, <2>1, FilteredType DEF Free
<1>3. tmudata' \in Seq(Udatas) /\ finalized' \subseteq Udatas
  BY <1>1 DEF Free, TypeOK, CollectorType
<1>4. color' \in [Objects -> Whites \cup {"gray", "black"}]
  BY DEF SweepList, TypeOK, HeapType, CollectorType
<1>5. HeapType'
  BY <1>1, <1>4 DEF Free, TypeOK, HeapType
<1>6. \A u \in Upvals : UpvalValue(u) \in FirstClass
  BY DEF TypeOK, ProgramType, UpvalValue, IsOpen
<1>7. ProgramType'
  BY <1>1, <1>6, KindsAssumption DEF Free, TypeOK, ProgramType
<1> QED BY <1>2, <1>3, <1>5, <1>7

LEMMA SweepStepsType ==
  ASSUME TypeOK,
         \/ SweepString
         \/ \E o \in Objects : Sweep(o)
         \/ \E s \in LocalSlots : GCTM(s)
         \/ EndCycle
  PROVE  TypeOK'
<1>1. CASE SweepString
  <2>1. {s \in alive \cap Strings : Hash[s] % strsize = sweepstrgc} \in SUBSET Objects
    OBVIOUS
  <2>2. /\ HeapType' /\ ProgramType'
        /\ udlist' \in Seq(Udatas) /\ tmudata' \in Seq(Udatas) /\ finalized' \subseteq Udatas
    BY <1>1, <2>1, SweepListType DEF SweepString
  <2> QED BY <1>1, <2>2 DEF SweepString, TypeOK, CollectorType
<1>2. CASE \E o \in Objects : Sweep(o)
  <2> PICK o \in Objects : Sweep(o)
    BY <1>2
  <2>1. {o} \cup UpvalsOf({o}) \in SUBSET Objects
    BY DEF UpvalsOf, TypeOK, CollectorType, OpenUpvals
  <2>2. /\ HeapType' /\ ProgramType'
        /\ udlist' \in Seq(Udatas) /\ tmudata' \in Seq(Udatas) /\ finalized' \subseteq Udatas
    BY <2>1, SweepListType DEF Sweep
  <2>3. strsize' \in Nat \ {0}
    <3>1. strsize \in Nat \ {0} /\ MinStrTabSize \in Nat \ {0}
      BY FieldsAssumption DEF TypeOK, CollectorType
    <3>2. CASE UNCHANGED strsize
      BY <3>1, <3>2
    <3>3. CASE checkSizes
      BY <3>1, <3>3 DEF checkSizes
    <3> QED BY <3>2, <3>3 DEF Sweep
  <2> QED BY <2>2, <2>3 DEF Sweep, TypeOK, CollectorType
<1>3. CASE \E s \in LocalSlots : GCTM(s)
  <2> PICK s \in LocalSlots : GCTM(s)
    BY <1>3
  <2> DEFINE u == Head(tmudata)
  <2>1. u \in Udatas /\ Tail(tmudata) \in Seq(Udatas) /\ udlist \in Seq(Udatas)
    BY DEF GCTM, TypeOK, CollectorType
  <2>2. tmudata' = Tail(tmudata) /\ udlist' = <<u>> \o udlist
    BY DEF GCTM
  <2>3. tmudata' \in Seq(Udatas) /\ udlist' \in Seq(Udatas)
    BY <2>1, <2>2
  <2>4. color' \in [Objects -> Whites \cup {"gray", "black"}]
    BY DEF GCTM, TypeOK, HeapType, CollectorType
  <2>5. stack' \in [Threads -> [Slots -> FirstClass]]
    <3>1. u \in FirstClass /\ cur \in Threads
      BY <2>1, CurType, KindsAssumption
    <3>2. stack' = stack \/ stack' = [stack EXCEPT ![cur][s] = u]
      BY DEF GCTM, OnTop, Push
    <3>3. stack \in [Threads -> [Slots -> FirstClass]]
      BY DEF TypeOK, ProgramType
    <3> QED BY ONLY <3>1, <3>2, <3>3
  <2> QED BY <2>3, <2>4, <2>5
          DEF GCTM, TypeOK, HeapType, ProgramType, CollectorType, heapVars, listVars, ctlVars
<1>4. CASE EndCycle
  BY <1>4 DEF EndCycle, TypeOK, HeapType, ProgramType, CollectorType, heapVars, udVars, listVars
<1> QED BY <1>1, <1>2, <1>3, <1>4

(* Every operation and every collector step keeps the types.               *)
LEMMA NextType ==
  ASSUME TypeOK, [Next]_vars
  PROVE  TypeOK'
<1>1. CASE Mutator
  <2>1. CASE \E s \in LocalSlots :
               \/ \E v \in Held \cup {NoObj, cur} : Move(s, v)
               \/ \E o, v \in Objects : Load(o, v, s)
               \/ LoadBasicMetatable(s)
               \/ \E th \in Threads, v \in Held : StoreInThread(th, s, v)
    BY <2>1, StackOpsType
  <2>2. CASE \E s \in LocalSlots :
               \/ \E t \in Tables : NewTable(t, s)
               \/ \E u \in Udatas, env \in Tables : NewUdata(u, env, s)
               \/ \E f \in Functions : \E S \in SUBSET (Held \cup Upvals) : NewFunction(f, S, s)
               \/ \E f \in Functions, u \in Upvals : CaptureOpen(f, u, s)
               \/ \E f \in Functions, u \in Upvals, level \in LocalSlots : CaptureNew(f, u, level, s)
               \/ \E th \in Threads : NewThread(th, s)
               \/ \E str \in Strings : NewString(str, s)
    BY <2>2, NewObjectsType
  <2>3. CASE \E t \in Tables, k \in (Held \cap AsKeys) \cup {NoObj} :
               \E v \in Held \cup {NoObj, Nil} : SetTable(t, k, v)
    BY <2>3, StoresType
  <2>4. CASE \/ \E t \in Tables, m \in Values : SetTableMeta(t, m)
             \/ \E u \in Udatas, m \in Values : SetUdataMeta(u, m)
             \/ \E m \in Values : SetBasicMeta(m)
             \/ \E u \in Udatas, env \in Tables : SetUdataEnv(u, env)
             \/ \E f \in Functions, old, v \in Values : SetField(f, old, v)
             \/ \E u \in Upvals, v \in Values : SetUpval(u, v)
    BY <2>4, StoresType
  <2>5. CASE (\E th \in Threads : Resume(th)) \/ Yield \/ \E S \in SUBSET OpenUpvals : CloseUpvals(S)
    BY <2>5, ControlType
  <2>6. CASE \E th \in Threads, t \in Tables : SetGlobals(th, t)
    BY <2>6, KindsAssumption
       DEF SetGlobals, TypeOK, HeapType, ProgramType, CollectorType, heapVars, udVars, listVars, ctlVars
  <2> QED BY <1>1, <2>1, <2>2, <2>3, <2>4, <2>5, <2>6 DEF Mutator
<1>2. CASE Collector
  BY <1>2, MarkStepsType, MarkTmuType, ClearAndFlipType, SweepStepsType DEF Collector
<1>3. CASE FullGC
  BY <1>3, ControlType
<1>4. CASE UNCHANGED vars
  BY <1>4 DEF vars, heapVars, udVars, listVars, ctlVars, TypeOK, HeapType, ProgramType, CollectorType
<1> QED BY <1>1, <1>2, <1>3, <1>4 DEF Next

(* The variables keep their types for every set of objects.                *)
THEOREM TypeCorrect == Spec => []TypeOK
<1>1. Init => TypeOK
  BY InitType
<1>2. TypeOK /\ [Next]_vars => TypeOK'
  BY NextType
<1> QED BY <1>1, <1>2, PTL DEF Spec

(***************************************************************************)
(* The lists of LuaGC: the two circular lists of userdata                  *)
(* (after g->mainthread, and g->tmudata) and what is left of rootgc.       *)
(***************************************************************************)

Injective(s) == \A i, j \in DOMAIN s : s[i] = s[j] => i = j

(***************************************************************************)
(* Sequences without repetitions.                                          *)
(***************************************************************************)

(* A part of a list, in its order, has no repetition if the list has none. *)
LEMMA FilteredInjective ==
  ASSUME NEW A, NEW s \in Seq(A), NEW S \in SUBSET A, NEW q \in Filtered(s, S), Injective(s)
  PROVE  Injective(q)
<1>1. q \in Seq(A)
  BY FilteredType
<1>2. \A i, j \in DOMAIN q : i < j => \E k, l \in DOMAIN s : k < l /\ s[k] = q[i] /\ s[l] = q[j]
  BY DEF Filtered
<1>3. ASSUME NEW i \in DOMAIN q, NEW j \in DOMAIN q, i < j PROVE q[i] # q[j]
  <2>1. PICK k, l \in DOMAIN s : k < l /\ s[k] = q[i] /\ s[l] = q[j]
    BY <1>2, <1>3
  <2>2. k \in Int /\ l \in Int
    OBVIOUS
  <2>3. k # l
    BY <2>1, <2>2
  <2> QED BY <2>1, <2>3 DEF Injective
<1>4. \A i, j \in DOMAIN q : i \in Int /\ j \in Int
  BY <1>1
<1>5. \A i, j \in DOMAIN q : i # j => i < j \/ j < i
  BY <1>4
<1> QED BY <1>3, <1>5 DEF Injective

(* Two lists without a common member, one after the other.                 *)
LEMMA ConcatInjective ==
  ASSUME NEW A, NEW s \in Seq(A), NEW q \in Seq(A), Injective(s), Injective(q),
         Range(s) \cap Range(q) = {}
  PROVE  Injective(s \o q)
<1>1. /\ DOMAIN (s \o q) = 1..(Len(s) + Len(q)) /\ DOMAIN s = 1..Len(s) /\ DOMAIN q = 1..Len(q)
      /\ \A i \in 1..(Len(s) + Len(q)) : (s \o q)[i] = IF i <= Len(s) THEN s[i] ELSE q[i - Len(s)]
      /\ Len(s) \in Nat /\ Len(q) \in Nat
  OBVIOUS
<1>2. ASSUME NEW i \in 1..(Len(s) + Len(q)), NEW j \in 1..(Len(s) + Len(q)),
             (s \o q)[i] = (s \o q)[j]
      PROVE  i = j
  <2>1. CASE i <= Len(s) /\ j <= Len(s)
    <3>1. i \in DOMAIN s /\ j \in DOMAIN s /\ s[i] = s[j]
      BY <1>1, <1>2, <2>1
    <3> QED BY <3>1 DEF Injective
  <2>2. CASE i > Len(s) /\ j > Len(s)
    <3>1. i - Len(s) \in DOMAIN q /\ j - Len(s) \in DOMAIN q /\ q[i - Len(s)] = q[j - Len(s)]
      BY <1>1, <1>2, <2>2
    <3>2. i - Len(s) = j - Len(s)
      BY <3>1 DEF Injective
    <3> QED BY <1>1, <3>2
  <2>3. CASE i <= Len(s) /\ j > Len(s)
    <3>1. i \in DOMAIN s /\ j - Len(s) \in DOMAIN q /\ s[i] = q[j - Len(s)]
      BY <1>1, <1>2, <2>3
    <3> QED BY <3>1 DEF Range
  <2>4. CASE i > Len(s) /\ j <= Len(s)
    <3>1. j \in DOMAIN s /\ i - Len(s) \in DOMAIN q /\ s[j] = q[i - Len(s)]
      BY <1>1, <1>2, <2>4
    <3> QED BY <3>1 DEF Range
  <2> QED BY <1>1, <2>1, <2>2, <2>3, <2>4
<1> QED BY <1>1, <1>2 DEF Injective

(* A new first element.                                                    *)
LEMMA ConsInjective ==
  ASSUME NEW A, NEW s \in Seq(A), NEW u \in A, Injective(s), u \notin Range(s)
  PROVE  Injective(<<u>> \o s) /\ Range(<<u>> \o s) = {u} \cup Range(s)
<1>1. <<u>> \in Seq(A) /\ Range(<<u>>) = {u} /\ Injective(<<u>>)
  BY DEF Range, Injective
<1>2. Range(<<u>>) \cap Range(s) = {}
  BY <1>1
<1>3. Injective(<<u>> \o s)
  BY <1>1, <1>2, ConcatInjective
<1>4. <<u>> \o s \in Seq(A) /\ Range(<<u>> \o s) = Range(<<u>>) \cup Range(s)
  <2>1. <<u>> \in Seq(A)
    BY <1>1
  <2> QED BY ZenonT(40), <2>1, ConcatRange
<1> QED BY <1>1, <1>3, <1>4

(* The first element is taken away.                                        *)
LEMMA TailInjective ==
  ASSUME NEW A, NEW s \in Seq(A), s # <<>>, Injective(s)
  PROVE  /\ Injective(Tail(s))
         /\ Head(s) \in Range(s) /\ Range(Tail(s)) = Range(s) \ {Head(s)}
<1>1. /\ DOMAIN s = 1..Len(s) /\ DOMAIN Tail(s) = 1..(Len(s) - 1) /\ Len(s) \in Nat /\ Len(s) >= 1
      /\ Head(s) = s[1] /\ \A i \in 1..(Len(s) - 1) : Tail(s)[i] = s[i + 1]
  OBVIOUS
<1>2. Injective(Tail(s))
  <2>1. ASSUME NEW i \in 1..(Len(s) - 1), NEW j \in 1..(Len(s) - 1), Tail(s)[i] = Tail(s)[j]
        PROVE  i = j
    <3>1. i + 1 \in DOMAIN s /\ j + 1 \in DOMAIN s /\ s[i + 1] = s[j + 1]
      BY <1>1, <2>1
    <3>2. i + 1 = j + 1
      BY <3>1 DEF Injective
    <3> QED BY <1>1, <3>2
  <2> QED BY <1>1, <2>1 DEF Injective
<1>3. ASSUME NEW x \in Range(Tail(s)) PROVE x \in Range(s) /\ x # Head(s)
  <2>1. PICK i \in 1..(Len(s) - 1) : x = s[i + 1]
    BY <1>1 DEF Range
  <2>2. i + 1 \in DOMAIN s /\ 1 \in DOMAIN s /\ i + 1 # 1
    BY <1>1
  <2> QED BY <1>1, <2>1, <2>2 DEF Range, Injective
<1>4. ASSUME NEW x \in Range(s), x # Head(s) PROVE x \in Range(Tail(s))
  <2>1. PICK i \in 1..Len(s) : x = s[i]
    BY <1>1 DEF Range
  <2>2. i # 1
    BY <1>1, <1>4, <2>1
  <2>3. i - 1 \in 1..(Len(s) - 1) /\ Tail(s)[i - 1] = s[(i - 1) + 1] /\ (i - 1) + 1 = i
    BY <1>1, <2>2
  <2> QED BY <1>1, <2>1, <2>3 DEF Range
<1>5. Head(s) \in Range(s)
  BY <1>1 DEF Range
<1> QED BY <1>2, <1>3, <1>4, <1>5

(***************************************************************************)
(* The invariant, and what keeps it.                                       *)
(***************************************************************************)
ListsInv == TypeOK /\ UdataLists /\ NeverBlack /\ UnsweptListed

LEMMA InitLists == Init => ListsInv
<1> SUFFICES ASSUME Init PROVE ListsInv
  OBVIOUS
<1>1. TypeOK
  BY InitType
<1>2. UdataLists
  BY KindsAssumption DEF Init, InitWith, NewState, UdataLists, Range
<1>3. NeverBlack
  BY DEF Init, InitWith, NewState, NeverBlack, OpenUpvals, isblack
<1>4. UnsweptListed
  BY DEF Init, InitWith, NewState, UnsweptListed
<1> QED BY <1>1, <1>2, <1>3, <1>4 DEF ListsInv

(* A step that makes and frees no userdata, and leaves the lists alone.     *)
LEMMA ListsKept ==
  ASSUME ListsInv, UNCHANGED <<udlist, tmudata, finalized>>, alive' \cap Udatas = alive \cap Udatas
  PROVE  UdataLists'
<1>1. finalized \subseteq Udatas
  BY DEF ListsInv, TypeOK, CollectorType
<1> QED BY <1>1 DEF ListsInv, UdataLists, Range

(* A step that frees nothing that is still to be swept, opens no upvalue   *)
(* that existed and does not change the state of the collector.            *)
LEMMA UnsweptKept ==
  ASSUME ListsInv, UNCHANGED <<tmudata, unswept, gcstate>>,
         unswept \subseteq alive', OpenUpvals' \cap alive \subseteq OpenUpvals
  PROVE  UnsweptListed'
<1>1. Range(tmudata') = Range(tmudata)
  OBVIOUS
<1> QED BY <1>1 DEF ListsInv, UnsweptListed

(* reallymarkobject blackens userdata and closed upvalues only.            *)
LEMMA MarkFromBlack ==
  ASSUME ListsInv, NEW S \in SUBSET Values, NEW G, MarkFrom(S, G),
         NEW o \in Threads \cup Strings \cup OpenUpvals
  PROVE  color'[o] # "black"
<1>1. o \in Objects /\ color[o] # "black"
  BY DEF ListsInv, NeverBlack, isblack, OpenUpvals
<1>2. o \notin Udatas /\ (o \in Upvals => IsOpen(o))
  BY KindsAssumption DEF OpenUpvals
<1> QED BY <1>1, <1>2 DEF MarkFrom, Recolor, ColorOnceMarked

LEMMA BarrierfBlack ==
  ASSUME ListsInv, NEW p \in Objects, NEW v \in Values, luaC_barrierf(p, v),
         NEW o \in Threads \cup Strings \cup OpenUpvals
  PROVE  color'[o] # "black"
<1>1. o \in Objects /\ color[o] # "black" /\ currentwhite # "black"
  BY DEF ListsInv, NeverBlack, isblack, OpenUpvals, TypeOK, CollectorType
<1>2. CASE MarkFrom({v}, gray)
  BY <1>2, MarkFromBlack
<1>3. CASE color' = [color EXCEPT ![p] = currentwhite]
  BY <1>1, <1>3 DEF ListsInv, TypeOK, HeapType
<1>4. CASE color' = color
  BY <1>1, <1>4
<1> QED BY <1>2, <1>3, <1>4 DEF luaC_barrierf

LEMMA BarrierbackBlack ==
  ASSUME ListsInv, NEW t \in Objects, NEW S, luaC_barrierback(t, S),
         NEW o \in Threads \cup Strings \cup OpenUpvals
  PROVE  color'[o] # "black"
<1>1. o \in Objects /\ color[o] # "black"
  BY DEF ListsInv, NeverBlack, isblack, OpenUpvals
<1> QED BY <1>1 DEF luaC_barrierback, ListsInv, TypeOK, HeapType

(* A step that makes, frees, opens and closes nothing.                     *)
LEMMA HeapKept ==
  ASSUME ListsInv, UNCHANGED <<alive, uvloc, udlist, tmudata, finalized, unswept>>,
         gcstate' = gcstate \/ {gcstate, gcstate'} \cap SweepStates = {},
         \A o \in Threads \cup Strings \cup OpenUpvals : color'[o] # "black"
  PROVE  UdataLists' /\ NeverBlack' /\ UnsweptListed'
<1>1. OpenUpvals' = OpenUpvals
  BY DEF OpenUpvals, IsOpen
<1>2. UdataLists'
  BY ListsKept
<1>3. NeverBlack'
  BY <1>1 DEF NeverBlack, isblack
<1>4. UnsweptListed'
  <2>1. unswept \subseteq alive
    BY DEF ListsInv, UnsweptListed
  <2>2. CASE gcstate' = gcstate
    BY <1>1, <2>1, <2>2, UnsweptKept
  <2>3. CASE {gcstate, gcstate'} \cap SweepStates = {}
    BY <2>3 DEF ListsInv, UnsweptListed
  <2> QED BY <2>2, <2>3
<1> QED BY <1>2, <1>3, <1>4

(***************************************************************************)
(* The operations of the program.                                          *)
(***************************************************************************)
LEMMA StackOpsLists ==
  ASSUME ListsInv,
         \/ \E s \in LocalSlots :
              \/ \E v \in Held \cup {NoObj, cur} : Move(s, v)
              \/ \E o, v \in Objects : Load(o, v, s)
              \/ LoadBasicMetatable(s)
              \/ \E th \in Threads, v \in Held : StoreInThread(th, s, v)
         \/ \E th \in Threads, t \in Tables : SetGlobals(th, t)
         \/ \E m \in Values : SetBasicMeta(m)
         \/ \E th \in Threads : Resume(th)
         \/ Yield
  PROVE  UdataLists' /\ NeverBlack' /\ UnsweptListed'
<1>1. UNCHANGED <<alive, uvloc, color, udlist, tmudata, finalized, unswept, gcstate>>
  BY DEF Move, Load, LoadBasicMetatable, StoreInThread, SetGlobals, SetBasicMeta, Resume, Yield,
         heapVars, udVars, listVars, ctlVars
<1>2. \A o \in Threads \cup Strings \cup OpenUpvals : color'[o] # "black"
  BY <1>1 DEF ListsInv, NeverBlack, isblack
<1> QED BY <1>1, <1>2, HeapKept

LEMMA StoresLists ==
  ASSUME ListsInv,
         \/ \E t \in Tables, k \in Held \cup {NoObj}, v \in Held \cup {NoObj, Nil} : SetTable(t, k, v)
         \/ \E t \in Tables, m \in Values : SetTableMeta(t, m)
         \/ \E u \in Udatas, m \in Values : SetUdataMeta(u, m)
         \/ \E u \in Udatas, env \in Tables : SetUdataEnv(u, env)
         \/ \E f \in Functions, old, v \in Values : SetField(f, old, v)
         \/ \E u \in Upvals, v \in Values : SetUpval(u, v)
  PROVE  UdataLists' /\ NeverBlack' /\ UnsweptListed'
<1>1. UNCHANGED <<alive, uvloc, udlist, tmudata, finalized, unswept, gcstate>>
  BY DEF SetTable, SetTableMeta, SetUdataMeta, SetUdataEnv, SetField, SetUpval,
         udVars, listVars, ctlVars
<1>2. \/ \E p \in Objects, v \in Values : luaC_barrierf(p, v)
      \/ \E t \in Objects : \E S : luaC_barrierback(t, S)
  BY DEF SetTable, SetTableMeta, SetUdataMeta, SetUdataEnv, SetField, SetUpval
<1>3. \A o \in Threads \cup Strings \cup OpenUpvals : color'[o] # "black"
  BY <1>2, BarrierfBlack, BarrierbackBlack
<1> QED BY <1>1, <1>3, HeapKept

(* What had its color keeps it, or gets the current white, as luaC_link     *)
(* and a resurrection do.                                                  *)
LEMMA NewColors ==
  ASSUME ListsInv,
         \A o \in Threads \cup Strings \cup OpenUpvals' :
           \/ color'[o] = currentwhite
           \/ color'[o] = color[o] /\ (o \in OpenUpvals' => o \in OpenUpvals)
  PROVE  NeverBlack'
<1>1. \A o \in Threads \cup Strings \cup OpenUpvals : color[o] # "black"
  BY DEF ListsInv, NeverBlack, isblack
<1>2. currentwhite # "black"
  BY DEF ListsInv, TypeOK, CollectorType
<1>3. \A o \in Threads \cup Strings \cup OpenUpvals' : color'[o] # "black"
  BY <1>1, <1>2, KindsAssumption DEF OpenUpvals
<1> QED BY <1>3 DEF NeverBlack, isblack

(* A step that makes the objects of N, some of them open upvalues.          *)
LEMMA MadeLists ==
  ASSUME ListsInv, NEW N \in SUBSET Objects, N \cap Udatas = {}, alive' = alive \cup N,
         OpenUpvals' \subseteq OpenUpvals \cup (Upvals \ alive),
         UNCHANGED <<udlist, tmudata, finalized, unswept, gcstate>>
  PROVE  UdataLists' /\ UnsweptListed'
<1>1. UdataLists'
  BY ListsKept
<1>2. unswept \subseteq alive'
  BY DEF ListsInv, UnsweptListed
<1> QED BY <1>1, <1>2, UnsweptKept

LEMMA NewObjectsLists ==
  ASSUME ListsInv, NEW s \in LocalSlots,
         \/ \E t \in Tables : NewTable(t, s)
         \/ \E f \in Functions : \E S \in SUBSET (Held \cup Upvals) : NewFunction(f, S, s)
         \/ \E f \in Functions, u \in Upvals : CaptureOpen(f, u, s)
         \/ \E f \in Functions, u \in Upvals, level \in LocalSlots : CaptureNew(f, u, level, s)
         \/ \E th \in Threads : NewThread(th, s)
         \/ \E str \in Strings : NewString(str, s)
  PROVE  UdataLists' /\ NeverBlack' /\ UnsweptListed'
<1>0. /\ color \in [Objects -> Whites \cup {"gray", "black"}]
      /\ uvloc \in [Upvals -> (Threads \X LocalSlots) \cup {Closed}]
  BY DEF ListsInv, TypeOK, HeapType, ProgramType
<1>1. ASSUME NEW o \in Tables \cup Functions \cup Threads, Link(o), alive' = alive \cup {o},
             UNCHANGED <<uvloc, udVars, unswept, gcstate>>
      PROVE  UdataLists' /\ NeverBlack' /\ UnsweptListed'
  <2>1. OpenUpvals' = OpenUpvals
    BY <1>1, KindsAssumption DEF OpenUpvals, IsOpen
  <2>2. \A p \in Objects : color'[p] \in {currentwhite, color[p]}
    BY <1>0, <1>1 DEF Link
  <2>3. NeverBlack'
    BY <2>1, <2>2, NewColors DEF OpenUpvals
  <2>4. {o} \cap Udatas = {} /\ {o} \in SUBSET Objects
    BY KindsAssumption
  <2> QED BY <1>1, <2>1, <2>3, <2>4, MadeLists DEF udVars
<1>2. CASE \E t \in Tables : NewTable(t, s)
  BY <1>1, <1>2 DEF NewTable, listVars, ctlVars
<1>3. CASE \E f \in Functions : \E S \in SUBSET (Held \cup Upvals) : NewFunction(f, S, s)
  BY <1>1, <1>3 DEF NewFunction, listVars, ctlVars
<1>4. CASE \E th \in Threads : NewThread(th, s)
  BY <1>1, <1>4 DEF NewThread, listVars, ctlVars
<1>5. CASE \E f \in Functions, u \in Upvals : CaptureOpen(f, u, s)
  <2> PICK f \in Functions, u \in Upvals : CaptureOpen(f, u, s)
    BY <1>5
  <2>1. OpenUpvals' = OpenUpvals /\ u \in OpenUpvals
    BY KindsAssumption DEF CaptureOpen, OpenUpvals, IsOpen
  <2>2. {f} \in SUBSET Objects /\ {f} \cap Udatas = {}
    BY KindsAssumption
  <2>3. UNCHANGED <<udlist, tmudata, finalized, unswept, gcstate>> /\ alive' = alive \cup {f}
    BY DEF CaptureOpen, udVars, listVars, ctlVars
  <2>4. UdataLists' /\ UnsweptListed'
    BY <2>1, <2>2, <2>3, MadeLists
  <2>5. \A p \in Objects : color'[p] \in {currentwhite, color[p]}
    BY <1>0 DEF CaptureOpen, Resurrected
  <2>6. NeverBlack'
    BY <2>1, <2>5, NewColors DEF OpenUpvals
  <2> QED BY <2>4, <2>6
<1>6. CASE \E f \in Functions, u \in Upvals, level \in LocalSlots : CaptureNew(f, u, level, s)
  <2> PICK f \in Functions, u \in Upvals, level \in LocalSlots : CaptureNew(f, u, level, s)
    BY <1>6
  <2>1. OpenUpvals' \subseteq OpenUpvals \cup {u} /\ u \notin alive
    BY <1>0, KindsAssumption DEF CaptureNew, OpenUpvals, IsOpen
  <2>2. {f, u} \in SUBSET Objects /\ {f, u} \cap Udatas = {}
    BY KindsAssumption
  <2>3. UNCHANGED <<udlist, tmudata, finalized, unswept, gcstate>> /\ alive' = alive \cup {f, u}
    BY DEF CaptureNew, udVars, listVars, ctlVars
  <2>4. UdataLists' /\ UnsweptListed'
    BY <2>1, <2>2, <2>3, MadeLists
  <2>5. \A p \in Objects : color'[p] \in {currentwhite, color[p]}
    BY <1>0 DEF CaptureNew
  <2>6. color'[u] = currentwhite
    BY <1>0 DEF CaptureNew
  <2>7. NeverBlack'
    BY <2>1, <2>5, <2>6, NewColors DEF OpenUpvals
  <2> QED BY <2>4, <2>7
<1>7. CASE \E str \in Strings : NewString(str, s)
  <2> PICK str \in Strings : NewString(str, s)
    BY <1>7
  <2>1. OpenUpvals' = OpenUpvals
    BY KindsAssumption DEF NewString, OpenUpvals, IsOpen
  <2>2. {str} \in SUBSET Objects /\ {str} \cap Udatas = {}
    BY KindsAssumption
  <2>3. UNCHANGED <<udlist, tmudata, finalized, unswept, gcstate>> /\ alive' = alive \cup {str}
    BY DEF NewString, udVars, ctlVars
  <2>4. UdataLists' /\ UnsweptListed'
    BY <2>1, <2>2, <2>3, MadeLists
  <2>5. \A p \in Objects : color'[p] \in {currentwhite, color[p]}
    BY <1>0 DEF NewString, Resurrected
  <2>6. NeverBlack'
    BY <2>1, <2>5, NewColors DEF OpenUpvals
  <2> QED BY <2>4, <2>6
<1> QED BY <1>2, <1>3, <1>4, <1>5, <1>6, <1>7

LEMMA NewUdataLists ==
  ASSUME ListsInv, NEW u \in Udatas, NEW env, NEW s \in LocalSlots, NewUdata(u, env, s)
  PROVE  UdataLists' /\ NeverBlack' /\ UnsweptListed'
<1>1. /\ u \notin alive /\ alive' = alive \cup {u} /\ udlist' = <<u>> \o udlist
      /\ UNCHANGED <<uvloc, tmudata, finalized, unswept, gcstate>>
      /\ color' = [color EXCEPT ![u] = currentwhite]
  BY DEF NewUdata, Link, listVars, ctlVars
<1>2. OpenUpvals' = OpenUpvals
  BY <1>1, KindsAssumption DEF OpenUpvals, IsOpen
<1>3. udlist \in Seq(Udatas) /\ Injective(udlist) /\ u \notin Range(udlist) \cup Range(tmudata)
  BY <1>1 DEF ListsInv, TypeOK, CollectorType, UdataLists, Injective
<1>4. Injective(udlist') /\ Range(udlist') = {u} \cup Range(udlist)
  BY <1>1, <1>3, ConsInjective
<1>5. UdataLists'
  <2>1. /\ Range(udlist) \cup Range(tmudata) = alive \cap Udatas
        /\ Range(udlist) \cap Range(tmudata) = {}
        /\ Injective(tmudata) /\ Range(tmudata) \subseteq finalized /\ finalized \subseteq alive
    BY DEF ListsInv, UdataLists, Injective
  <2>2. Range(tmudata)' = Range(tmudata) /\ Range(udlist') = Range(udlist)'
    BY <1>1
  <2>3. /\ (Range(udlist) \cup Range(tmudata) = alive \cap Udatas)'
        /\ (Range(udlist) \cap Range(tmudata) = {})'
        /\ (Range(tmudata) \subseteq finalized)' /\ (finalized \subseteq alive)'
    BY <1>1, <1>3, <1>4, <2>1, <2>2
  <2>4. Injective(udlist') /\ Injective(tmudata')
    BY <1>1, <1>4, <2>1
  <2> QED BY <2>3, <2>4 DEF UdataLists, Injective
<1>6. NeverBlack'
  <2>1. \A p \in Objects : color'[p] \in {currentwhite, color[p]}
    BY <1>1 DEF ListsInv, TypeOK, HeapType
  <2> QED BY <1>2, <2>1, NewColors DEF OpenUpvals
<1>7. UnsweptListed'
  <2>1. unswept \subseteq alive'
    BY <1>1 DEF ListsInv, UnsweptListed
  <2> QED BY <1>1, <1>2, <2>1, UnsweptKept
<1> QED BY <1>5, <1>6, <1>7

LEMMA CloseUpvalsLists ==
  ASSUME ListsInv, NEW S \in SUBSET OpenUpvals, CloseUpvals(S)
  PROVE  UdataLists' /\ NeverBlack' /\ UnsweptListed'
<1>1. UNCHANGED <<udlist, tmudata, finalized, unswept, gcstate>>
  BY DEF CloseUpvals, udVars, listVars, ctlVars
<1>2. S \subseteq Upvals /\ S \cap Udatas = {} /\ S \cap unswept = {}
  BY KindsAssumption DEF OpenUpvals, ListsInv, UnsweptListed
<1>3. alive' = alive \ {u \in S : isdead(u)}
  BY DEF CloseUpvals, luaF_close
<1>4. UdataLists'
  BY <1>1, <1>2, <1>3, ListsKept
<1>5. OpenUpvals' \subseteq OpenUpvals \ S
  BY DEF CloseUpvals, luaF_close, OpenUpvals, IsOpen
<1>6. UnsweptListed'
  <2>1. unswept \subseteq alive'
    BY <1>2, <1>3 DEF ListsInv, UnsweptListed
  <2> QED BY <1>1, <1>5, <2>1, UnsweptKept
<1>7. ASSUME NEW o \in Threads \cup Strings \cup OpenUpvals'
      PROVE  color'[o] # "black"
  <2>1. o \in Threads \cup Strings \cup OpenUpvals /\ o \notin S /\ o \in Objects
    BY <1>2, <1>5, KindsAssumption DEF OpenUpvals
  <2>2. color[o] # "black" /\ o \notin Udatas /\ (o \in Upvals => IsOpen(o))
    BY <2>1, KindsAssumption DEF ListsInv, NeverBlack, isblack, OpenUpvals
  <2> QED BY <2>1, <2>2 DEF CloseUpvals, luaF_close, ColorOnceMarked
<1>8. NeverBlack'
  BY <1>7 DEF NeverBlack, isblack
<1> QED BY <1>4, <1>6, <1>8

(***************************************************************************)
(* The steps of the collector.                                             *)
(***************************************************************************)
LEMMA MarkStepsLists ==
  ASSUME ListsInv,
         \/ MarkRoot \/ RemarkUpvals \/ RemarkWeak \/ RemarkAgain \/ EndCycle
         \/ \E o \in Objects : PropagateMark(o)
  PROVE  UdataLists' /\ NeverBlack' /\ UnsweptListed'
<1>1. /\ UNCHANGED <<alive, uvloc, udlist, tmudata, finalized, unswept>>
      /\ {gcstate, gcstate'} \cap SweepStates = {}
  BY DEF MarkRoot, RemarkUpvals, RemarkWeak, RemarkAgain, EndCycle, PropagateMark, AtomicStage,
         heapVars, udVars, listVars, ctlVars
<1>2. cur \in Threads /\ \A u \in Upvals : UpvalValue(u) \in Values
  BY CurType DEF ListsInv, TypeOK, ProgramType, UpvalValue, IsOpen
<1>3. stack[MainThread][GlobalSlot] \in Values /\ gmt \in Values
  BY KindsAssumption DEF ListsInv, TypeOK, ProgramType
<1>4. ASSUME NEW o \in Threads \cup Strings \cup OpenUpvals
      PROVE  color'[o] # "black"
  <2>1. CASE MarkRoot
    <3>1. {MainThread, stack[MainThread][GlobalSlot], Registry, gmt} \in SUBSET Values
      BY <1>3, KindsAssumption
    <3> QED BY <2>1, <3>1, MarkFromBlack DEF MarkRoot
  <2>2. CASE RemarkUpvals
    <3>1. {UpvalValue(u) : u \in {w \in OpenUpvals : color[w] = "gray"}} \in SUBSET Values
      BY <1>2 DEF OpenUpvals
    <3> QED BY <2>2, <3>1, MarkFromBlack DEF RemarkUpvals
  <2>3. CASE RemarkWeak
    BY <1>2, <1>3, <2>3, MarkFromBlack DEF RemarkWeak
  <2>4. CASE RemarkAgain \/ EndCycle
    BY <2>4 DEF RemarkAgain, EndCycle, ListsInv, NeverBlack, isblack
  <2>5. CASE \E p \in Objects : PropagateMark(p)
    <3> PICK p \in Objects : PropagateMark(p)
      BY <2>5
    <3>1. p \in HasGclist
      BY DEF PropagateMark, ListsInv, TypeOK, CollectorType
    <3>2. o \in Objects /\ color[o] # "black" /\ o \notin Udatas /\ (o \in Upvals => IsOpen(o))
      BY KindsAssumption DEF ListsInv, NeverBlack, isblack, OpenUpvals
    <3>3. o = p => o \in Threads
      BY <3>1, KindsAssumption DEF OpenUpvals
    <3> QED BY <3>2, <3>3 DEF PropagateMark, ColorOnceMarked
  <2> QED BY <2>1, <2>2, <2>3, <2>4, <2>5
<1> QED BY <1>1, <1>4, HeapKept

LEMMA MarkTmuLists ==
  ASSUME ListsInv, MarkTmu
  PROVE  UdataLists' /\ NeverBlack' /\ UnsweptListed'
<1> DEFINE due == {u \in NotFinalized(FALSE) : HasFinalizer(u)}
           kept == Range(udlist) \ due
<1>1. /\ luaC_separateudata(FALSE)
      /\ UNCHANGED <<alive, uvloc, unswept>> /\ {gcstate, gcstate'} \cap SweepStates = {}
  BY DEF MarkTmu, AtomicStage, heapVars
<1>2. /\ Range(tmudata') = Range(tmudata) \cup due /\ Range(udlist') = Range(udlist) \ due
      /\ tmudata' \in Seq(Udatas) /\ udlist' \in Seq(Udatas)
  BY <1>1, SeparateType DEF ListsInv
<1>3. /\ Injective(udlist) /\ Injective(tmudata) /\ Range(udlist) \cap Range(tmudata) = {}
      /\ udlist \in Seq(Udatas) /\ tmudata \in Seq(Udatas)
      /\ Range(udlist) \subseteq Udatas
  BY RangeType DEF ListsInv, UdataLists, Injective, TypeOK, CollectorType
<1>4. due \subseteq NotFinalized(FALSE) /\ NotFinalized(FALSE) \subseteq Range(udlist)
  BY DEF NotFinalized
<1>5. Injective(tmudata')
  <2>1. PICK q \in Filtered(udlist, due) : tmudata' = tmudata \o q
    BY <1>1 DEF luaC_separateudata
  <2>2. due \in SUBSET Udatas
    BY <1>3, <1>4
  <2> HIDE DEF due
  <2>3. q \in Seq(Udatas) /\ Range(q) = due
    BY <1>3, <2>2, FilteredType
  <2>4. Injective(q)
    BY <1>3, <2>2, FilteredInjective
  <2>5. Range(tmudata) \cap Range(q) = {}
    BY <1>3, <1>4, <2>3
  <2> QED BY <1>3, <2>1, <2>3, <2>4, <2>5, ConcatInjective
<1>6. Injective(udlist')
  <2>1. udlist' \in Filtered(udlist, kept) /\ kept \in SUBSET Udatas
    BY <1>1, <1>3 DEF luaC_separateudata
  <2> HIDE DEF kept
  <2> QED BY <1>3, <2>1, FilteredInjective
<1>7. finalized' = finalized \cup NotFinalized(FALSE)
  BY <1>1 DEF luaC_separateudata
<1>8. UdataLists'
  <2>1. /\ Range(udlist) \cup Range(tmudata) = alive \cap Udatas
        /\ Range(tmudata) \subseteq finalized /\ finalized \subseteq alive
    BY DEF ListsInv, UdataLists
  <2>2. /\ Range(udlist') \cup Range(tmudata') = alive' \cap Udatas
        /\ Range(udlist') \cap Range(tmudata') = {}
        /\ Range(tmudata') \subseteq finalized' /\ finalized' \subseteq alive'
    BY <1>1, <1>2, <1>3, <1>4, <1>7, <2>1
  <2> QED BY <1>5, <1>6, <2>2 DEF UdataLists, Injective, Range
<1>9. OpenUpvals' = OpenUpvals
  BY <1>1 DEF OpenUpvals, IsOpen
<1>10. NeverBlack'
  <2>1. ASSUME NEW o \in Threads \cup Strings \cup OpenUpvals PROVE color'[o] # "black"
    <3>1. o \in Objects /\ color[o] # "black" /\ o \notin Udatas
      BY KindsAssumption DEF ListsInv, NeverBlack, isblack, OpenUpvals
    <3>2. Range(tmudata') \subseteq Udatas
      BY <1>2, RangeType
    <3> QED BY <3>1, <3>2 DEF MarkTmu
  <2> QED BY <1>9, <2>1 DEF NeverBlack, isblack
<1>11. UnsweptListed'
  BY <1>1 DEF ListsInv, UnsweptListed
<1> QED BY <1>8, <1>10, <1>11

LEMMA ClearAndFlipLists ==
  ASSUME ListsInv, NEW inarray, ClearAndFlip(inarray)
  PROVE  UdataLists' /\ NeverBlack' /\ UnsweptListed'
<1>1. /\ UNCHANGED <<alive, uvloc, udlist, tmudata, finalized>>
      /\ unswept' = Rootgc /\ gcstate' \in SweepStates
  BY DEF ClearAndFlip, udVars
<1>2. OpenUpvals' = OpenUpvals
  BY <1>1 DEF OpenUpvals, IsOpen
<1>3. UdataLists'
  BY <1>1, ListsKept
<1>4. NeverBlack'
  <2>1. \A o \in Threads \cup Strings \cup OpenUpvals : o \in Objects /\ color[o] # "black"
    BY DEF ListsInv, NeverBlack, isblack, OpenUpvals
  <2>2. \A o \in Objects : color'[o] \in {"gray", color[o]}
    BY DEF ClearAndFlip
  <2> QED BY <1>2, <2>1, <2>2 DEF NeverBlack, isblack
<1>5. UnsweptListed'
  BY <1>1, <1>2 DEF UnsweptListed, Rootgc, Range
<1> QED BY <1>3, <1>4, <1>5

LEMMA SweepListLists ==
  ASSUME ListsInv, NEW B \in SUBSET Objects, B \cap Range(tmudata) = {}, SweepList(B)
  PROVE  UdataLists' /\ NeverBlack' /\ OpenUpvals' \subseteq OpenUpvals
<1> DEFINE F == {o \in B : isdead(o)}
           kept == Range(udlist) \ F
<1>1. Free(F)
  BY DEF SweepList
<1>2. alive' = alive \ F /\ finalized' = finalized \ F /\ tmudata' = tmudata
  BY <1>1 DEF Free
<1>3. OpenUpvals' \subseteq OpenUpvals
  BY <1>1 DEF Free, OpenUpvals, IsOpen
<1>4. udlist \in Seq(Udatas) /\ Injective(udlist) /\ kept \in SUBSET Udatas
  BY RangeType DEF ListsInv, TypeOK, CollectorType, UdataLists, Injective
<1>5. udlist' \in Filtered(udlist, kept)
  BY <1>1 DEF Free
<1>6. Injective(udlist') /\ Range(udlist') = kept
  <2> HIDE DEF kept
  <2> QED BY <1>4, <1>5, FilteredInjective, FilteredType
<1>7. UdataLists'
  <2>1. /\ Range(udlist) \cup Range(tmudata) = alive \cap Udatas
        /\ Range(udlist) \cap Range(tmudata) = {}
        /\ Injective(tmudata) /\ Range(tmudata) \subseteq finalized /\ finalized \subseteq alive
    BY DEF ListsInv, UdataLists, Injective
  <2>2. Range(tmudata) \cap F = {}
    OBVIOUS
  <2>3. /\ Range(udlist') \cup Range(tmudata') = alive' \cap Udatas
        /\ Range(udlist') \cap Range(tmudata') = {}
        /\ Range(tmudata') \subseteq finalized' /\ finalized' \subseteq alive'
    BY <1>2, <1>6, <2>1, <2>2
  <2>4. Injective(tmudata')
    BY <1>2, <2>1
  <2> QED BY <1>6, <2>3, <2>4 DEF UdataLists, Injective, Range
<1>8. NeverBlack'
  <2>1. \A o \in Threads \cup Strings \cup OpenUpvals : o \in Objects /\ color[o] # "black"
    BY DEF ListsInv, NeverBlack, isblack, OpenUpvals
  <2>2. \A o \in Objects : color'[o] \in {"white0", currentwhite, color[o]}
    BY DEF SweepList
  <2>3. currentwhite # "black"
    BY DEF ListsInv, TypeOK, CollectorType
  <2> QED BY <1>3, <2>1, <2>2, <2>3 DEF NeverBlack, isblack
<1> QED BY <1>3, <1>7, <1>8

LEMMA SweepStepsLists ==
  ASSUME ListsInv, SweepString \/ \E o \in Objects : Sweep(o)
  PROVE  UdataLists' /\ NeverBlack' /\ UnsweptListed'
<1>1. Range(tmudata) \subseteq Udatas /\ Range(tmudata') = Range(tmudata)'
  BY RangeType DEF ListsInv, TypeOK, CollectorType
<1>2. CASE SweepString
  <2> DEFINE B == {s \in alive \cap Strings : Hash[s] % strsize = sweepstrgc}
  <2>1. B \in SUBSET Objects /\ B \subseteq Strings /\ B \cap Range(tmudata) = {}
    BY <1>1, KindsAssumption
  <2>2. SweepList(B) /\ UNCHANGED unswept /\ gcstate' \in SweepStates
    BY <1>2 DEF SweepString
  <2>3. UdataLists' /\ NeverBlack' /\ OpenUpvals' \subseteq OpenUpvals
    BY <2>1, <2>2, SweepListLists
  <2>4. alive \ Strings \subseteq alive' /\ tmudata' = tmudata
    BY <2>1, <2>2 DEF SweepList, Free
  <2>5. UnsweptListed'
    BY <2>2, <2>3, <2>4 DEF ListsInv, UnsweptListed, Range
  <2> QED BY <2>3, <2>5
<1>3. CASE \E o \in Objects : Sweep(o)
  <2> PICK o \in Objects : Sweep(o)
    BY <1>3
  <2> DEFINE B == {o} \cup UpvalsOf({o})
  <2>1. UpvalsOf({o}) \subseteq OpenUpvals /\ OpenUpvals \subseteq Upvals
    BY DEF UpvalsOf, OpenUpvals
  <2>2. /\ SweepList(B) /\ o \in unswept /\ unswept' = unswept \ {o}
        /\ gcstate' \notin SweepStates => unswept' = {}
    BY DEF Sweep
  <2>3. B \in SUBSET Objects /\ B \cap Range(tmudata) = {}
    BY <1>1, <2>1, <2>2, KindsAssumption DEF ListsInv, UnsweptListed
  <2>4. UdataLists' /\ NeverBlack' /\ OpenUpvals' \subseteq OpenUpvals
    BY <2>2, <2>3, SweepListLists
  <2>5. alive \ B \subseteq alive' /\ tmudata' = tmudata
    BY <2>2 DEF SweepList, Free
  <2>6. UnsweptListed'
    BY <2>1, <2>2, <2>4, <2>5 DEF ListsInv, UnsweptListed, Range
  <2> QED BY <2>4, <2>6
<1> QED BY <1>2, <1>3

LEMMA GCTMLists ==
  ASSUME ListsInv, NEW s \in LocalSlots, GCTM(s)
  PROVE  UdataLists' /\ NeverBlack' /\ UnsweptListed'
<1>1. /\ udlist \in Seq(Udatas) /\ tmudata \in Seq(Udatas) /\ tmudata # <<>>
      /\ Injective(udlist) /\ Injective(tmudata)
      /\ Range(udlist) \cup Range(tmudata) = alive \cap Udatas
      /\ Range(udlist) \cap Range(tmudata) = {}
      /\ Range(tmudata) \subseteq finalized /\ finalized \subseteq alive
  BY DEF ListsInv, TypeOK, CollectorType, UdataLists, Injective, GCTM
<1> DEFINE u == Head(tmudata)
<1>2. /\ tmudata' = Tail(tmudata) /\ udlist' = <<u>> \o udlist
      /\ UNCHANGED <<alive, uvloc, finalized, unswept, gcstate>> /\ gcstate = "finalize"
      /\ color' = [color EXCEPT ![u] = currentwhite]
  BY DEF GCTM, heapVars, listVars, ctlVars
<1>3. Injective(tmudata') /\ u \in Range(tmudata) /\ Range(tmudata') = Range(tmudata) \ {u}
  BY <1>1, <1>2, TailInjective
<1>4. u \in Udatas /\ u \notin Range(udlist)
  BY <1>1, <1>3
<1>5. Injective(udlist') /\ Range(udlist') = {u} \cup Range(udlist)
  <2> HIDE DEF u
  <2> QED BY <1>1, <1>2, <1>4, ConsInjective
<1>6. UdataLists'
  <2>1. /\ Range(udlist') \cup Range(tmudata') = alive' \cap Udatas
        /\ Range(udlist') \cap Range(tmudata') = {}
        /\ Range(tmudata') \subseteq finalized' /\ finalized' \subseteq alive'
    BY <1>1, <1>2, <1>3, <1>5
  <2> QED BY <1>3, <1>5, <2>1 DEF UdataLists, Injective, Range
<1>7. OpenUpvals' = OpenUpvals
  BY <1>2 DEF OpenUpvals, IsOpen
<1>8. NeverBlack'
  <2>1. \A p \in Objects : color'[p] \in {currentwhite, color[p]}
    BY <1>2 DEF ListsInv, TypeOK, HeapType
  <2> QED BY <1>7, <2>1, NewColors DEF OpenUpvals
<1>9. UnsweptListed'
  BY <1>2 DEF ListsInv, UnsweptListed
<1> QED BY <1>6, <1>8, <1>9

LEMMA FullGCLists ==
  ASSUME ListsInv, FullGC
  PROVE  UdataLists' /\ NeverBlack' /\ UnsweptListed'
<1>1. UNCHANGED <<alive, uvloc, color, udlist, tmudata, finalized>>
  BY DEF FullGC, heapVars, udVars
<1>2. OpenUpvals' = OpenUpvals
  BY <1>1 DEF OpenUpvals, IsOpen
<1>3. UdataLists'
  BY <1>1, ListsKept
<1>4. NeverBlack'
  BY <1>1, <1>2 DEF ListsInv, NeverBlack, isblack
<1>5. \/ unswept' = Rootgc /\ gcstate' \in SweepStates
      \/ UNCHANGED <<unswept, gcstate>>
  BY DEF FullGC
<1>6. UnsweptListed'
  BY <1>1, <1>2, <1>5 DEF ListsInv, UnsweptListed, Rootgc, Range
<1> QED BY <1>3, <1>4, <1>6

(* Every operation and every collector step keeps the lists.               *)
LEMMA NextLists ==
  ASSUME ListsInv, [Next]_vars
  PROVE  ListsInv'
<1>1. TypeOK'
  BY NextType DEF ListsInv
<1>2. CASE Mutator
  <2>1. CASE \E s \in LocalSlots :
               \/ \E v \in Held \cup {NoObj, cur} : Move(s, v)
               \/ \E o, v \in Objects : Load(o, v, s)
               \/ LoadBasicMetatable(s)
               \/ \E th \in Threads, v \in Held : StoreInThread(th, s, v)
    BY <1>1, <2>1, StackOpsLists DEF ListsInv
  <2>2. CASE \E s \in LocalSlots :
               \/ \E t \in Tables : NewTable(t, s)
               \/ \E f \in Functions : \E S \in SUBSET (Held \cup Upvals) : NewFunction(f, S, s)
               \/ \E f \in Functions, u \in Upvals : CaptureOpen(f, u, s)
               \/ \E f \in Functions, u \in Upvals, level \in LocalSlots : CaptureNew(f, u, level, s)
               \/ \E th \in Threads : NewThread(th, s)
               \/ \E str \in Strings : NewString(str, s)
    BY <1>1, <2>2, NewObjectsLists DEF ListsInv
  <2>3. CASE \E s \in LocalSlots : \E u \in Udatas, env \in Tables : NewUdata(u, env, s)
    BY <1>1, <2>3, NewUdataLists DEF ListsInv
  <2>4. CASE \/ \E t \in Tables, k \in (Held \cap AsKeys) \cup {NoObj} :
                  \E v \in Held \cup {NoObj, Nil} : SetTable(t, k, v)
             \/ \E t \in Tables, m \in Values : SetTableMeta(t, m)
             \/ \E u \in Udatas, m \in Values : SetUdataMeta(u, m)
             \/ \E u \in Udatas, env \in Tables : SetUdataEnv(u, env)
             \/ \E f \in Functions, old, v \in Values : SetField(f, old, v)
             \/ \E u \in Upvals, v \in Values : SetUpval(u, v)
    BY <1>1, <2>4, StoresLists DEF ListsInv
  <2>5. CASE \/ \E th \in Threads, t \in Tables : SetGlobals(th, t)
             \/ \E m \in Values : SetBasicMeta(m)
             \/ \E th \in Threads : Resume(th)
             \/ Yield
    BY <1>1, <2>5, StackOpsLists DEF ListsInv
  <2>6. CASE \E S \in SUBSET OpenUpvals : CloseUpvals(S)
    BY <1>1, <2>6, CloseUpvalsLists DEF ListsInv
  <2> QED BY <1>2, <2>1, <2>2, <2>3, <2>4, <2>5, <2>6 DEF Mutator
<1>3. CASE Collector
  BY <1>1, <1>3, MarkStepsLists, MarkTmuLists, ClearAndFlipLists, SweepStepsLists, GCTMLists
     DEF Collector, ListsInv
<1>4. CASE FullGC
  BY <1>1, <1>4, FullGCLists DEF ListsInv
<1>5. CASE UNCHANGED vars
  <2>1. UNCHANGED <<alive, uvloc, color, udlist, tmudata, finalized, unswept, gcstate>>
    BY <1>5 DEF vars, heapVars, udVars, listVars, ctlVars
  <2>2. \A o \in Threads \cup Strings \cup OpenUpvals : color'[o] # "black"
    BY <2>1 DEF ListsInv, NeverBlack, isblack
  <2> QED BY <1>1, <2>1, <2>2, HeapKept DEF ListsInv
<1> QED BY <1>2, <1>3, <1>4, <1>5 DEF Next

(* No userdata is lost by the two lists, none is in both or twice in one,  *)
(* and none that waits for its finalizer can be separated again: for any   *)
(* number of userdata, created, separated, finalized and swept in any order. *)
THEOREM UdataListsCorrect == Spec => []UdataLists
<1>1. Init => ListsInv
  BY InitLists
<1>2. ListsInv /\ [Next]_vars => ListsInv'
  BY NextLists
<1>3. ListsInv => UdataLists
  BY DEF ListsInv
<1> QED BY <1>1, <1>2, <1>3, PTL DEF Spec

(* The sweep has only allocated objects of rootgc before it, whatever is    *)
(* captured, closed or finalized meanwhile, and threads, strings and open  *)
(* upvalues, which have no write barrier, are never black.                 *)
THEOREM SweepListCorrect == Spec => [](NeverBlack /\ UnsweptListed)
<1>1. Init => ListsInv
  BY InitLists
<1>2. ListsInv /\ [Next]_vars => ListsInv'
  BY NextLists
<1>3. ListsInv => NeverBlack /\ UnsweptListed
  BY DEF ListsInv
<1> QED BY <1>1, <1>2, <1>3, PTL DEF Spec

-----------------------------------------------------------------------------
(***************************************************************************)
(* Nothing that the program can name is ever freed: the invariant, and the *)
(* operations of the program, which keep it.                               *)
(***************************************************************************)

(***************************************************************************)
(* What an object refers to, by its kind.                                  *)
(***************************************************************************)
RefsByKind ==
  \A o \in Objects :
    /\ StrongRefs(o) \subseteq Refs(o) /\ Refs(o) \subseteq Objects
    /\ o \in Tables => Refs(o) = ({meta[o]} \cup Keys(o) \cup Vals(o)) \ {NoObj}
    /\ o \in Udatas => Refs(o) = (fields[o] \cup {meta[o]}) \ {NoObj} /\ OwnRefs(o) \subseteq Tables \cup {NoObj}
    /\ o \in Functions => Refs(o) = fields[o]
    /\ o \in Strings => Refs(o) = {}
    /\ o \in Upvals => Refs(o) = {UpvalValue(o)} \ {NoObj} /\ UpvalValue(o) \in FirstClass
    /\ o \in Threads => Refs(o) = (Range(stack[o]) \cup Resumed(o)) \ {NoObj}
    /\ WeakMode(o) = {} => StrongRefs(o) = Refs(o)
    /\ o \notin Tables => WeakMode(o) = {}
    /\ OwnRefs(o) \ {NoObj} \subseteq StrongRefs(o)

LEMMA RefsKinds == TypeOK => RefsByKind
<1> SUFFICES ASSUME TypeOK, NEW o \in Objects
             PROVE  /\ StrongRefs(o) \subseteq Refs(o) /\ Refs(o) \subseteq Objects
                    /\ o \in Tables => Refs(o) = ({meta[o]} \cup Keys(o) \cup Vals(o)) \ {NoObj}
                    /\ o \in Udatas => /\ Refs(o) = (fields[o] \cup {meta[o]}) \ {NoObj}
                                       /\ OwnRefs(o) \subseteq Tables \cup {NoObj}
                    /\ o \in Functions => Refs(o) = fields[o]
                    /\ o \in Strings => Refs(o) = {}
                    /\ o \in Upvals => Refs(o) = {UpvalValue(o)} \ {NoObj} /\ UpvalValue(o) \in FirstClass
                    /\ o \in Threads => Refs(o) = (Range(stack[o]) \cup Resumed(o)) \ {NoObj}
                    /\ WeakMode(o) = {} => StrongRefs(o) = Refs(o)
                    /\ o \notin Tables => WeakMode(o) = {}
                    /\ OwnRefs(o) \ {NoObj} \subseteq StrongRefs(o)
  BY DEF RefsByKind
<1>1. /\ o \in Udatas => fields[o] \subseteq Tables
      /\ o \notin Udatas \cup Functions => fields[o] = {}
      /\ o \notin Tables \cup Udatas => meta[o] = NoObj
      /\ o \notin Tables => entries[o] = {}
      /\ fields[o] \subseteq Objects /\ meta[o] \in Tables \cup {NoObj}
      /\ uvval \in [Upvals -> FirstClass] /\ stack \in [Threads -> [Slots -> FirstClass]]
      /\ uvloc \in [Upvals -> (Threads \X LocalSlots) \cup {Closed}]
  BY DEF TypeOK, HeapType, ProgramType
<1>2. o \notin Tables => Keys(o) = {} /\ Vals(o) = {} /\ WeakMode(o) = {}
  BY <1>1 DEF Keys, Vals, WeakMode
<1>3. o \in Upvals => UpvalValue(o) \in FirstClass
  BY <1>1 DEF UpvalValue, IsOpen
<1>4. o \in Udatas => OwnRefs(o) = fields[o] \cup {meta[o]}
  BY <1>1, KindsAssumption DEF OwnRefs
<1>5. o \in Tables => OwnRefs(o) = {meta[o]}
  BY <1>1, KindsAssumption DEF OwnRefs
<1>6. o \in Functions => OwnRefs(o) = fields[o] \cup {NoObj}
  BY <1>1, KindsAssumption DEF OwnRefs
<1>7. o \in Strings => OwnRefs(o) = {NoObj}
  BY <1>1, KindsAssumption DEF OwnRefs
<1>8. o \in Upvals => OwnRefs(o) = {NoObj, UpvalValue(o)}
  BY <1>1, KindsAssumption DEF OwnRefs
<1>9. o \in Threads => OwnRefs(o) = Range(stack[o]) \cup Resumed(o) \cup {NoObj}
  BY <1>1, KindsAssumption DEF OwnRefs
<1>10. StrongRefs(o) \subseteq Refs(o) /\ OwnRefs(o) \ {NoObj} \subseteq StrongRefs(o)
  BY DEF Refs, StrongRefs
<1>11. Refs(o) \subseteq Objects
  BY RefsType
<1>12. WeakMode(o) = {} => StrongRefs(o) = Refs(o)
  BY DEF Refs, StrongRefs
<1>13. Refs(o) = (OwnRefs(o) \cup Keys(o) \cup Vals(o)) \ {NoObj}
  BY DEF Refs
<1> QED BY <1>1, <1>2, <1>3, <1>4, <1>5, <1>6, <1>7, <1>8, <1>9, <1>10, <1>11, <1>12, <1>13, KindsAssumption

LEMMA RefsKindsPrime == TypeOK' => RefsByKind'
<1> QED BY RefsKinds, PTL

(* Where nothing of an object is written, it refers to what it did.        *)
LEMMA RefsSame ==
  ASSUME TypeOK, TypeOK', NEW o \in Objects, UNCHANGED <<meta, running>>,
         fields'[o] = fields[o], entries'[o] = entries[o],
         o \in Threads => stack'[o] = stack[o],
         o \in Upvals => UpvalValue(o)' = UpvalValue(o)
  PROVE  Refs(o)' = Refs(o) /\ OwnRefs(o)' = OwnRefs(o) /\ StrongRefs(o)' = StrongRefs(o)
<1>1. Keys(o)' = Keys(o) /\ Vals(o)' = Vals(o) /\ WeakMode(o)' = WeakMode(o)
  BY DEF Keys, Vals, WeakMode
<1>2. Resumed(o)' = Resumed(o)
  BY DEF Resumed
<1>3. OwnRefs(o)' = OwnRefs(o)
  BY <1>2 DEF OwnRefs, Range
<1> QED BY <1>1, <1>3 DEF Refs, StrongRefs

(* A store of v in a slot of a stack changes what the thread refers to, and *)
(* the open upvalue of that slot.                                          *)
LEMMA PushRefs ==
  ASSUME TypeOK, TypeOK', OpenListed, NEW th \in Threads, NEW s \in Slots, NEW v \in FirstClass,
         \A t \in Threads \cap alive, z \in Slots :
           stack'[t][z] = IF t = th /\ z = s THEN v ELSE stack[t][z],
         NEW o \in Objects, UNCHANGED <<meta, running>>,
         o \in Threads \ alive => stack'[o] = stack[o] /\ o # th,
         fields'[o] = fields[o], entries'[o] = entries[o],
         o \in Upvals => uvloc'[o] = uvloc[o] /\ uvval'[o] = uvval[o]
  PROVE  /\ Refs(o)' \subseteq Refs(o) \cup ({v} \ {NoObj})
         /\ o \notin Threads \cup OpenUpvals => Refs(o)' = Refs(o)
         /\ o \notin alive => Refs(o)' = Refs(o)
<1>1. CASE o \in Threads
  <2>1. Refs(o) = (Range(stack[o]) \cup Resumed(o)) \ {NoObj}
    BY <1>1, RefsKinds DEF RefsByKind
  <2>2. Refs(o)' = (Range(stack[o])' \cup Resumed(o)') \ {NoObj}
    BY <1>1, RefsKindsPrime DEF RefsByKind
  <2>3. Resumed(o)' = Resumed(o)
    BY DEF Resumed
  <2>4. stack[o] \in [Slots -> FirstClass] /\ stack'[o] \in [Slots -> FirstClass]
    BY <1>1 DEF TypeOK, ProgramType
  <2>5. \A z \in Slots : stack'[o][z] \in {v, stack[o][z]} /\ (o # th => stack'[o][z] = stack[o][z])
    BY <1>1
  <2>6. Range(stack[o])' \subseteq Range(stack[o]) \cup {v}
    BY <2>4, <2>5 DEF Range
  <2>7. o # th => Range(stack[o])' = Range(stack[o])
    BY <2>4, <2>5 DEF Range
  <2> QED BY <1>1, <2>1, <2>2, <2>3, <2>6, <2>7
<1>2. CASE o \in Upvals
  <2>1. o \notin Threads
    BY <1>2, KindsAssumption
  <2>2. CASE uvloc[o] = Closed
    <3>1. UpvalValue(o)' = UpvalValue(o)
      BY <1>2, <2>2 DEF UpvalValue, IsOpen
    <3> QED BY <2>1, <3>1, RefsSame
  <2>3. CASE uvloc[o] # Closed
    <3>1. o \in OpenUpvals /\ o \in alive
      BY <1>2, <2>3 DEF OpenListed, OpenUpvals, IsOpen
    <3>2. uvloc[o][1] \in Threads \cap alive /\ uvloc[o][2] \in Slots
      BY <1>2, <2>3 DEF TypeOK, ProgramType, OpenListed, IsOpen
    <3>3. UpvalValue(o) = stack[uvloc[o][1]][uvloc[o][2]] /\ UpvalValue(o)' = stack'[uvloc[o][1]][uvloc[o][2]]
      BY <1>2, <2>3 DEF UpvalValue, IsOpen
    <3>4. UpvalValue(o)' \in {v, UpvalValue(o)}
      BY <3>2, <3>3
    <3>5. Refs(o) = {UpvalValue(o)} \ {NoObj} /\ Refs(o)' = {UpvalValue(o)'} \ {NoObj}
      BY <1>2, RefsKinds, RefsKindsPrime DEF RefsByKind
    <3> QED BY <3>1, <3>4, <3>5
  <2> QED BY <2>2, <2>3
<1>3. CASE o \notin Threads \cup Upvals
  BY <1>3, RefsSame
<1> QED BY <1>1, <1>2, <1>3

(* What reallymarkobject marks from objects that are not dead: white ones,  *)
(* among them all that a blackened object refers to.                       *)
LEMMA MarkedFacts ==
  ASSUME TypeOK, CheckLiveness, NEW S, S \subseteq Live \cup {NoObj}
  PROVE  /\ Marked(S) \subseteq Live /\ \A o \in Marked(S) : iswhite(o)
         /\ \A o \in S : o # NoObj /\ iswhite(o) => o \in Marked(S)
         /\ \A o \in Marked(S) \cap (Udatas \cup Upvals) : \A r \in Refs(o) : iswhite(r) => r \in Marked(S)
<1> DEFINE w  == {o \in S : o # NoObj /\ iswhite(o)}
           vals == {v \in {UpvalValue(u) : u \in w \cap Upvals} : v # NoObj /\ iswhite(v)}
           wv == w \cup vals
           own == {v \in UNION {OwnRefs(u) : u \in wv \cap Udatas} : v # NoObj /\ iswhite(v)}
<1>1. Marked(S) = wv \cup own
  BY DEF Marked
<1>2. w \subseteq Live /\ Live \subseteq Objects
  BY DEF Live, TypeOK, HeapType
<1>3. RefsByKind
  BY RefsKinds
<1>4. \A u \in w \cap Upvals : Refs(u) = {UpvalValue(u)} \ {NoObj} /\ UpvalValue(u) \notin Upvals
  BY <1>2, <1>3 DEF RefsByKind
<1>5. vals \subseteq Live /\ vals \cap Upvals = {}
  BY <1>2, <1>4 DEF CheckLiveness
<1>6. wv \subseteq Live
  BY <1>2, <1>5
<1>7. \A u \in wv \cap Udatas : OwnRefs(u) \ {NoObj} \subseteq Refs(u) /\ OwnRefs(u) \subseteq Tables \cup {NoObj}
  BY <1>2, <1>3, <1>6 DEF RefsByKind
<1>8. own \subseteq Live /\ own \subseteq Tables
  BY <1>6, <1>7 DEF CheckLiveness
<1>9. \A o \in Marked(S) : iswhite(o)
  BY <1>1
<1>10. ASSUME NEW o \in Marked(S) \cap Upvals, NEW r \in Refs(o), iswhite(r)
       PROVE  r \in Marked(S)
  <2>1. o \in w
    BY <1>1, <1>5, <1>8, KindsAssumption
  <2>2. r = UpvalValue(o) /\ r # NoObj
    BY <1>4, <2>1
  <2> QED BY <1>1, <1>10, <2>1, <2>2
<1>11. ASSUME NEW o \in Marked(S) \cap Udatas, NEW r \in Refs(o), iswhite(r)
       PROVE  r \in Marked(S)
  <2>1. o \in wv
    BY <1>1, <1>8, KindsAssumption
  <2>2. o \in Objects /\ o \notin Tables
    BY KindsAssumption
  <2>3. StrongRefs(o) = Refs(o)
    BY <1>3, <2>2 DEF RefsByKind
  <2>4. Keys(o) = {} /\ Vals(o) = {}
    BY <2>2 DEF Keys, Vals, TypeOK, HeapType
  <2>5. r \in OwnRefs(o) /\ r # NoObj
    BY <2>4 DEF Refs
  <2> QED BY <1>1, <1>11, <2>1, <2>5
<1> QED BY <1>1, <1>6, <1>8, <1>9, <1>10, <1>11

(***************************************************************************)
(* The invariant, and the parts of it that follow from types and lists.    *)
(***************************************************************************)
Safety == /\ CheckLiveness /\ TriColor /\ GrayLists /\ Remarked /\ SweepComplete
          /\ NeverGray /\ OpenListed /\ FreedEmpty /\ running[1] = MainThread
FullInv == ListsInv /\ Safety

LEMMA FullInvIsIInv == FullInv <=> IInv
  BY DEF FullInv, Safety, ListsInv, IInv, Normal

(* Facts of every reachable state that the steps below need again and again. *)
LEMMA Basics ==
  ASSUME FullInv
  PROVE  /\ TypeOK /\ RefsByKind /\ Live \subseteq Objects /\ Live \subseteq alive
         /\ cur \in Live \cap Threads /\ Held \subseteq Live
         /\ MainThread \in Live /\ Registry \in Live
         /\ Range(running) \subseteq Live /\ Range(tmudata) \subseteq Live
         /\ gmt # NoObj => gmt \in Live
         /\ \A o \in Live : Refs(o) \subseteq Live
         /\ currentwhite \in Whites /\ otherwhite \in Whites /\ currentwhite # otherwhite
         /\ gcstate \in MarkPhase => Live = alive
<1>1. TypeOK /\ RefsByKind /\ CheckLiveness
  BY RefsKinds DEF FullInv, ListsInv, Safety
<1>2. Live \subseteq Objects /\ Live \subseteq alive
  BY <1>1 DEF Live, TypeOK, HeapType
<1>3. Roots \subseteq Live /\ \A o \in Live : Refs(o) \subseteq Live
  BY <1>1 DEF CheckLiveness
<1>4. cur \in Range(running) /\ cur \in Threads
  <2>1. running \in Seq(Threads) /\ Len(running) \in Nat \ {0}
    BY <1>1, CurType DEF TypeOK, ProgramType
  <2>2. Len(running) \in DOMAIN running
    BY <2>1
  <2> QED BY <1>1, <2>2, CurType DEF cur, Range
<1>5. cur \in Live
  BY <1>3, <1>4 DEF Roots
<1>6. Held \subseteq Live
  <2>1. Refs(cur) = (Range(stack[cur]) \cup Resumed(cur)) \ {NoObj}
    BY <1>1, <1>4 DEF RefsByKind
  <2> QED BY <1>3, <1>5, <2>1 DEF Held, StackOf
<1>7. currentwhite \in Whites /\ otherwhite \in Whites /\ currentwhite # otherwhite
  BY <1>1 DEF TypeOK, CollectorType, otherwhite
<1>8. gcstate \in MarkPhase => Live = alive
  BY DEF FullInv, Safety, SweepComplete, Live
<1> QED BY <1>1, <1>2, <1>3, <1>4, <1>5, <1>6, <1>7, <1>8 DEF Roots

(* While the program runs, Remarked speaks of two roots only.              *)
LEMMA RemarkedRunning ==
  ASSUME gcstate \notin AtomicStates
  PROVE  Remarked <=> (gcstate \in MarkPhase => ~ iswhite(MainThread) /\ ~ iswhite(Registry))
  BY DEF Remarked, RemarkedLists

LEMMA RemarkedRunningPrime ==
  ASSUME gcstate' \notin AtomicStates
  PROVE  Remarked' <=> (gcstate' \in MarkPhase => ~ iswhite(MainThread)' /\ ~ iswhite(Registry)')
  BY DEF Remarked, RemarkedLists

(***************************************************************************)
(* Steps of the program.                                                   *)
(***************************************************************************)

(* A step in which the objects of N are made or found again, white, and     *)
(* only they and objects that are never black (threads and open upvalues)  *)
(* get references, to objects that are not dead.                           *)
LEMMA QuietStep ==
  ASSUME FullInv, TypeOK', gcstate \notin AtomicStates,
         NEW N \in SUBSET (Objects \ Live),
         alive' = alive \cup N,
         color' = [o \in Objects |-> IF o \in N THEN currentwhite ELSE color[o]],
         UNCHANGED <<gcstate, currentwhite, tmudata, gray, grayagain, weak, unswept, sweepstrgc>>,
         gcstate = "sweepstring" => strsize' = strsize,
         \A u \in OpenUpvals : u \in OpenUpvals' /\ uvloc'[u] = uvloc[u],
         Roots' \subseteq Live \cup N,
         \A o \in Objects :
           /\ Refs(o)' \subseteq Live \cup N \cup (IF o \in N THEN {} ELSE Refs(o))
           /\ o \notin Threads \cup OpenUpvals \cup N => Refs(o)' = Refs(o)
           /\ o \notin alive' => Refs(o)' = Refs(o)
  PROVE  CheckLiveness' /\ TriColor' /\ GrayLists' /\ Remarked' /\ SweepComplete' /\ NeverGray' /\ FreedEmpty'
<1>1. /\ TypeOK /\ Live \subseteq alive /\ Live \subseteq Objects
      /\ \A o \in Live : Refs(o) \subseteq Live
      /\ currentwhite \in Whites /\ otherwhite \in Whites /\ currentwhite # otherwhite
      /\ gcstate \in MarkPhase => Live = alive
      /\ MainThread \in Live /\ Registry \in Live
  BY Basics
<1>2. /\ \A o \in N : color'[o] = currentwhite
      /\ \A o \in Objects \ N : color'[o] = color[o]
      /\ otherwhite' = otherwhite
  BY DEF otherwhite
<1>3. Live' = Live \cup N
  BY <1>1, <1>2 DEF Live, isdead, TypeOK, HeapType
<1>4. CheckLiveness'
  BY <1>1, <1>3 DEF CheckLiveness
<1>5. ASSUME gcstate \in MarkPhase, NEW o \in alive', color'[o] = "black",
             o \notin Range(tmudata), NEW r \in Refs(o)'
      PROVE  color'[r] \notin Whites
  <2>1. o \notin N /\ o \in alive /\ o \in Objects /\ color[o] = "black"
    BY <1>1, <1>2, <1>5 DEF TypeOK, HeapType
  <2>2. o \notin Threads \cup OpenUpvals
    BY <2>1 DEF FullInv, ListsInv, NeverBlack, isblack
  <2>3. Refs(o)' = Refs(o) /\ r \in Live
    BY <1>1, <1>5, <2>1, <2>2
  <2>4. color[r] \notin Whites
    BY <1>5, <2>1, <2>3 DEF FullInv, Safety, TriColor, isblack, iswhite
  <2> QED BY <1>1, <1>2, <2>3, <2>4
<1>6. TriColor'
  <2>1. gcstate' # "marktmu" /\ Range(tmudata)' = Range(tmudata)
    BY DEF Range
  <2> QED BY <1>5, <2>1 DEF TriColor, isblack, iswhite, MarkPhase
<1>7. GrayLists'
  <2> SUFFICES ASSUME gcstate \in MarkPhase PROVE GrayLists'
    BY DEF GrayLists, MarkPhase
  <2>1. GrayLists
    BY DEF FullInv, Safety
  <2>2. \A o \in alive : o \notin N
    BY <1>1
  <2>3. gray \cup grayagain \cup weak \subseteq {o \in alive : color[o] = "gray"}
    BY <2>1 DEF GrayLists
  <2>4. (gray \cup grayagain \cup weak)' \subseteq {o \in alive' : color'[o] = "gray"}
    BY <1>1, <1>2, <2>2, <2>3
  <2>5. \A o \in alive' : color'[o] = "gray" => o \in alive /\ color[o] = "gray"
    BY <1>1, <1>2 DEF TypeOK, HeapType
  <2> QED BY <2>1, <2>4, <2>5 DEF GrayLists
<1>8. Remarked'
  <2>1. MainThread \notin N /\ Registry \notin N
    BY <1>1
  <2> QED BY <1>1, <1>2, <2>1, RemarkedRunning, RemarkedRunningPrime
          DEF FullInv, Safety, iswhite, MarkPhase
<1>9. SweepComplete'
  <2>1. StillToSweep \subseteq StillToSweep'
    BY DEF StillToSweep, Range
  <2>2. ASSUME NEW o \in alive', gcstate' \in MarkPhase PROVE ~ isdead(o)'
    BY <1>1, <1>2, <2>2 DEF isdead, Live
  <2>3. ASSUME NEW o \in alive', gcstate' \notin MarkPhase, color'[o] # currentwhite'
        PROVE  o \in StillToSweep'
    <3>1. o \in alive /\ color[o] # currentwhite
      BY <1>1, <1>2, <2>3 DEF TypeOK, HeapType
    <3>2. o \in StillToSweep
      BY <2>3, <3>1 DEF FullInv, Safety, SweepComplete, MarkPhase
    <3> QED BY <2>1, <3>2
  <2> QED BY <2>2, <2>3 DEF SweepComplete
<1>10. NeverGray'
  BY <1>1, <1>2 DEF FullInv, Safety, NeverGray
<1>11. FreedEmpty'
  BY DEF FullInv, Safety, FreedEmpty
<1> QED BY <1>4, <1>6, <1>7, <1>8, <1>9, <1>10, <1>11

(* A store in a table t of references to the objects of V, which are not   *)
(* dead, with the backward barrier for those that it did not hold.          *)
LEMMA BackwardStep ==
  ASSUME FullInv, TypeOK', gcstate \notin AtomicStates,
         NEW t \in Tables \cap Live, NEW V, V \ {NoObj} \subseteq Live,
         luaC_barrierback(t, V),
         UNCHANGED <<alive, gcstate, currentwhite, tmudata, gray, weak, unswept, sweepstrgc, strsize,
                     uvloc, uvval, running, gmt>>,
         \A o \in Objects : Refs(o)' \subseteq Refs(o) \cup (IF o = t THEN V \ {NoObj} ELSE {})
  PROVE  CheckLiveness' /\ TriColor' /\ GrayLists' /\ Remarked' /\ SweepComplete' /\ NeverGray' /\ FreedEmpty'
<1>1. /\ TypeOK /\ Live \subseteq alive /\ Live \subseteq Objects
      /\ \A o \in Live : Refs(o) \subseteq Live
      /\ currentwhite \in Whites /\ otherwhite \in Whites /\ currentwhite # otherwhite
      /\ gcstate \in MarkPhase => Live = alive
      /\ MainThread \in Live /\ Registry \in Live
  BY Basics
<1>2. /\ otherwhite' = otherwhite /\ Roots' = Roots
      /\ OpenUpvals' = OpenUpvals /\ StillToSweep' = StillToSweep
      /\ Range(tmudata)' = Range(tmudata)
  BY DEF otherwhite, Roots, Range, OpenUpvals, IsOpen, StillToSweep
<1>3. \/ /\ color[t] = "black" /\ color'[t] = "gray" /\ grayagain' = grayagain \cup {t}
      \/ /\ color'[t] = color[t] /\ grayagain' = grayagain
         /\ color[t] = "black" => \A r \in V \ {NoObj} : color[r] \notin Whites
  BY DEF luaC_barrierback, isblack, iswhite, TypeOK, HeapType
<1>4. \A o \in Objects \ {t} : color'[o] = color[o]
  BY <1>1 DEF luaC_barrierback, TypeOK, HeapType
<1>5. Live' = Live
  BY <1>1, <1>2, <1>3, <1>4 DEF Live, isdead, TypeOK, HeapType
<1>6. CheckLiveness'
  BY <1>1, <1>2, <1>5 DEF CheckLiveness, FullInv, Safety
<1>7. \A o \in Objects : color[o] \notin Whites => color'[o] \notin Whites
  BY <1>3, <1>4
<1>8. ASSUME gcstate \in MarkPhase, NEW o \in alive', color'[o] = "black",
             o \notin Range(tmudata), NEW r \in Refs(o)'
      PROVE  color'[r] \notin Whites
  <2>1. o \in alive /\ o \in Objects /\ color[o] = "black"
    BY <1>1, <1>3, <1>4, <1>8 DEF TypeOK, HeapType
  <2>2. \A p \in Refs(o) : color[p] \notin Whites /\ p \in Objects
    BY <1>1, <1>8, <2>1 DEF FullInv, Safety, TriColor, isblack, iswhite
  <2>3. CASE o = t
    <3>1. \A p \in V \ {NoObj} : color[p] \notin Whites /\ p \in Objects
      BY <1>1, <1>3, <1>8, <2>3
    <3> QED BY <1>7, <1>8, <2>1, <2>2, <3>1
  <2>4. CASE o # t
    BY <1>7, <1>8, <2>1, <2>2, <2>4
  <2> QED BY <2>3, <2>4
<1>9. TriColor'
  <2>1. gcstate' # "marktmu"
    OBVIOUS
  <2> QED BY <1>2, <1>8, <2>1 DEF TriColor, isblack, iswhite, MarkPhase
<1>10. GrayLists'
  <2> SUFFICES ASSUME gcstate \in MarkPhase PROVE GrayLists'
    BY DEF GrayLists, MarkPhase
  <2>1. /\ gray \cup grayagain \cup weak \subseteq {o \in alive : color[o] = "gray"}
        /\ gray \cap (grayagain \cup weak) = {} /\ grayagain \cap weak = {}
        /\ \A o \in alive : color[o] = "gray" =>
             o \in gray \cup grayagain \cup weak \cup Strings \cup OpenUpvals
    BY DEF FullInv, Safety, GrayLists
  <2>2. \A o \in alive : o \in Objects
    BY <1>1 DEF TypeOK, HeapType
  <2>3. CASE color[t] = "black" /\ color'[t] = "gray" /\ grayagain' = grayagain \cup {t}
    <3>1. t \notin gray \cup grayagain \cup weak
      BY <2>1, <2>3
    <3>2. (gray \cup grayagain \cup weak)' \subseteq {o \in alive' : color'[o] = "gray"}
      BY <1>1, <1>4, <2>1, <2>2, <2>3, <3>1
    <3>3. \A o \in alive' : color'[o] = "gray" => o = t \/ color[o] = "gray"
      BY <1>4, <2>2
    <3> QED BY <1>2, <2>1, <2>3, <3>1, <3>2, <3>3 DEF GrayLists
  <2>4. CASE color'[t] = color[t] /\ grayagain' = grayagain
    <3>1. \A o \in alive : color'[o] = color[o]
      BY <1>4, <2>2, <2>4
    <3> QED BY <1>2, <2>1, <2>4, <3>1 DEF GrayLists
  <2> QED BY <1>3, <2>3, <2>4
<1>11. Remarked'
  BY <1>1, <1>7, RemarkedRunning, RemarkedRunningPrime DEF FullInv, Safety, iswhite, MarkPhase
<1>12. SweepComplete'
  <2>1. ASSUME NEW o \in alive', gcstate' \in MarkPhase PROVE ~ isdead(o)'
    BY <1>1, <1>5, <2>1 DEF Live
  <2>2. ASSUME NEW o \in alive', gcstate' \notin MarkPhase, color'[o] # currentwhite'
        PROVE  o \in StillToSweep'
    <3>1. o \in alive /\ color[o] # currentwhite
      BY <1>1, <1>3, <1>4, <2>2 DEF TypeOK, HeapType
    <3> QED BY <1>2, <2>2, <3>1 DEF FullInv, Safety, SweepComplete, MarkPhase
  <2> QED BY <2>1, <2>2 DEF SweepComplete
<1>13. NeverGray'
  BY <1>1, <1>4, KindsAssumption DEF FullInv, Safety, NeverGray
<1>14. FreedEmpty'
  BY <1>1 DEF FullInv, Safety, FreedEmpty
<1> QED BY <1>6, <1>9, <1>10, <1>11, <1>12, <1>13, <1>14

(* The colors that marking gives.                                          *)
LEMMA RecolorFacts ==
  ASSUME FullInv, NEW S, S \subseteq Live \cup {NoObj}, NEW o \in Objects
  PROVE  /\ o \notin Marked(S) => Recolor(S)[o] = color[o]
         /\ o \in Marked(S) => Recolor(S)[o] \in {"gray", "black"}
         /\ o \in Marked(S) /\ Recolor(S)[o] = "black" => o \in Udatas \cup Upvals /\ o \notin OpenUpvals
         /\ o \in Marked(S) /\ Recolor(S)[o] = "gray" => o \in HasGclist \cup Strings \cup OpenUpvals
         /\ o \in Udatas /\ Recolor(S)[o] = "gray" => color[o] = "gray"
<1>1. Marked(S) \subseteq Live /\ Live \subseteq alive
  BY MarkedFacts, Basics DEF FullInv, Safety
<1>2. o \in Upvals /\ o \in alive => (o \in OpenUpvals <=> IsOpen(o))
  BY DEF OpenUpvals
<1>3. Recolor(S)[o] = IF o \in Marked(S) THEN ColorOnceMarked(o) ELSE color[o]
  BY DEF Recolor
<1>4. ColorOnceMarked(o) = IF o \in Udatas \/ (o \in Upvals /\ ~ IsOpen(o)) THEN "black" ELSE "gray"
  BY DEF ColorOnceMarked
<1> QED BY <1>1, <1>2, <1>3, <1>4, KindsAssumption DEF OpenUpvals

(* A store of v in object p, a userdata, a function or a closed upvalue,     *)
(* with the forward barrier.                                               *)
LEMMA ForwardStep ==
  ASSUME FullInv, TypeOK', gcstate \notin AtomicStates,
         NEW p \in Live, p \notin Threads \cup OpenUpvals, NEW v \in Live \cup {NoObj},
         luaC_barrierf(p, v),
         UNCHANGED <<alive, gcstate, currentwhite, tmudata, grayagain, weak, unswept, sweepstrgc, strsize,
                     uvloc, running, gmt>>,
         \A o \in Objects : Refs(o)' \subseteq Refs(o) \cup (IF o = p THEN {v} \ {NoObj} ELSE {})
  PROVE  CheckLiveness' /\ TriColor' /\ GrayLists' /\ Remarked' /\ SweepComplete' /\ NeverGray' /\ FreedEmpty'
<1> DEFINE M == Marked({v})
<1>1. /\ TypeOK /\ Live \subseteq alive /\ Live \subseteq Objects
      /\ \A o \in Live : Refs(o) \subseteq Live
      /\ currentwhite \in Whites /\ otherwhite \in Whites /\ currentwhite # otherwhite
      /\ gcstate \in MarkPhase => Live = alive
      /\ MainThread \in Live /\ Registry \in Live
      /\ gcstate \in MarkPhase => gcstate = "propagate"
      /\ \A o \in alive : o \in Objects
  BY Basics DEF MarkPhase, TypeOK, HeapType
<1>2. /\ otherwhite' = otherwhite /\ Roots' = Roots
      /\ OpenUpvals' = OpenUpvals /\ StillToSweep' = StillToSweep
      /\ Range(tmudata)' = Range(tmudata)
  BY DEF otherwhite, Roots, Range, OpenUpvals, IsOpen, StillToSweep
<1>3. FreedEmpty'
  BY <1>1 DEF FullInv, Safety, FreedEmpty
<1>4. CASE gcstate = "propagate" /\ color[p] = "black" /\ v # NoObj /\ color[v] \in Whites
  <2>1. color' = Recolor({v}) /\ gray' = gray \cup (M \cap HasGclist)
    BY <1>4 DEF luaC_barrierf, MarkFrom, isblack, iswhite
  <2>2. {v} \subseteq Live \cup {NoObj}
    OBVIOUS
  <2>3. /\ M \subseteq Live /\ \A o \in M : color[o] \in Whites
        /\ v \in M
        /\ \A o \in M \cap (Udatas \cup Upvals) : \A r \in Refs(o) : color[r] \in Whites => r \in M
    BY <1>4, <2>2, MarkedFacts DEF iswhite, FullInv, Safety, ListsInv
  <2>4. \A o \in Objects :
          /\ o \notin M => color'[o] = color[o]
          /\ o \in M => color'[o] \in {"gray", "black"}
          /\ o \in M /\ color'[o] = "black" => o \in Udatas \cup Upvals
          /\ o \in M /\ color'[o] = "gray" => o \in HasGclist \cup Strings \cup OpenUpvals
          /\ o \in Udatas /\ color'[o] = "gray" => color[o] = "gray"
    BY <2>1, <2>2, RecolorFacts
  <2> HIDE DEF M
  <2>5. \A o \in Objects : color[o] \notin Whites \/ o \in M => color'[o] \notin Whites
    BY <2>4
  <2>6. Live' = alive
    BY <1>1, <1>2, <1>4, <2>4 DEF Live, isdead, MarkPhase
  <2>7. CheckLiveness'
    BY <1>1, <1>2, <1>4, <2>6 DEF CheckLiveness, FullInv, Safety, MarkPhase
  <2>8. ASSUME NEW o \in alive', color'[o] = "black", o \notin Range(tmudata), NEW r \in Refs(o)'
        PROVE  color'[r] \notin Whites
    <3>1. o \in Objects /\ o \in Live /\ Refs(o) \subseteq Objects
      BY <1>1, <1>4 DEF MarkPhase
    <3>2. CASE o \in M
      <4>1. o \in Udatas \cup Upvals /\ o # p
        BY <1>4, <2>3, <2>4, <2>8, <3>1, <3>2
      <4>2. r \in Refs(o) /\ (color[r] \in Whites => r \in M)
        BY <2>3, <2>8, <3>1, <3>2, <4>1
      <4> QED BY <2>5, <3>1, <4>2
    <3>3. CASE o \notin M
      <4>1. color[o] = "black"
        BY <2>4, <2>8, <3>1, <3>3
      <4>2. \A q \in Refs(o) : color[q] \notin Whites
        BY <1>1, <1>4, <2>8, <3>1, <4>1 DEF FullInv, Safety, TriColor, isblack, iswhite, MarkPhase
      <4>3. r \in Refs(o) \/ r = v
        BY <2>8, <3>1
      <4> QED BY <1>1, <2>3, <2>5, <3>1, <4>2, <4>3
    <3> QED BY <3>2, <3>3
  <2>9. TriColor'
    <3>1. gcstate' # "marktmu"
      BY <1>4
    <3> QED BY <1>2, <2>8, <3>1 DEF TriColor, isblack, iswhite
  <2>10. GrayLists'
    <3>1. /\ gray \cup grayagain \cup weak \subseteq {o \in alive : color[o] = "gray"}
          /\ gray \cap (grayagain \cup weak) = {} /\ grayagain \cap weak = {}
          /\ \A o \in alive : color[o] = "gray" =>
               o \in gray \cup grayagain \cup weak \cup Strings \cup OpenUpvals
      BY <1>4 DEF FullInv, Safety, GrayLists, MarkPhase
    <3>2. M \cap (gray \cup grayagain \cup weak) = {}
      BY <2>3, <3>1
    <3>3. \A o \in M \cap HasGclist : o \in alive' /\ color'[o] = "gray"
      <4>1. (Udatas \cup Upvals) \cap HasGclist = {}
        BY KindsAssumption
      <4> QED BY <1>1, <2>3, <2>4, <4>1
    <3>4. (gray \cup grayagain \cup weak)' \subseteq {o \in alive' : color'[o] = "gray"}
      <4> SUFFICES ASSUME NEW o \in (gray \cup grayagain \cup weak)'
                   PROVE  o \in alive' /\ color'[o] = "gray"
        OBVIOUS
      <4>1. CASE o \in M \cap HasGclist
        BY <3>3, <4>1
      <4>2. CASE o \in gray \cup grayagain \cup weak
        <5>1. o \in alive /\ color[o] = "gray" /\ o \notin M
          BY <3>1, <3>2, <4>2
        <5> QED BY <1>1, <2>4, <5>1
      <4> QED BY <2>1, <4>1, <4>2
    <3>5. \A o \in alive' : color'[o] = "gray" =>
             o \in (gray \cup grayagain \cup weak)' \cup Strings \cup OpenUpvals
      <4> SUFFICES ASSUME NEW o \in alive', color'[o] = "gray"
                   PROVE  o \in (gray \cup grayagain \cup weak)' \cup Strings \cup OpenUpvals
        OBVIOUS
      <4>1. o \in Objects /\ o \in alive
        BY <1>1
      <4>2. CASE o \in M
        <5>1. o \in HasGclist \cup Strings \cup OpenUpvals
          BY <2>4, <4>1, <4>2
        <5>2. M \cap HasGclist \subseteq gray'
          BY <2>1
        <5> QED BY <4>2, <5>1, <5>2
      <4>3. CASE o \notin M
        <5>1. color[o] = "gray"
          BY <2>4, <4>1, <4>3
        <5>2. o \in gray \cup grayagain \cup weak \cup Strings \cup OpenUpvals
          BY <3>1, <4>1, <5>1
        <5>3. gray \subseteq gray' /\ grayagain' = grayagain /\ weak' = weak
          BY <2>1
        <5> QED BY <5>2, <5>3
      <4> QED BY <4>2, <4>3
    <3> QED BY <1>2, <2>1, <3>1, <3>2, <3>4, <3>5 DEF GrayLists
  <2>11. Remarked'
    BY <1>1, <2>5, RemarkedRunning, RemarkedRunningPrime DEF FullInv, Safety, iswhite, MarkPhase
  <2>12. SweepComplete'
    BY <1>4, <2>6 DEF SweepComplete, Live, MarkPhase
  <2>13. NeverGray'
    BY <2>4 DEF FullInv, Safety, NeverGray
  <2> QED BY <1>3, <2>7, <2>9, <2>10, <2>11, <2>12, <2>13
<1>5. CASE ~ (gcstate = "propagate" /\ color[p] = "black" /\ v # NoObj /\ color[v] \in Whites)
  <2>1. /\ gray' = gray
        /\ \/ color' = color /\ (color[p] = "black" /\ v # NoObj => color[v] \notin Whites)
           \/ /\ color' = [color EXCEPT ![p] = currentwhite]
              /\ gcstate # "propagate" /\ color[p] = "black"
    BY <1>5 DEF luaC_barrierf, isblack, iswhite
  <2>2. /\ \A o \in Objects \ {p} : color'[o] = color[o]
        /\ color'[p] \in {color[p], currentwhite}
        /\ color'[p] # color[p] => gcstate # "propagate" /\ color[p] = "black"
    BY <1>1, <2>1 DEF TypeOK, HeapType
  <2>3. Live' = Live
    BY <1>1, <1>2, <2>2 DEF Live, isdead
  <2>4. CheckLiveness'
    BY <1>1, <1>2, <2>3 DEF CheckLiveness, FullInv, Safety
  <2>5. gcstate = "propagate" => color' = color /\ (color[p] = "black" /\ v # NoObj => color[v] \notin Whites)
    BY <2>1
  <2>6. TriColor'
    <3> SUFFICES ASSUME gcstate = "propagate", NEW o \in alive', color'[o] = "black",
                        o \notin Range(tmudata), NEW r \in Refs(o)'
                 PROVE  color'[r] \notin Whites
      BY <1>1, <1>2 DEF TriColor, isblack, iswhite, MarkPhase
    <3>1. \A q \in Refs(o) : color[q] \notin Whites
      BY <1>1, <2>5 DEF FullInv, Safety, TriColor, isblack, iswhite, MarkPhase
    <3>2. r \in Refs(o) \/ (o = p /\ r = v /\ v # NoObj)
      BY <1>1
    <3> QED BY <2>5, <3>1, <3>2
  <2>7. GrayLists'
    <3> SUFFICES ASSUME gcstate = "propagate" PROVE GrayLists'
      BY <1>1 DEF GrayLists
    <3>1. GrayLists
      BY DEF FullInv, Safety
    <3> QED BY <1>2, <2>1, <2>5, <3>1 DEF GrayLists, MarkPhase
  <2>8. Remarked'
    BY <1>1, <2>5, RemarkedRunning, RemarkedRunningPrime DEF FullInv, Safety, iswhite, MarkPhase
  <2>9. SweepComplete'
    <3>1. ASSUME NEW o \in alive', gcstate' \in MarkPhase PROVE ~ isdead(o)'
      BY <1>1, <2>3, <3>1 DEF Live
    <3>2. ASSUME NEW o \in alive', gcstate' \notin MarkPhase, color'[o] # currentwhite'
          PROVE  o \in StillToSweep'
      <4>1. o \in alive /\ color[o] # currentwhite
        BY <1>1, <2>2, <3>2
      <4> QED BY <1>2, <3>2, <4>1 DEF FullInv, Safety, SweepComplete, MarkPhase
    <3> QED BY <3>1, <3>2 DEF SweepComplete
  <2>10. NeverGray'
    BY <1>1, <2>2 DEF FullInv, Safety, NeverGray
  <2> QED BY <1>3, <2>4, <2>6, <2>7, <2>8, <2>9, <2>10
<1> QED BY <1>4, <1>5

(* A store of v, or of nothing, in a slot of a stack.                       *)
LEMMA StackStep ==
  ASSUME FullInv, TypeOK', gcstate \notin AtomicStates,
         NEW th \in Threads \cap alive, NEW s \in Slots, NEW v \in FirstClass, v \in Live \cup {NoObj},
         stack' = [stack EXCEPT ![th][s] = v],
         UNCHANGED <<heapVars, color, running, udVars, gray, listVars, ctlVars>>
  PROVE  Safety'
<1>1. /\ UNCHANGED <<alive, meta, fields, entries, uvloc, uvval, gmt, color, running, gray, grayagain, weak,
                     unswept, sweepstrgc, strsize, gcstate, currentwhite, tmudata>>
  BY DEF heapVars, udVars, listVars, ctlVars
<1>2. /\ TypeOK /\ OpenListed /\ running[1] = MainThread /\ Live \subseteq alive
      /\ Roots \subseteq Live
      /\ color \in [Objects -> Whites \cup {"gray", "black"}]
  BY Basics DEF FullInv, Safety, CheckLiveness, TypeOK, HeapType
<1>3. \A o \in Objects :
        /\ Refs(o)' \subseteq Refs(o) \cup ({v} \ {NoObj})
        /\ o \notin Threads \cup OpenUpvals => Refs(o)' = Refs(o)
        /\ o \notin alive => Refs(o)' = Refs(o)
  <2>1. /\ \A t \in Threads, z \in Slots : stack'[t][z] = IF t = th /\ z = s THEN v ELSE stack[t][z]
        /\ \A t \in Threads \ {th} : stack'[t] = stack[t]
    BY <1>2 DEF TypeOK, ProgramType
  <2> QED BY <1>1, <1>2, <2>1, PushRefs
<1>4. OpenListed' /\ running'[1] = MainThread
  BY <1>1, <1>2 DEF OpenListed, IsOpen
<1>5. OpenUpvals' = OpenUpvals /\ Roots' = Roots
  BY <1>1 DEF OpenUpvals, IsOpen, Roots, Range
<1>6. {} \in SUBSET (Objects \ Live) /\ alive' = alive \cup {}
      /\ color' = [o \in Objects |-> IF o \in {} THEN currentwhite ELSE color[o]]
  BY <1>1, <1>2
<1>7. /\ \A u \in OpenUpvals : u \in OpenUpvals' /\ uvloc'[u] = uvloc[u]
      /\ Roots' \subseteq Live \cup {}
      /\ gcstate = "sweepstring" => strsize' = strsize
  BY <1>1, <1>2, <1>5
<1>8. \A o \in Objects :
        /\ Refs(o)' \subseteq Live \cup {} \cup (IF o \in {} THEN {} ELSE Refs(o))
        /\ o \notin Threads \cup OpenUpvals \cup {} => Refs(o)' = Refs(o)
        /\ o \notin alive' => Refs(o)' = Refs(o)
  BY <1>1, <1>3
<1>9. CheckLiveness' /\ TriColor' /\ GrayLists' /\ Remarked' /\ SweepComplete' /\ NeverGray' /\ FreedEmpty'
  BY <1>1, <1>6, <1>7, <1>8, QuietStep
<1> QED BY <1>4, <1>9 DEF Safety

LEMMA StackOpsSafety ==
  ASSUME FullInv, TypeOK', NEW s \in LocalSlots,
         \/ \E v \in Held \cup {NoObj, cur} : Move(s, v)
         \/ \E o, v \in Objects : Load(o, v, s)
         \/ LoadBasicMetatable(s)
         \/ \E th \in Threads, v \in Held : StoreInThread(th, s, v)
  PROVE  Safety'
<1>1. /\ cur \in Threads \cap alive /\ cur \in Live /\ Held \subseteq Live /\ Registry \in Live /\ Live \subseteq alive
      /\ \A o \in Live : Refs(o) \subseteq Live
      /\ Held \subseteq FirstClass /\ NoObj \in FirstClass /\ cur \in FirstClass
      /\ gmt \in FirstClass /\ (gmt # NoObj => gmt \in Live) /\ Tables \subseteq FirstClass
      /\ GlobalSlot \in Slots
  BY Basics, HeldType, KindsAssumption DEF TypeOK, ProgramType
<1>2. CASE \E v \in Held \cup {NoObj, cur} : Move(s, v)
  <2> PICK v \in Held \cup {NoObj, cur} : Move(s, v)
    BY <1>2
  <2>1. gcstate \notin AtomicStates /\ v \in FirstClass /\ v \in Live \cup {NoObj}
    BY <1>1 DEF Move, MutatorRuns
  <2>2. /\ stack' = [stack EXCEPT ![cur][s] = v]
        /\ UNCHANGED <<heapVars, color, running, udVars, gray, listVars, ctlVars>>
    BY DEF Move, Push
  <2> QED BY <1>1, <2>1, <2>2, StackStep
<1>3. CASE \E o, v \in Objects : Load(o, v, s)
  <2> PICK o \in Objects, v \in Objects : Load(o, v, s)
    BY <1>3
  <2>1. o \in Live
    <3>1. \A f \in Held \cap Functions : fields[f] \subseteq Live
      <4> TAKE f \in Held \cap Functions
      <4>1. Refs(f) = fields[f]
        BY Basics DEF RefsByKind
      <4> QED BY <1>1, <4>1
    <3> QED BY <1>1, <3>1 DEF Load
  <2>2. gcstate \notin AtomicStates /\ v \in FirstClass /\ v \in Live
    BY <1>1, <2>1 DEF Load, MutatorRuns
  <2>3. /\ stack' = [stack EXCEPT ![cur][s] = v]
        /\ UNCHANGED <<heapVars, color, running, udVars, gray, listVars, ctlVars>>
    BY DEF Load, Push
  <2> QED BY <1>1, <2>2, <2>3, StackStep
<1>4. CASE LoadBasicMetatable(s)
  <2>1. gcstate \notin AtomicStates /\ gmt \in FirstClass /\ gmt \in Live
    BY <1>1, <1>4 DEF LoadBasicMetatable, MutatorRuns
  <2>2. /\ stack' = [stack EXCEPT ![cur][s] = gmt]
        /\ UNCHANGED <<heapVars, color, running, udVars, gray, listVars, ctlVars>>
    BY <1>4 DEF LoadBasicMetatable, Push
  <2> QED BY <1>1, <2>1, <2>2, StackStep
<1>5. CASE \E th \in Threads, v \in Held : StoreInThread(th, s, v)
  <2> PICK th \in Threads, v \in Held : StoreInThread(th, s, v)
    BY <1>5
  <2>1. gcstate \notin AtomicStates /\ v \in FirstClass /\ v \in Live /\ th \in Threads \cap alive
    BY <1>1 DEF StoreInThread, MutatorRuns
  <2>2. /\ stack' = [stack EXCEPT ![th][s] = v]
        /\ UNCHANGED <<heapVars, color, running, udVars, gray, listVars, ctlVars>>
    BY DEF StoreInThread
  <2> QED BY <1>1, <2>1, <2>2, StackStep
<1> QED BY <1>2, <1>3, <1>4, <1>5

LEMMA SetGlobalsSafety ==
  ASSUME FullInv, TypeOK', \E th \in Threads, t \in Tables : SetGlobals(th, t)
  PROVE  Safety'
<1> PICK th \in Threads, t \in Tables : SetGlobals(th, t)
  OBVIOUS
<1>1. gcstate \notin AtomicStates /\ t \in FirstClass /\ t \in Live /\ th \in Threads \cap alive
  BY Basics, KindsAssumption DEF SetGlobals, MutatorRuns
<1>2. /\ stack' = [stack EXCEPT ![th][GlobalSlot] = t]
      /\ UNCHANGED <<heapVars, color, running, udVars, gray, listVars, ctlVars>>
  BY DEF SetGlobals
<1> QED BY <1>1, <1>2, KindsAssumption, StackStep

(* The thread that runs, or the metatable of a basic type, changes.         *)
LEMMA ControlSafety ==
  ASSUME FullInv, TypeOK', (\E th \in Threads : Resume(th)) \/ Yield \/ \E m \in Values : SetBasicMeta(m)
  PROVE  Safety'
<1>1. /\ UNCHANGED <<alive, meta, fields, entries, uvloc, uvval, color, stack, gray, grayagain, weak,
                     unswept, sweepstrgc, strsize, gcstate, currentwhite, tmudata>>
      /\ gcstate \notin AtomicStates
  BY DEF Resume, Yield, SetBasicMeta, MutatorRuns, heapVars, udVars, listVars, ctlVars
<1>2. /\ TypeOK /\ OpenListed /\ FreedEmpty /\ running[1] = MainThread /\ Live \subseteq alive
      /\ Roots \subseteq Live /\ Range(running) \subseteq Live /\ Held \subseteq Live
      /\ color \in [Objects -> Whites \cup {"gray", "black"}]
      /\ running \in Seq(Threads) /\ Len(running) \in Nat \ {0}
  BY Basics, CurType DEF FullInv, Safety, CheckLiveness, TypeOK, HeapType, ProgramType
<1>3. /\ \A o \in Threads : Resumed(o)' \subseteq Live /\ (o \notin alive => Resumed(o)' = Resumed(o))
      /\ Roots' \subseteq Live /\ running'[1] = MainThread
  <2>1. CASE \E th \in Threads : Resume(th)
    <3> PICK th \in Threads : Resume(th)
      BY <2>1
    <3>1. th \in Live /\ running' = Append(running, th) /\ gmt' = gmt
      BY <1>2 DEF Resume, heapVars
    <3>2. /\ Len(running') = Len(running) + 1 /\ running'[Len(running) + 1] = th
          /\ \A i \in 1..Len(running) : running'[i] = running[i] /\ running[i] \in Range(running)
          /\ DOMAIN running' = 1..(Len(running) + 1)
      BY <1>2, <3>1 DEF Range
    <3>3. Range(running') \subseteq Range(running) \cup {th}
      BY <1>2, <3>2 DEF Range
    <3>4. \A o \in Threads : Resumed(o)' \subseteq Live
      BY <1>2, <3>1, <3>2 DEF Resumed
    <3>5. \A o \in Threads \ alive : Resumed(o)' = {} /\ Resumed(o) = {}
      BY <1>2, <3>2 DEF Resumed
    <3>6. Roots' \subseteq Live
      BY <1>1, <1>2, <3>1, <3>3 DEF Roots, Range
    <3>7. running'[1] = MainThread
      BY <1>2, <3>2
    <3> QED BY <3>4, <3>5, <3>6, <3>7
  <2>2. CASE Yield
    <3>1. running' = SubSeq(running, 1, Len(running) - 1) /\ Len(running) > 1 /\ gmt' = gmt
      BY <2>2 DEF Yield, heapVars
    <3>2. /\ Len(running') = Len(running) - 1
          /\ \A i \in 1..(Len(running) - 1) : running'[i] = running[i]
          /\ \A i \in 1..Len(running) : running[i] \in Range(running)
          /\ DOMAIN running' = 1..(Len(running) - 1)
      BY <1>2, <3>1 DEF Range
    <3>3. Range(running') \subseteq Range(running)
      <4> SUFFICES ASSUME NEW i \in DOMAIN running'
                   PROVE  running'[i] \in Range(running)
        BY DEF Range
      <4> i \in 1..(Len(running) - 1) /\ i \in 1..Len(running)
        BY <3>1, <3>2, <1>2
      <4> QED BY <3>2
    <3>4. \A o \in Threads : Resumed(o)' \subseteq Live
      BY <1>2, <3>2 DEF Resumed
    <3>5. \A o \in Threads \ alive : Resumed(o)' = {} /\ Resumed(o) = {}
      BY <1>2, <3>2 DEF Resumed
    <3>6. Roots' \subseteq Live
      BY <1>1, <1>2, <3>1, <3>3 DEF Roots, Range
    <3>7. running'[1] = MainThread
      BY <1>2, <3>1, <3>2
    <3> QED BY <3>4, <3>5, <3>6, <3>7
  <2>3. CASE \E m \in Values : SetBasicMeta(m)
    <3>1. running' = running /\ gmt' \in Live \cup {NoObj}
      BY <1>2, <2>3 DEF SetBasicMeta
    <3>2. \A o \in Threads : Resumed(o)' = Resumed(o) /\ Resumed(o) \subseteq Live
      BY <1>2, <3>1 DEF Resumed, Range
    <3>3. Roots' \subseteq Live
      BY <1>1, <1>2, <3>1 DEF Roots, Range
    <3> QED BY <1>2, <3>1, <3>2, <3>3
  <2> QED BY <2>1, <2>2, <2>3
<1>4. ASSUME NEW o \in Objects
      PROVE  /\ Refs(o)' \subseteq Live \cup {} \cup (IF o \in {} THEN {} ELSE Refs(o))
             /\ o \notin Threads \cup OpenUpvals \cup {} => Refs(o)' = Refs(o)
             /\ o \notin alive' => Refs(o)' = Refs(o)
  <2>1. CASE o \in Threads
    <3>1. Refs(o) = (Range(stack[o]) \cup Resumed(o)) \ {NoObj}
      BY <1>2, <2>1, RefsKinds DEF RefsByKind
    <3>2. Refs(o)' = (Range(stack[o])' \cup Resumed(o)') \ {NoObj}
      BY <2>1, RefsKindsPrime DEF RefsByKind
    <3>3. Range(stack[o])' = Range(stack[o])
      BY <1>1 DEF Range
    <3> QED BY <1>1, <1>3, <2>1, <3>1, <3>2, <3>3
  <2>2. CASE o \notin Threads
    <3>1. UpvalValue(o)' = UpvalValue(o)
      BY <1>1 DEF UpvalValue, IsOpen
    <3>2. Refs(o) = (OwnRefs(o) \cup Keys(o) \cup Vals(o)) \ {NoObj}
      BY DEF Refs
    <3>3. Refs(o)' = (OwnRefs(o)' \cup Keys(o)' \cup Vals(o)') \ {NoObj}
      BY DEF Refs
    <3>4. OwnRefs(o)' = OwnRefs(o) /\ Keys(o)' = Keys(o) /\ Vals(o)' = Vals(o)
      BY <1>1, <2>2, <3>1 DEF OwnRefs, Keys, Vals
    <3> QED BY <3>2, <3>3, <3>4
  <2> QED BY <2>1, <2>2
<1>5. {} \in SUBSET (Objects \ Live) /\ alive' = alive \cup {}
      /\ color' = [o \in Objects |-> IF o \in {} THEN currentwhite ELSE color[o]]
  BY <1>1, <1>2
<1>6. /\ \A u \in OpenUpvals : u \in OpenUpvals' /\ uvloc'[u] = uvloc[u]
      /\ Roots' \subseteq Live \cup {}
      /\ gcstate = "sweepstring" => strsize' = strsize
  BY <1>1, <1>3 DEF OpenUpvals, IsOpen
<1>7. CheckLiveness' /\ TriColor' /\ GrayLists' /\ Remarked' /\ SweepComplete' /\ NeverGray' /\ FreedEmpty'
  BY <1>1, <1>4, <1>5, <1>6, QuietStep
<1>8. OpenListed'
  BY <1>1, <1>2 DEF OpenListed, IsOpen
<1> QED BY <1>3, <1>7, <1>8 DEF Safety

(* A new object: all that it refers to was written by the step.            *)
LEMMA NewRefs ==
  ASSUME FullInv, TypeOK', NEW o \in Objects \ alive, UNCHANGED <<meta, running>>, entries'[o] = entries[o]
  PROVE  /\ o \in Tables \cup Strings => Refs(o)' = {}
         /\ o \in Udatas \cup Functions => Refs(o)' = fields'[o]
         /\ o \in Upvals => Refs(o)' = {UpvalValue(o)'} \ {NoObj}
         /\ o \in Threads => Refs(o)' = Range(stack[o])' \ {NoObj}
<1>1. /\ RefsByKind /\ RefsByKind' /\ Refs(o) = {}
      /\ NoObj \notin fields'[o]
  BY Basics, RefsKindsPrime, KindsAssumption DEF FullInv, Safety, FreedEmpty, TypeOK, HeapType
<1>2. o \in Tables \cup Udatas => meta'[o] = NoObj
  BY <1>1 DEF RefsByKind
<1>3. o \in Tables => Keys(o)' \cup Vals(o)' \subseteq {NoObj}
  <2>1. Keys(o)' = Keys(o) /\ Vals(o)' = Vals(o)
    BY DEF Keys, Vals
  <2> QED BY <1>1, <2>1 DEF RefsByKind
<1>4. o \in Threads => Resumed(o)' = {}
  <2>1. Resumed(o)' = Resumed(o)
    BY DEF Resumed
  <2>2. o \notin Range(running)
    BY Basics
  <2>3. running \in Seq(Threads)
    BY Basics DEF TypeOK, ProgramType
  <2>4. \A j \in 1..(Len(running) - 1) : running[j] \in Range(running)
    BY <2>3 DEF Range
  <2>5. Resumed(o) = {}
    BY <2>2, <2>4 DEF Resumed
  <2> QED BY <2>1, <2>5
<1>5. o \in Tables => Refs(o)' = {}
  BY <1>1, <1>2, <1>3 DEF RefsByKind
<1>6. o \in Strings => Refs(o)' = {}
  BY <1>1 DEF RefsByKind
<1>7. o \in Functions => Refs(o)' = fields'[o]
  BY <1>1 DEF RefsByKind
<1>8. o \in Udatas => Refs(o)' = fields'[o]
  <2>1. o \in Udatas => Refs(o)' = (fields'[o] \cup {meta'[o]}) \ {NoObj}
    BY <1>1 DEF RefsByKind
  <2> QED BY <1>1, <1>2, <2>1
<1>9. o \in Upvals => Refs(o)' = {UpvalValue(o)'} \ {NoObj}
  BY <1>1 DEF RefsByKind
<1>10. o \in Threads => Refs(o)' = Range(stack[o])' \ {NoObj}
  BY <1>1, <1>4 DEF RefsByKind
<1> QED BY <1>5, <1>6, <1>7, <1>8, <1>9, <1>10

(* The objects of N are made, or found again, and v is pushed.              *)
Makes(N, s, v) ==
  /\ alive' = alive \cup N
  /\ color' = [o \in Objects |-> IF o \in N THEN currentwhite ELSE color[o]]
  /\ UNCHANGED <<meta, entries, uvval, gmt, running, gcstate, currentwhite, tmudata, gray, grayagain, weak,
                 unswept, sweepstrgc>>
  /\ gcstate = "sweepstring" => strsize' = strsize
  /\ \A o \in Objects \ N : fields'[o] = fields[o]
  /\ \A u \in Upvals \ N : uvloc'[u] = uvloc[u]
  /\ \A u \in N \cap alive : uvloc'[u] = uvloc[u]
  /\ \A t \in Threads \cap alive, z \in Slots :
       stack'[t][z] = IF t = cur /\ z = s THEN v ELSE stack[t][z]
  /\ \A t \in Threads \ (alive \cup N) : stack'[t] = stack[t]
  /\ N \cap Threads \cap alive = {}
  /\ \A o \in N : Refs(o)' \subseteq Live \cup N
  /\ \A u \in N \cap Upvals : uvloc'[u] # Closed => uvloc'[u][1] \in alive /\ uvval[u] = NoObj

LEMMA MakeStep ==
  ASSUME FullInv, TypeOK', gcstate \notin AtomicStates,
         NEW N \in SUBSET (Objects \ Live), NEW s \in Slots, NEW v \in FirstClass \cap (Live \cup N),
         Makes(N, s, v)
  PROVE  Safety'
<1> USE DEF Makes
<1>1. /\ TypeOK /\ OpenListed /\ running[1] = MainThread /\ Live \subseteq alive
      /\ Roots \subseteq Live /\ cur \in Threads \cap Live /\ NoObj \notin Objects
      /\ \A u \in OpenUpvals : u \in Upvals \cap alive
  BY Basics, KindsAssumption DEF FullInv, Safety, CheckLiveness, OpenUpvals
<1>2. ASSUME NEW o \in Objects \ N
      PROVE  /\ Refs(o)' \subseteq Refs(o) \cup ({v} \ {NoObj})
             /\ o \notin Threads \cup OpenUpvals => Refs(o)' = Refs(o)
             /\ o \notin alive => Refs(o)' = Refs(o)
  <2>1. fields'[o] = fields[o] /\ entries'[o] = entries[o] /\ UNCHANGED <<meta, running>>
    OBVIOUS
  <2>2. o \in Upvals => uvloc'[o] = uvloc[o] /\ uvval'[o] = uvval[o]
    OBVIOUS
  <2>3. o \in Threads \ alive => stack'[o] = stack[o] /\ o # cur
    BY <1>1
  <2> QED BY <1>1, <2>1, <2>2, <2>3, PushRefs
<1>3. \A o \in Objects :
        /\ Refs(o)' \subseteq Live \cup N \cup (IF o \in N THEN {} ELSE Refs(o))
        /\ o \notin Threads \cup OpenUpvals \cup N => Refs(o)' = Refs(o)
        /\ o \notin alive' => Refs(o)' = Refs(o)
  BY <1>2
<1>4. \A u \in OpenUpvals : u \in OpenUpvals' /\ uvloc'[u] = uvloc[u]
  BY <1>1 DEF OpenUpvals, IsOpen
<1>5. Roots' \subseteq Live \cup N
  <2>1. Roots' = Roots
    BY DEF Roots, Range
  <2> QED BY <1>1, <2>1
<1>6. CheckLiveness' /\ TriColor' /\ GrayLists' /\ Remarked' /\ SweepComplete' /\ NeverGray' /\ FreedEmpty'
  BY <1>3, <1>4, <1>5, QuietStep
<1>7. OpenListed'
  BY <1>1 DEF OpenListed, IsOpen
<1>8. running'[1] = MainThread
  BY <1>1
<1> QED BY <1>6, <1>7, <1>8 DEF Safety

(* One new object that is not an upvalue.                                   *)
MakesOne(o, s) ==
  /\ alive' = alive \cup {o} /\ color' = [color EXCEPT ![o] = currentwhite]
  /\ UNCHANGED <<meta, entries, uvloc, uvval, gmt, running, gcstate, currentwhite, tmudata, gray, grayagain,
                 weak, unswept, sweepstrgc>>
  /\ gcstate = "sweepstring" => strsize' = strsize
  /\ \A p \in Objects \ {o} : fields'[p] = fields[p]
  /\ \A t \in Threads \cap alive, z \in Slots :
       stack'[t][z] = IF t = cur /\ z = s THEN o ELSE stack[t][z]
  /\ \A t \in Threads \ (alive \cup {o}) : stack'[t] = stack[t]
  /\ Refs(o)' \subseteq Live

LEMMA MakeOne ==
  ASSUME FullInv, TypeOK', gcstate \notin AtomicStates,
         NEW o \in Objects \ alive, o \notin Upvals, NEW s \in Slots, MakesOne(o, s)
  PROVE  Safety'
<1>1. {o} \in SUBSET (Objects \ Live) /\ o \in FirstClass \cap (Live \cup {o})
  BY Basics
<1>2. color' = [p \in Objects |-> IF p \in {o} THEN currentwhite ELSE color[p]]
  BY Basics DEF MakesOne, TypeOK, HeapType
<1>3. /\ {o} \cap alive = {}
      /\ {o} \cap Threads \cap alive = {}
      /\ \A u \in Upvals \ {o} : uvloc'[u] = uvloc[u]
      /\ \A u \in {o} \cap alive : uvloc'[u] = uvloc[u]
      /\ \A p \in {o} : Refs(p)' \subseteq Live \cup {o}
      /\ \A u \in {o} \cap Upvals : uvloc'[u] # Closed => uvloc'[u][1] \in alive /\ uvval[u] = NoObj
  BY DEF MakesOne
<1>4. Makes({o}, s, o)
  BY <1>2, <1>3 DEF Makes, MakesOne
<1> QED BY <1>1, <1>4, MakeStep

LEMMA PushFacts ==
  ASSUME TypeOK, NEW s \in LocalSlots, NEW v, Push(s, v)
  PROVE  /\ s \in Slots /\ cur \in Threads
         /\ \A t \in Threads, z \in Slots : stack'[t][z] = IF t = cur /\ z = s THEN v ELSE stack[t][z]
         /\ \A t \in Threads \ {cur} : stack'[t] = stack[t]
<1>1. s \in Slots /\ cur \in Threads /\ stack \in [Threads -> [Slots -> FirstClass]]
  BY CurType DEF TypeOK, ProgramType
<1>2. stack' = [stack EXCEPT ![cur] = [stack[cur] EXCEPT ![s] = v]]
  BY DEF Push
<1> QED BY <1>1, <1>2

LEMMA NewTableSafety ==
  ASSUME FullInv, TypeOK', NEW s \in LocalSlots, NEW t \in Tables, NewTable(t, s)
  PROVE  Safety'
<1>1. /\ TypeOK /\ t \in Objects \ alive /\ t \in Objects \ Live /\ t \in FirstClass /\ t \notin Udatas \cup Functions
      /\ t \notin Upvals \cup Threads
      /\ cur \in Threads
  BY Basics, KindsAssumption DEF NewTable, Link, FullInv, ListsInv
<1>2. /\ color' = [color EXCEPT ![t] = currentwhite]
      /\ Push(s, t)
  BY DEF NewTable, Link
<1>5. /\ s \in Slots
      /\ \A th \in Threads \cap alive, z \in Slots :
           stack'[th][z] = IF th = cur /\ z = s THEN t ELSE stack[th][z]
      /\ \A th \in Threads \ alive : stack'[th] = stack[th]
  BY <1>1, <1>2, Basics, PushFacts
<1>3. /\ alive' = alive \cup {t} /\ gcstate \notin AtomicStates
      /\ UNCHANGED <<meta, fields, entries, uvloc, uvval, gmt, running, gcstate, currentwhite, tmudata, gray,
                     grayagain, weak, unswept, sweepstrgc, strsize>>
  BY DEF NewTable, MutatorRuns, udVars, listVars, ctlVars
<1>4. Refs(t)' = {}
  BY <1>1, <1>3, NewRefs
<1>8. MakesOne(t, s)
  BY <1>1, <1>2, <1>3, <1>4, <1>5 DEF MakesOne
<1> QED BY <1>1, <1>3, <1>5, <1>8, MakeOne

LEMMA NewUdataSafety ==
  ASSUME FullInv, TypeOK', NEW s \in LocalSlots, NEW u \in Udatas, NEW env \in Tables, NewUdata(u, env, s)
  PROVE  Safety'
<1>1. /\ TypeOK /\ u \in Objects \ alive /\ u \in Objects \ Live /\ u \in FirstClass
      /\ u \notin Upvals \cup Threads
      /\ cur \in Threads /\ env \in Live
  BY Basics, KindsAssumption DEF NewUdata, Link, FullInv, ListsInv
<1>2. /\ color' = [color EXCEPT ![u] = currentwhite]
      /\ Push(s, u)
      /\ fields' = [fields EXCEPT ![u] = {env}]
  BY DEF NewUdata, Link
<1>5. /\ s \in Slots
      /\ \A th \in Threads \cap alive, z \in Slots :
           stack'[th][z] = IF th = cur /\ z = s THEN u ELSE stack[th][z]
      /\ \A th \in Threads \ alive : stack'[th] = stack[th]
  BY <1>1, <1>2, Basics, PushFacts
<1>6. (\A o \in Objects \ {u} : fields'[o] = fields[o]) /\ fields'[u] = {env}
  BY <1>1, <1>2 DEF TypeOK, HeapType
<1>3. /\ alive' = alive \cup {u} /\ gcstate \notin AtomicStates
      /\ UNCHANGED <<meta, entries, uvloc, uvval, gmt, running, gcstate, currentwhite, tmudata, gray,
                     grayagain, weak, unswept, sweepstrgc, strsize>>
  BY DEF NewUdata, MutatorRuns, listVars, ctlVars
<1>4. Refs(u)' = {env}
  BY <1>1, <1>6, <1>3, NewRefs
<1>8. MakesOne(u, s)
  BY <1>1, <1>2, <1>3, <1>4, <1>5, <1>6 DEF MakesOne
<1> QED BY <1>1, <1>3, <1>5, <1>8, MakeOne

(* What a function that the program holds has as upvalues is not dead.      *)
LEMMA HeldUpvals ==
  ASSUME FullInv
  PROVE  \A g \in Held \cap Functions : fields[g] \subseteq Live
<1> TAKE g \in Held \cap Functions
<1>1. Refs(g) = fields[g]
  BY Basics DEF RefsByKind
<1> QED BY <1>1, Basics

LEMMA NewFunctionSafety ==
  ASSUME FullInv, TypeOK', NEW s \in LocalSlots, NEW f \in Functions, NEW S, NewFunction(f, S, s)
  PROVE  Safety'
<1>1. /\ TypeOK /\ f \in Objects \ alive /\ f \in Objects \ Live /\ f \in FirstClass
      /\ f \notin Upvals \cup Threads
      /\ cur \in Threads /\ S \subseteq Live
  BY Basics, HeldUpvals, KindsAssumption DEF NewFunction, Link, FullInv, ListsInv
<1>2. /\ color' = [color EXCEPT ![f] = currentwhite]
      /\ Push(s, f)
      /\ fields' = [fields EXCEPT ![f] = S]
  BY DEF NewFunction, Link
<1>5. /\ s \in Slots
      /\ \A th \in Threads \cap alive, z \in Slots :
           stack'[th][z] = IF th = cur /\ z = s THEN f ELSE stack[th][z]
      /\ \A th \in Threads \ alive : stack'[th] = stack[th]
  BY <1>1, <1>2, Basics, PushFacts
<1>6. (\A o \in Objects \ {f} : fields'[o] = fields[o]) /\ fields'[f] = S
  BY <1>1, <1>2 DEF TypeOK, HeapType
<1>3. /\ alive' = alive \cup {f} /\ gcstate \notin AtomicStates
      /\ UNCHANGED <<meta, entries, uvloc, uvval, gmt, running, gcstate, currentwhite, tmudata, gray,
                     grayagain, weak, unswept, sweepstrgc, strsize>>
  BY DEF NewFunction, MutatorRuns, udVars, listVars, ctlVars
<1>4. Refs(f)' = S
  BY <1>1, <1>6, <1>3, NewRefs
<1>8. MakesOne(f, s)
  BY <1>1, <1>2, <1>3, <1>4, <1>5, <1>6 DEF MakesOne
<1> QED BY <1>1, <1>3, <1>5, <1>8, MakeOne

LEMMA NewThreadSafety ==
  ASSUME FullInv, TypeOK', NEW s \in LocalSlots, NEW th \in Threads, NewThread(th, s)
  PROVE  Safety'
<1>1. /\ TypeOK /\ th \in Objects \ alive /\ th \in Objects \ Live /\ th \in FirstClass
      /\ th \notin Upvals \cup Udatas \cup Functions
      /\ cur \in Threads /\ cur \in Live /\ cur \in alive /\ cur # th
      /\ s \in Slots /\ s # GlobalSlot /\ GlobalSlot \in Slots
  BY Basics, KindsAssumption DEF NewThread, Link, FullInv, ListsInv
<1>2. /\ \A t \in Threads \cap alive, z \in Slots :
           stack'[t][z] = IF t = cur /\ z = s THEN th ELSE stack[t][z]
      /\ \A t \in Threads \ (alive \cup {th}) : stack'[t] = stack[t]
      /\ \A z \in Slots : stack'[th][z] \in {stack[th][z], stack[cur][GlobalSlot]}
      /\ stack'[th] \in [Slots -> FirstClass]
      /\ stack[th] \in [Slots -> FirstClass] /\ stack[cur] \in [Slots -> FirstClass]
  <2>1. /\ stack \in [Threads -> [Slots -> FirstClass]]
        /\ stack' = [stack EXCEPT ![cur] = [stack[cur] EXCEPT ![s] = th],
                                  ![th] = [stack[th] EXCEPT ![GlobalSlot] = stack[cur][GlobalSlot]]]
    BY <1>1 DEF NewThread, TypeOK, ProgramType
  <2>2. stack' \in [Threads -> [Slots -> FirstClass]]
    BY DEF TypeOK, ProgramType
  <2> QED BY <1>1, <2>1, <2>2
<1>3. /\ color' = [color EXCEPT ![th] = currentwhite]
      /\ alive' = alive \cup {th} /\ gcstate \notin AtomicStates
      /\ UNCHANGED <<meta, fields, entries, uvloc, uvval, gmt, running, gcstate, currentwhite, tmudata, gray,
                     grayagain, weak, unswept, sweepstrgc, strsize>>
  BY DEF NewThread, Link, MutatorRuns, udVars, listVars, ctlVars
<1>4. Refs(th)' = Range(stack[th])' \ {NoObj}
  BY <1>1, <1>3, NewRefs
<1>5. Range(stack[th]) \subseteq {NoObj}
  <2>1. Refs(th) = (Range(stack[th]) \cup Resumed(th)) \ {NoObj}
    BY RefsKinds, <1>1 DEF RefsByKind
  <2> QED BY <1>1, <2>1 DEF FullInv, Safety, FreedEmpty
<1>6. stack[cur][GlobalSlot] \in Live \cup {NoObj}
  <2>1. Refs(cur) = (Range(stack[cur]) \cup Resumed(cur)) \ {NoObj}
    BY RefsKinds, <1>1 DEF RefsByKind
  <2>2. stack[cur][GlobalSlot] \in Range(stack[cur])
    BY <1>1, <1>2 DEF Range
  <2> QED BY <1>1, <2>1, <2>2, Basics
<1>7. Refs(th)' \subseteq Live
  <2>1. \A z \in Slots : stack[th][z] \in Range(stack[th])
    BY <1>2 DEF Range
  <2>2. \A z \in Slots : stack'[th][z] \in Live \cup {NoObj}
    BY <1>2, <1>5, <1>6, <2>1
  <2> QED BY <1>2, <1>4, <2>2 DEF Range
<1>8. MakesOne(th, s)
  BY <1>1, <1>2, <1>3, <1>7 DEF MakesOne
<1> QED BY <1>1, <1>3, <1>8, MakeOne

(***************************************************************************)
(* The operations of the program that store in the                         *)
(* object graph, and so need a barrier, that capture and close variables,  *)
(* and that find strings again, never leave what can be reached dead.      *)
(***************************************************************************)

(***************************************************************************)
(* Strings and upvalues that are found again.                              *)
(***************************************************************************)
LEMMA NewStringSafety ==
  ASSUME FullInv, TypeOK', NEW s \in LocalSlots, NEW str \in Strings, NewString(str, s)
  PROVE  Safety'
<1> DEFINE N == IF str \in Live THEN {} ELSE {str}
<1>1. /\ TypeOK /\ str \in Objects /\ str \in FirstClass /\ str \notin Upvals \cup Threads
      /\ cur \in Threads /\ Live \subseteq alive /\ s \in Slots /\ otherwhite # currentwhite
      /\ color \in [Objects -> Whites \cup {"gray", "black"}]
  BY Basics, KindsAssumption DEF TypeOK, HeapType
<1>2. /\ gcstate \notin AtomicStates /\ Push(s, str) /\ alive' = alive \cup {str}
      /\ color' = [color EXCEPT ![str] = IF str \in alive THEN Resurrected(str) ELSE currentwhite]
      /\ UNCHANGED <<meta, fields, entries, uvloc, uvval, gmt, running, gcstate, currentwhite, tmudata, gray,
                     grayagain, weak, unswept, sweepstrgc>>
      /\ strsize' = IF str \in alive THEN strsize ELSE luaS_resize
  BY DEF NewString, MutatorRuns, udVars, ctlVars
<1>3. gcstate = "sweepstring" => strsize' = strsize
  BY <1>2 DEF luaS_resize
<1>4. color' = [o \in Objects |-> IF o \in N THEN currentwhite ELSE color[o]]
  <2>1. str \in alive => (str \in Live <=> ~ isdead(str))
    BY DEF Live
  <2> QED BY <1>1, <1>2, <2>1 DEF Resurrected
<1>5. alive' = alive \cup N
  BY <1>1, <1>2
<1>6. /\ \A t \in Threads \cap alive, z \in Slots :
           stack'[t][z] = IF t = cur /\ z = s THEN str ELSE stack[t][z]
      /\ \A t \in Threads \ alive : stack'[t] = stack[t]
  BY <1>1, <1>2, Basics, PushFacts
<1>7. Refs(str)' = {}
  BY RefsKindsPrime, <1>1 DEF RefsByKind
<1>8. Makes(N, s, str)
  <2>1. N \cap (Upvals \cup Threads) = {} /\ \A o \in N : o = str
    BY <1>1
  <2> HIDE DEF N
  <2> QED BY <1>2, <1>3, <1>4, <1>5, <1>6, <1>7, <2>1 DEF Makes
<1>9. N \in SUBSET (Objects \ Live) /\ str \in FirstClass \cap (Live \cup N)
  BY <1>1
<1> HIDE DEF N
<1> QED BY <1>1, <1>2, <1>8, <1>9, MakeStep

LEMMA CaptureOpenSafety ==
  ASSUME FullInv, TypeOK', NEW s \in LocalSlots, NEW f \in Functions, NEW u \in Upvals, CaptureOpen(f, u, s)
  PROVE  Safety'
<1> DEFINE N == IF u \in Live THEN {f} ELSE {f, u}
<1>1. /\ TypeOK /\ f \in Objects \ alive /\ f \in FirstClass /\ f \notin Upvals \cup Threads
      /\ u \in Objects /\ u \notin Threads /\ u # f /\ u \in alive /\ u \in OpenUpvals /\ IsOpen(u)
      /\ cur \in Threads /\ cur \in alive /\ Live \subseteq alive /\ s \in Slots
      /\ color \in [Objects -> Whites \cup {"gray", "black"}]
      /\ fields \in [Objects -> SUBSET Objects]
  BY Basics, KindsAssumption DEF CaptureOpen, OpenUpvals, TypeOK, HeapType
<1>2. /\ gcstate \notin AtomicStates /\ Push(s, f) /\ alive' = alive \cup {f} /\ uvloc[u][1] = cur
      /\ color' = [color EXCEPT ![f] = currentwhite, ![u] = Resurrected(u)]
      /\ fields' = [fields EXCEPT ![f] = {u}]
      /\ UNCHANGED <<meta, entries, uvloc, uvval, gmt, running, gcstate, currentwhite, tmudata, gray,
                     grayagain, weak, unswept, sweepstrgc, strsize>>
  BY DEF CaptureOpen, MutatorRuns, udVars, listVars, ctlVars
<1>3. color' = [o \in Objects |-> IF o \in N THEN currentwhite ELSE color[o]]
  <2>1. u \in Live <=> ~ isdead(u)
    BY <1>1 DEF Live
  <2>2. Resurrected(u) = IF u \in Live THEN color[u] ELSE currentwhite
    BY <2>1 DEF Resurrected
  <2>3. color' \in [Objects -> Whites \cup {"gray", "black"}]
    BY DEF TypeOK, HeapType
  <2>4. color'[f] = currentwhite /\ color'[u] = Resurrected(u)
    BY <1>1, <1>2
  <2>5. \A o \in Objects \ {f, u} : color'[o] = color[o]
    BY <1>1, <1>2
  <2>6. \A o \in Objects : color'[o] = IF o \in N THEN currentwhite ELSE color[o]
    BY <1>1, <2>2, <2>4, <2>5
  <2> HIDE DEF N
  <2> QED BY <2>3, <2>6
<1>4. alive' = alive \cup N /\ \A o \in Objects \ N : fields'[o] = fields[o]
  BY <1>1, <1>2
<1>5. /\ \A t \in Threads, z \in Slots : stack'[t][z] = IF t = cur /\ z = s THEN f ELSE stack[t][z]
      /\ \A t \in Threads \ alive : stack'[t] = stack[t]
  BY <1>1, <1>2, PushFacts
<1>6. Refs(f)' \subseteq Live \cup N
  <2>1. Refs(f)' = {u}
    BY <1>1, <1>2, NewRefs
  <2> QED BY <2>1
<1>7. Refs(u)' \subseteq Live \cup N
  <2>1. Refs(u)' = {UpvalValue(u)'} \ {NoObj}
    BY RefsKindsPrime DEF RefsByKind
  <2>2. uvloc[u][2] \in Slots
    BY <1>1 DEF TypeOK, ProgramType, IsOpen
  <2>3. UpvalValue(u)' = stack'[cur][uvloc[u][2]]
    BY <1>1, <1>2 DEF UpvalValue, IsOpen
  <2>4. stack[cur][uvloc[u][2]] \in Held \cup {NoObj}
    BY <1>1, <2>2 DEF Held, StackOf, Range, TypeOK, ProgramType
  <2> QED BY <1>1, <1>5, <2>1, <2>2, <2>3, <2>4, Basics
<1>8. uvval[u] = NoObj
  BY <1>1 DEF FullInv, Safety, OpenListed
<1>9. Makes(N, s, f)
  <2>1. N \cap Upvals \subseteq {u} /\ N \cap Threads = {} /\ \A o \in N : o \in {f, u}
    BY <1>1
  <2> HIDE DEF N
  <2>2. /\ \A w \in Upvals \ N : uvloc'[w] = uvloc[w]
        /\ \A w \in N \cap alive : uvloc'[w] = uvloc[w]
        /\ \A w \in N \cap Upvals : uvloc'[w] # Closed => uvloc'[w][1] \in alive /\ uvval[w] = NoObj
    BY <1>1, <1>2, <1>8, <2>1
  <2>3. \A o \in N : Refs(o)' \subseteq Live \cup N
    BY <1>6, <1>7, <2>1
  <2>4. /\ \A t \in Threads \cap alive, z \in Slots :
             stack'[t][z] = IF t = cur /\ z = s THEN f ELSE stack[t][z]
        /\ \A t \in Threads \ (alive \cup N) : stack'[t] = stack[t]
        /\ N \cap Threads \cap alive = {}
    BY <1>5, <2>1
  <2> QED BY <1>2, <1>3, <1>4, <2>2, <2>3, <2>4 DEF Makes
<1>10. N \in SUBSET (Objects \ Live) /\ f \in FirstClass \cap (Live \cup N)
  BY <1>1
<1> HIDE DEF N
<1> QED BY <1>1, <1>2, <1>9, <1>10, MakeStep

LEMMA CaptureNewSafety ==
  ASSUME FullInv, TypeOK', NEW s \in LocalSlots, NEW f \in Functions, NEW u \in Upvals,
         NEW level \in LocalSlots, CaptureNew(f, u, level, s)
  PROVE  Safety'
<1>1. /\ TypeOK /\ f \in Objects \ alive /\ f \in FirstClass /\ f \notin Upvals \cup Threads
      /\ u \in Objects \ alive /\ u \notin Threads /\ u # f
      /\ cur \in Threads /\ cur \in alive /\ Live \subseteq alive /\ s \in Slots /\ level \in Slots
      /\ color \in [Objects -> Whites \cup {"gray", "black"}]
      /\ fields \in [Objects -> SUBSET Objects]
  BY Basics, KindsAssumption DEF CaptureNew, TypeOK, HeapType
<1>2. /\ gcstate \notin AtomicStates /\ Push(s, f) /\ alive' = alive \cup {f, u}
      /\ color' = [color EXCEPT ![f] = currentwhite, ![u] = currentwhite]
      /\ fields' = [fields EXCEPT ![f] = {u}]
      /\ uvloc' = [uvloc EXCEPT ![u] = <<cur, level>>]
      /\ UNCHANGED <<meta, entries, uvval, gmt, running, gcstate, currentwhite, tmudata, gray,
                     grayagain, weak, unswept, sweepstrgc, strsize>>
  BY DEF CaptureNew, MutatorRuns, udVars, listVars, ctlVars
<1>3. color' = [o \in Objects |-> IF o \in {f, u} THEN currentwhite ELSE color[o]]
  BY <1>1, <1>2
<1>4. /\ \A o \in Objects \ {f, u} : fields'[o] = fields[o]
      /\ fields'[f] = {u}
      /\ uvloc'[u] = <<cur, level>> /\ \A w \in Upvals \ {u} : uvloc'[w] = uvloc[w]
  BY <1>1, <1>2 DEF TypeOK, ProgramType
<1>5. /\ \A t \in Threads, z \in Slots : stack'[t][z] = IF t = cur /\ z = s THEN f ELSE stack[t][z]
      /\ \A t \in Threads \ alive : stack'[t] = stack[t]
  BY <1>1, <1>2, PushFacts
<1>6. Refs(f)' = {u}
  BY <1>1, <1>2, <1>4, NewRefs
<1>7. Refs(u)' \subseteq Live \cup {f, u}
  <2>1. Refs(u)' = {UpvalValue(u)'} \ {NoObj}
    BY RefsKindsPrime DEF RefsByKind
  <2>2. UpvalValue(u)' = stack'[cur][level]
    BY <1>4 DEF UpvalValue, IsOpen
  <2>3. stack[cur][level] \in Held \cup {NoObj}
    BY <1>1 DEF Held, StackOf, Range, TypeOK, ProgramType
  <2> QED BY <1>1, <1>5, <2>1, <2>2, <2>3, Basics
<1>8. uvval[u] = NoObj
  <2>1. ~ IsOpen(u) /\ Refs(u) = {}
    BY <1>1 DEF FullInv, Safety, OpenListed, FreedEmpty
  <2>2. Refs(u) = {UpvalValue(u)} \ {NoObj}
    BY RefsKinds, <1>1 DEF RefsByKind
  <2> QED BY <2>1, <2>2 DEF UpvalValue
<1>9. Makes({f, u}, s, f)
  <2>1. /\ \A w \in Upvals \ {f, u} : uvloc'[w] = uvloc[w]
        /\ \A w \in {f, u} \cap alive : uvloc'[w] = uvloc[w]
        /\ \A w \in {f, u} \cap Upvals : uvloc'[w] # Closed => uvloc'[w][1] \in alive /\ uvval[w] = NoObj
    BY <1>1, <1>4, <1>8
  <2>2. \A o \in {f, u} : Refs(o)' \subseteq Live \cup {f, u}
    BY <1>6, <1>7
  <2>3. /\ \A t \in Threads \cap alive, z \in Slots :
             stack'[t][z] = IF t = cur /\ z = s THEN f ELSE stack[t][z]
        /\ \A t \in Threads \ (alive \cup {f, u}) : stack'[t] = stack[t]
        /\ {f, u} \cap Threads \cap alive = {}
    BY <1>1, <1>5
  <2> QED BY <1>2, <1>3, <1>4, <2>1, <2>2, <2>3 DEF Makes
<1>10. {f, u} \in SUBSET (Objects \ Live) /\ f \in FirstClass \cap (Live \cup {f, u})
  BY <1>1
<1> QED BY <1>1, <1>2, <1>9, <1>10, MakeStep

(***************************************************************************)
(* Stores.                                                                 *)
(***************************************************************************)

(* What is not written refers to what it did.                              *)
LEMMA RefsKept ==
  ASSUME NEW o \in Objects, UNCHANGED running, meta'[o] = meta[o], fields'[o] = fields[o],
         entries'[o] = entries[o], o \in Threads => stack'[o] = stack[o],
         o \in Upvals => UpvalValue(o)' = UpvalValue(o)
  PROVE  Refs(o)' = Refs(o)
<1>1. Resumed(o)' = Resumed(o) /\ Keys(o)' = Keys(o) /\ Vals(o)' = Vals(o)
  BY DEF Resumed, Keys, Vals
<1>2. OwnRefs(o)' = OwnRefs(o)
  BY <1>1 DEF OwnRefs, Range
<1> QED BY <1>1, <1>2 DEF Refs

LEMMA SetTableSafety ==
  ASSUME FullInv, TypeOK', NEW t \in Tables, NEW k, NEW v, SetTable(t, k, v)
  PROVE  Safety'
<1> DEFINE V == ({k} \ Keys(t)) \cup ({v} \ {Nil})
<1>1. /\ TypeOK /\ t \in Live /\ t \in Objects /\ t \notin Upvals \cup Threads
      /\ V \ {NoObj} \subseteq Live
      /\ RefsByKind /\ RefsByKind'
  BY Basics, RefsKindsPrime, KindsAssumption DEF SetTable
<1>2. /\ gcstate \notin AtomicStates /\ luaC_barrierback(t, V)
      /\ entries' = [entries EXCEPT ![t] = {e \in entries[t] : e[1] # k} \cup ({<<k, v>>} \ {<<k, Nil>>})]
      /\ UNCHANGED <<alive, meta, fields, stack, uvloc, uvval, gmt, running, tmudata, gray, weak,
                     unswept, sweepstrgc, strsize, gcstate, currentwhite>>
  BY DEF SetTable, MutatorRuns, udVars, ctlVars
<1>3. /\ entries'[t] = {e \in entries[t] : e[1] # k} \cup ({<<k, v>>} \ {<<k, Nil>>})
      /\ \A o \in Objects \ {t} : entries'[o] = entries[o]
  BY <1>1, <1>2 DEF TypeOK, HeapType
<1>4. Keys(t)' \subseteq Keys(t) \cup ({k} \ Keys(t)) /\ Vals(t)' \subseteq Vals(t) \cup ({v} \ {Nil})
  <2>1. ASSUME NEW e \in entries'[t] PROVE e \in entries[t] \/ (e = <<k, v>> /\ v # Nil)
    BY <1>3
  <2> QED BY <2>1 DEF Keys, Vals
<1>5. \A o \in Objects \ {t} : Refs(o)' = Refs(o)
  <2> TAKE o \in Objects \ {t}
  <2>1. UpvalValue(o)' = UpvalValue(o)
    BY <1>2 DEF UpvalValue, IsOpen
  <2> QED BY <1>2, <1>3, <2>1, RefsKept
<1>6. Refs(t)' \subseteq Refs(t) \cup (V \ {NoObj})
  <2>1. Refs(t) = ({meta[t]} \cup Keys(t) \cup Vals(t)) \ {NoObj}
    BY <1>1 DEF RefsByKind
  <2>2. Refs(t)' = ({meta'[t]} \cup Keys(t)' \cup Vals(t)') \ {NoObj}
    BY <1>1 DEF RefsByKind
  <2> QED BY <1>2, <1>4, <2>1, <2>2
<1> HIDE DEF V
<1>7. CheckLiveness' /\ TriColor' /\ GrayLists' /\ Remarked' /\ SweepComplete' /\ NeverGray' /\ FreedEmpty'
  BY <1>1, <1>2, <1>5, <1>6, BackwardStep
<1>8. OpenListed' /\ running'[1] = MainThread
  BY <1>2 DEF FullInv, Safety, OpenListed, IsOpen
<1> QED BY <1>7, <1>8 DEF Safety

LEMMA SetTableMetaSafety ==
  ASSUME FullInv, TypeOK', NEW t \in Tables, NEW m, SetTableMeta(t, m)
  PROVE  Safety'
<1>1. /\ TypeOK /\ t \in Live /\ t \in Objects
      /\ {m} \ {NoObj} \subseteq Live
      /\ RefsByKind /\ RefsByKind'
  BY Basics, RefsKindsPrime DEF SetTableMeta
<1>2. /\ gcstate \notin AtomicStates /\ luaC_barrierback(t, {m})
      /\ meta' = [meta EXCEPT ![t] = m]
      /\ UNCHANGED <<alive, fields, entries, stack, uvloc, uvval, gmt, running, tmudata, gray, weak,
                     unswept, sweepstrgc, strsize, gcstate, currentwhite>>
  BY DEF SetTableMeta, MutatorRuns, udVars, ctlVars
<1>3. meta'[t] = m /\ \A o \in Objects \ {t} : meta'[o] = meta[o]
  BY <1>1, <1>2 DEF TypeOK, HeapType
<1>4. \A o \in Objects \ {t} : Refs(o)' = Refs(o)
  <2> TAKE o \in Objects \ {t}
  <2>1. UpvalValue(o)' = UpvalValue(o)
    BY <1>2 DEF UpvalValue, IsOpen
  <2> QED BY <1>2, <1>3, <2>1, RefsKept
<1>5. Refs(t)' \subseteq Refs(t) \cup ({m} \ {NoObj})
  <2>1. Refs(t) = ({meta[t]} \cup Keys(t) \cup Vals(t)) \ {NoObj}
    BY <1>1 DEF RefsByKind
  <2>2. Refs(t)' = ({meta'[t]} \cup Keys(t)' \cup Vals(t)') \ {NoObj}
    BY <1>1 DEF RefsByKind
  <2>3. Keys(t)' = Keys(t) /\ Vals(t)' = Vals(t)
    BY <1>2 DEF Keys, Vals
  <2> QED BY <1>3, <2>1, <2>2, <2>3
<1>6. CheckLiveness' /\ TriColor' /\ GrayLists' /\ Remarked' /\ SweepComplete' /\ NeverGray' /\ FreedEmpty'
  BY <1>1, <1>2, <1>4, <1>5, BackwardStep
<1>7. OpenListed' /\ running'[1] = MainThread
  BY <1>2 DEF FullInv, Safety, OpenListed, IsOpen
<1> QED BY <1>6, <1>7 DEF Safety

(* A store in a field of a userdata or of a function.                      *)
LEMMA OwnStep ==
  ASSUME FullInv, TypeOK', gcstate \notin AtomicStates,
         NEW p \in Live \cap (Udatas \cup Functions), NEW v \in Live \cup {NoObj}, luaC_barrierf(p, v),
         UNCHANGED <<alive, entries, stack, uvloc, uvval, gmt, running, udVars, listVars, ctlVars>>,
         \A o \in Objects \ {p} : meta'[o] = meta[o] /\ fields'[o] = fields[o],
         meta'[p] \in {meta[p], v}, fields'[p] \subseteq fields[p] \cup {v}
  PROVE  Safety'
<1>1. /\ TypeOK /\ p \in Objects /\ p \notin Threads \cup Upvals \cup Tables
      /\ RefsByKind /\ RefsByKind'
      /\ UNCHANGED <<gcstate, currentwhite, tmudata, grayagain, weak, unswept, sweepstrgc, strsize>>
  BY Basics, RefsKindsPrime, KindsAssumption DEF udVars, listVars, ctlVars
<1>2. \A o \in Objects \ {p} : Refs(o)' = Refs(o)
  <2> TAKE o \in Objects \ {p}
  <2>1. UpvalValue(o)' = UpvalValue(o)
    BY DEF UpvalValue, IsOpen
  <2> QED BY <2>1, RefsKept
<1>3. Refs(p)' \subseteq Refs(p) \cup ({v} \ {NoObj})
  <2>1. CASE p \in Udatas
    <3>1. Refs(p) = (fields[p] \cup {meta[p]}) \ {NoObj}
      BY <1>1, <2>1 DEF RefsByKind
    <3>2. Refs(p)' = (fields'[p] \cup {meta'[p]}) \ {NoObj}
      BY <1>1, <2>1 DEF RefsByKind
    <3> QED BY <3>1, <3>2
  <2>2. CASE p \in Functions
    <3>1. Refs(p) = fields[p] /\ Refs(p)' = fields'[p]
      BY <1>1, <2>2 DEF RefsByKind
    <3>2. NoObj \notin fields'[p]
      BY <1>1, KindsAssumption DEF TypeOK, HeapType
    <3> QED BY <3>1, <3>2
  <2> QED BY <2>1, <2>2
<1>4. p \notin Threads \cup OpenUpvals
  BY <1>1 DEF OpenUpvals
<1>5. \A o \in Objects : Refs(o)' \subseteq Refs(o) \cup (IF o = p THEN {v} \ {NoObj} ELSE {})
  BY <1>2, <1>3
<1>6. CheckLiveness' /\ TriColor' /\ GrayLists' /\ Remarked' /\ SweepComplete' /\ NeverGray' /\ FreedEmpty'
  BY <1>1, <1>4, <1>5, ForwardStep
<1>7. OpenListed' /\ running'[1] = MainThread
  BY DEF FullInv, Safety, OpenListed, IsOpen
<1> QED BY <1>6, <1>7 DEF Safety

LEMMA OwnStoresSafety ==
  ASSUME FullInv, TypeOK',
         \/ \E u \in Udatas, m \in Values : SetUdataMeta(u, m)
         \/ \E u \in Udatas, env \in Tables : SetUdataEnv(u, env)
         \/ \E f \in Functions, old, v \in Values : SetField(f, old, v)
  PROVE  Safety'
<1>1. Held \subseteq Live /\ TypeOK /\ Live \subseteq Objects
  BY Basics
<1>2. CASE \E u \in Udatas, m \in Values : SetUdataMeta(u, m)
  <2> PICK u \in Udatas, m \in Values : SetUdataMeta(u, m)
    BY <1>2
  <2>1. /\ gcstate \notin AtomicStates /\ u \in Live \cap (Udatas \cup Functions) /\ m \in Live \cup {NoObj}
        /\ luaC_barrierf(u, m) /\ meta' = [meta EXCEPT ![u] = m]
        /\ UNCHANGED <<alive, fields, entries, stack, uvloc, uvval, gmt, running, udVars, listVars, ctlVars>>
    BY <1>1 DEF SetUdataMeta, MutatorRuns
  <2>2. /\ \A o \in Objects \ {u} : meta'[o] = meta[o] /\ fields'[o] = fields[o]
        /\ meta'[u] \in {meta[u], m} /\ fields'[u] \subseteq fields[u] \cup {m}
    BY <1>1, <2>1 DEF TypeOK, HeapType
  <2> QED BY <2>1, <2>2, OwnStep
<1>3. CASE \E u \in Udatas, env \in Tables : SetUdataEnv(u, env)
  <2> PICK u \in Udatas, env \in Tables : SetUdataEnv(u, env)
    BY <1>3
  <2>1. /\ gcstate \notin AtomicStates /\ u \in Live \cap (Udatas \cup Functions) /\ env \in Live \cup {NoObj}
        /\ luaC_barrierf(u, env) /\ fields' = [fields EXCEPT ![u] = {env}]
        /\ UNCHANGED <<alive, meta, entries, stack, uvloc, uvval, gmt, running, udVars, listVars, ctlVars>>
    BY <1>1 DEF SetUdataEnv, MutatorRuns
  <2>2. /\ \A o \in Objects \ {u} : meta'[o] = meta[o] /\ fields'[o] = fields[o]
        /\ meta'[u] \in {meta[u], env} /\ fields'[u] \subseteq fields[u] \cup {env}
    BY <1>1, <2>1 DEF TypeOK, HeapType
  <2> QED BY <2>1, <2>2, OwnStep
<1>4. CASE \E f \in Functions, old, v \in Values : SetField(f, old, v)
  <2> PICK f \in Functions, old \in Values, v \in Values : SetField(f, old, v)
    BY <1>4
  <2>1. /\ gcstate \notin AtomicStates /\ f \in Live \cap (Udatas \cup Functions) /\ v \in Live \cup {NoObj}
        /\ luaC_barrierf(f, v) /\ fields' = [fields EXCEPT ![f] = (fields[f] \ {old}) \cup {v}]
        /\ UNCHANGED <<alive, meta, entries, stack, uvloc, uvval, gmt, running, udVars, listVars, ctlVars>>
    BY <1>1 DEF SetField, MutatorRuns
  <2>2. /\ \A o \in Objects \ {f} : meta'[o] = meta[o] /\ fields'[o] = fields[o]
        /\ meta'[f] \in {meta[f], v} /\ fields'[f] \subseteq fields[f] \cup {v}
    BY <1>1, <2>1 DEF TypeOK, HeapType
  <2> QED BY <2>1, <2>2, OwnStep
<1> QED BY <1>2, <1>3, <1>4

(* The value of an upvalue: on a stack, which has no barrier, for an open   *)
(* upvalue is never black, or its own.                                     *)
LEMMA SetUpvalSafety ==
  ASSUME FullInv, TypeOK', NEW u \in Upvals, NEW v, SetUpval(u, v)
  PROVE  Safety'
<1>1. /\ TypeOK /\ u \in Live /\ u \in alive /\ u \in Objects /\ v \in Live \cup {NoObj} /\ v \in FirstClass
      /\ gcstate \notin AtomicStates /\ luaC_barrierf(u, v)
      /\ UNCHANGED <<alive, meta, fields, entries, uvloc, gmt, running, udVars, listVars, ctlVars>>
  BY Basics, HeldUpvals, HeldType, KindsAssumption DEF SetUpval, MutatorRuns
<1>2. UNCHANGED <<gcstate, currentwhite, tmudata, grayagain, weak, unswept, sweepstrgc, strsize>>
  BY <1>1 DEF udVars, listVars, ctlVars
<1>3. CASE IsOpen(u)
  <2>1. uvloc[u][1] \in Threads \cap alive /\ uvloc[u][2] \in Slots
    BY <1>1, <1>3 DEF TypeOK, ProgramType, FullInv, Safety, OpenListed, IsOpen
  <2>2. color[u] # "black"
    BY <1>1, <1>3 DEF FullInv, ListsInv, NeverBlack, OpenUpvals, isblack
  <2>3. UNCHANGED <<color, gray>>
    BY <1>1, <2>2 DEF luaC_barrierf, isblack
  <2>4. stack' = [stack EXCEPT ![uvloc[u][1]][uvloc[u][2]] = v] /\ UNCHANGED uvval
    BY <1>3 DEF SetUpval
  <2> DEFINE th == uvloc[u][1]
             s == uvloc[u][2]
  <2>5. /\ stack' = [stack EXCEPT ![th][s] = v]
        /\ UNCHANGED <<heapVars, color, running, udVars, gray, listVars, ctlVars>>
    BY <1>1, <2>3, <2>4 DEF heapVars
  <2> HIDE DEF th, s
  <2>6. th \in Threads \cap alive /\ s \in Slots
    BY <2>1 DEF th, s
  <2> QED BY <1>1, <2>5, <2>6, StackStep
<1>4. CASE ~ IsOpen(u)
  <2>1. uvval' = [uvval EXCEPT ![u] = v] /\ UNCHANGED stack
    BY <1>4 DEF SetUpval
  <2>2. uvval'[u] = v /\ \A w \in Upvals \ {u} : uvval'[w] = uvval[w]
    BY <2>1 DEF TypeOK, ProgramType
  <2>3. u \notin Threads \cup OpenUpvals
    BY <1>4, KindsAssumption DEF OpenUpvals
  <2>4. \A o \in Objects \ {u} : Refs(o)' = Refs(o)
    <3> TAKE o \in Objects \ {u}
    <3>1. o \in Upvals => UpvalValue(o)' = UpvalValue(o)
      BY <1>1, <2>1, <2>2 DEF UpvalValue, IsOpen
    <3> QED BY <1>1, <2>1, <3>1, RefsKept
  <2>5. Refs(u)' \subseteq Refs(u) \cup ({v} \ {NoObj})
    <3>1. Refs(u)' = {UpvalValue(u)'} \ {NoObj}
      BY RefsKindsPrime DEF RefsByKind
    <3>2. UpvalValue(u)' = v
      BY <1>1, <1>4, <2>2 DEF UpvalValue, IsOpen
    <3> QED BY <3>1, <3>2
  <2>6. \A o \in Objects : Refs(o)' \subseteq Refs(o) \cup (IF o = u THEN {v} \ {NoObj} ELSE {})
    BY <2>4, <2>5
  <2>7. CheckLiveness' /\ TriColor' /\ GrayLists' /\ Remarked' /\ SweepComplete' /\ NeverGray' /\ FreedEmpty'
    BY <1>1, <1>2, <2>3, <2>6, ForwardStep
  <2>8. OpenListed' /\ running'[1] = MainThread
    <3>1. \A w \in Upvals : IsOpen(w) => w # u
      BY <1>4
    <3> QED BY <1>1, <2>2, <3>1 DEF FullInv, Safety, OpenListed, IsOpen
  <2> QED BY <2>7, <2>8 DEF Safety
<1> QED BY <1>3, <1>4

(***************************************************************************)
(* luaF_close.                                                             *)
(***************************************************************************)

(* What is marked from values is no upvalue.                               *)
LEMMA MarkedNoUpvals ==
  ASSUME TypeOK, NEW S, S \subseteq FirstClass
  PROVE  Marked(S) \cap Upvals = {}
<1> DEFINE w  == {o \in S : o # NoObj /\ iswhite(o)}
           wv == w \cup {v \in {UpvalValue(u) : u \in w \cap Upvals} : v # NoObj /\ iswhite(v)}
           own == {v \in UNION {OwnRefs(u) : u \in wv \cap Udatas} : v # NoObj /\ iswhite(v)}
<1>1. Marked(S) = wv \cup own
  BY DEF Marked
<1>2. w \cap Upvals = {}
  OBVIOUS
<1>3. wv = w
  BY <1>2
<1>4. \A u \in Udatas : OwnRefs(u) \subseteq Tables \cup {NoObj}
  BY RefsKinds DEF RefsByKind
<1>5. own \subseteq Tables
  BY <1>4
<1>6. own \cap Upvals = {}
  BY <1>5, KindsAssumption
<1> HIDE DEF w, wv, own
<1> QED BY <1>1, <1>2, <1>3, <1>6

(* The open upvalues of S, of the running thread, are closed: the dead ones *)
(* are freed, those that are kept have the value they had and a color that  *)
(* neither the marks nor the sweep have to care for any more.              *)
LEMMA CloseUpvalsSafety ==
  ASSUME FullInv, TypeOK', NEW S \in SUBSET OpenUpvals, CloseUpvals(S)
  PROVE  Safety'
<1> DEFINE kept == {u \in S : ~ isdead(u)}
           F == S \ kept
           B == IF gcstate = "propagate" THEN {u \in kept : color[u] = "gray"} ELSE {}
           held == {UpvalValue(u) : u \in B}
           M == Marked(held)
<1>1. /\ TypeOK /\ RefsByKind /\ RefsByKind' /\ Live \subseteq alive /\ Live \subseteq Objects
      /\ \A o \in Live : Refs(o) \subseteq Live
      /\ currentwhite \in Whites /\ otherwhite \in Whites /\ currentwhite # otherwhite
      /\ gcstate \in MarkPhase => Live = alive
      /\ MainThread \in Live /\ Registry \in Live /\ cur \in Threads /\ Roots \subseteq Live
      /\ \A o \in alive : o \in Objects
      /\ Safety /\ NeverBlack
  BY Basics, RefsKindsPrime DEF FullInv, Safety, ListsInv, CheckLiveness, TypeOK, HeapType
<1>2. /\ gcstate \notin AtomicStates /\ luaF_close(S)
      /\ S \subseteq OpenUpvals /\ \A u \in S : u \in Upvals \cap alive /\ IsOpen(u) /\ uvloc[u][1] = cur
      /\ UNCHANGED <<meta, fields, entries, gmt, stack, running, tmudata, grayagain, weak, unswept, sweepstrgc,
                     strsize, gcstate, currentwhite>>
  BY DEF CloseUpvals, MutatorRuns, OpenUpvals, udVars, listVars, ctlVars
<1>3. /\ alive' = alive \ F
      /\ uvloc' = [u \in Upvals |-> IF u \in S THEN Closed ELSE uvloc[u]]
      /\ uvval' = [u \in Upvals |-> IF u \in kept THEN UpvalValue(u) ELSE uvval[u]]
      /\ color' = [o \in Objects |->
                     IF o \in F THEN "white0"
                     ELSE IF o \in B THEN "black"
                     ELSE IF o \in kept /\ color[o] = "gray" THEN currentwhite
                     ELSE IF o \in M THEN ColorOnceMarked(o) ELSE color[o]]
      /\ gray' = gray \cup (M \cap HasGclist)
  BY <1>2 DEF luaF_close
<1>4. held \subseteq Live \cup {NoObj} /\ held \subseteq FirstClass
  <2>1. \A u \in S : UpvalValue(u) = stack[cur][uvloc[u][2]] /\ uvloc[u][2] \in Slots
    BY <1>1, <1>2 DEF UpvalValue, IsOpen, TypeOK, ProgramType
  <2>2. \A u \in S : UpvalValue(u) \in Held \cup {NoObj}
    <3>1. stack[cur] \in [Slots -> FirstClass]
      BY <1>1 DEF TypeOK, ProgramType
    <3>2. \A z \in Slots : stack[cur][z] \in Held \cup {NoObj}
      BY <3>1 DEF Held, StackOf, Range
    <3> QED BY <2>1, <3>2
  <2>3. \A u \in S : UpvalValue(u) \in FirstClass
    BY <1>1, <1>2 DEF RefsByKind
  <2>4. \A u \in S : UpvalValue(u) \in Live \cup {NoObj}
    BY <2>2, Basics
  <2>5. B \subseteq S
    OBVIOUS
  <2> QED BY <2>3, <2>4, <2>5
<1>5. /\ M \subseteq Live /\ \A o \in M : color[o] \in Whites
      /\ \A o \in held : o # NoObj /\ color[o] \in Whites => o \in M
      /\ \A o \in M \cap (Udatas \cup Upvals) : \A r \in Refs(o) : color[r] \in Whites => r \in M
  <2>1. TypeOK /\ CheckLiveness
    BY <1>1 DEF Safety
  <2> HIDE DEF held
  <2> QED BY <1>4, <2>1, MarkedFacts DEF iswhite
<1>6. M \cap Upvals = {}
  BY <1>1, <1>4, MarkedNoUpvals
<1>7. gcstate \in MarkPhase => gcstate = "propagate" /\ F = {} /\ kept = S
  BY <1>1, <1>2 DEF MarkPhase, Live
<1>8. \A u \in kept : color[u] \in {"gray", currentwhite}
  BY <1>1, <1>2 DEF NeverBlack, isblack, isdead, TypeOK, HeapType, CollectorType, otherwhite
<1>9. /\ kept \subseteq S /\ F \subseteq S /\ kept \cap F = {} /\ F \cap Live = {} /\ S = kept \cup F
      /\ B \subseteq kept /\ S \subseteq Upvals
      /\ \A u \in B : color[u] = "gray" /\ gcstate = "propagate"
      /\ gcstate = "propagate" => \A u \in kept \ B : color[u] # "gray"
      /\ \A u \in B : UpvalValue(u) \in held
      /\ gcstate # "propagate" => B = {} /\ M = {}
  <2>1. F \cap Live = {}
    BY DEF Live
  <2>2. gcstate # "propagate" => B = {} /\ M = {}
    BY DEF Marked
  <2> QED BY <1>2, <2>1, <2>2
<1>10. \A o \in M : ColorOnceMarked(o) = IF o \in Udatas THEN "black" ELSE "gray"
  BY <1>6 DEF ColorOnceMarked
<1> HIDE DEF kept, F, B, M, held
<1>11. \A o \in Objects :
         /\ o \in F => color'[o] = "white0"
         /\ o \in B => color'[o] = "black"
         /\ o \in kept \ B => color'[o] = currentwhite
         /\ o \in M => color'[o] = IF o \in Udatas THEN "black" ELSE "gray"
         /\ o \notin S \cup M => color'[o] = color[o]
  BY <1>3, <1>5, <1>6, <1>8, <1>9, <1>10
<1>12. /\ otherwhite' = otherwhite /\ Roots' = Roots /\ Range(tmudata)' = Range(tmudata)
       /\ OpenUpvals' = OpenUpvals \ S
  <2>1. OpenUpvals' = OpenUpvals \ S
    BY <1>1, <1>2, <1>3, <1>9 DEF OpenUpvals, IsOpen
  <2> QED BY <1>2, <2>1 DEF otherwhite, Roots, Range
<1>13. Live' = Live
  <2>1. \A o \in alive' : o \in alive /\ o \in Objects /\ o \notin F
    BY <1>1, <1>3
  <2>2. ASSUME NEW o \in alive' PROVE color'[o] = otherwhite <=> color[o] = otherwhite
    <3>1. o \in Objects /\ o \notin F
      BY <2>1
    <3>2. CASE o \in kept
      BY <1>1, <1>8, <1>9, <1>11, <3>1, <3>2
    <3>3. CASE o \in M
      <4>1. color[o] # otherwhite
        BY <1>5, <3>3 DEF Live, isdead
      <4> QED BY <1>1, <1>11, <3>1, <3>3, <4>1
    <3>4. CASE o \notin S \cup M
      BY <1>11, <3>1, <3>4
    <3> QED BY <1>9, <3>1, <3>2, <3>3, <3>4
  <2>3. \A o \in Live : o \in alive'
    BY <1>1, <1>3, <1>9
  <2> QED BY <1>1, <1>12, <2>1, <2>2, <2>3 DEF Live, isdead
<1>14. \A o \in Objects : /\ o \notin F => Refs(o)' = Refs(o)
                          /\ o \in F => Refs(o)' = {}
  <2>1. \A u \in Upvals \ F : UpvalValue(u)' = UpvalValue(u)
    <3> TAKE u \in Upvals \ F
    <3>1. CASE u \in kept
      BY <1>3, <1>9, <3>1 DEF UpvalValue, IsOpen
    <3>2. CASE u \notin S
      BY <1>2, <1>3, <1>9, <3>2 DEF UpvalValue, IsOpen
    <3> QED BY <1>9, <3>1, <3>2
  <2>2. \A o \in Objects \ F : Refs(o)' = Refs(o)
    BY <1>2, <2>1, RefsKept
  <2>3. ASSUME NEW u \in F PROVE Refs(u)' = {}
    <3>1. u \in Upvals /\ uvval[u] = NoObj
      BY <1>1, <1>2, <1>9, <2>3 DEF Safety, OpenListed
    <3>2. UpvalValue(u)' = NoObj
      BY <1>3, <1>9, <3>1, <2>3 DEF UpvalValue, IsOpen
    <3>3. Refs(u)' = {UpvalValue(u)'} \ {NoObj}
      BY <1>1, <3>1 DEF RefsByKind
    <3> QED BY <3>2, <3>3
  <2> QED BY <2>2, <2>3
<1>15. CheckLiveness'
  BY <1>1, <1>9, <1>12, <1>13, <1>14 DEF CheckLiveness
<1>16. FreedEmpty'
  BY <1>1, <1>3, <1>14 DEF Safety, FreedEmpty
<1>17. OpenListed'
  <2> SUFFICES ASSUME NEW u \in Upvals, IsOpen(u)'
               PROVE  u \in alive' /\ uvloc'[u][1] \in alive' /\ uvval'[u] = NoObj
    BY DEF OpenListed
  <2>1. u \notin S /\ IsOpen(u) /\ uvloc'[u] = uvloc[u] /\ uvval'[u] = uvval[u]
    BY <1>3, <1>9 DEF IsOpen
  <2>2. u \in alive /\ uvloc[u][1] \in alive /\ uvval[u] = NoObj /\ uvloc[u][1] \in Threads
    BY <1>1, <2>1 DEF Safety, OpenListed, TypeOK, ProgramType, IsOpen
  <2> QED BY <1>3, <1>9, <2>1, <2>2, KindsAssumption
<1>18. NeverGray'
  <2> SUFFICES ASSUME NEW u \in Udatas PROVE color'[u] # "gray"
    BY DEF NeverGray
  <2>1. u \notin S /\ u \in Objects
    BY <1>9, KindsAssumption
  <2> QED BY <1>1, <1>11, <2>1 DEF Safety, NeverGray
<1>19. \A o \in Objects \ S : color[o] \notin Whites => color'[o] \notin Whites
  BY <1>5, <1>11
<1>20. Remarked'
  <2>1. MainThread \notin S /\ Registry \notin S /\ MainThread \in Objects /\ Registry \in Objects
    BY <1>9, KindsAssumption
  <2> QED BY <1>1, <1>2, <1>19, <2>1, RemarkedRunning, RemarkedRunningPrime DEF Safety, iswhite, MarkPhase
<1>21. ASSUME gcstate = "propagate", NEW o \in alive', color'[o] = "black",
              o \notin Range(tmudata), NEW r \in Refs(o)'
       PROVE  color'[r] \notin Whites
  <2>1. o \in Objects /\ o \in alive /\ o \notin F /\ r \in Refs(o) /\ r \in Objects
    BY <1>1, <1>3, <1>14, <1>21 DEF RefsByKind
  <2>2. r \notin Upvals \/ o \in Functions
    <3>1. o \in Tables => r \notin Upvals
      <4>1. entries[o] \subseteq FirstClass \X FirstClass /\ meta[o] \in Tables \cup {NoObj}
        BY <1>1, <2>1 DEF TypeOK, HeapType
      <4>2. \A e \in entries[o] : e[1] \in FirstClass /\ e[2] \in FirstClass
        BY <4>1
      <4>3. Keys(o) \subseteq FirstClass /\ Vals(o) \subseteq FirstClass
        BY <4>2 DEF Keys, Vals
      <4> QED BY <1>1, <2>1, <4>1, <4>3, KindsAssumption DEF RefsByKind
    <3>2. o \in Udatas => r \notin Upvals
      BY <1>1, <2>1, KindsAssumption DEF RefsByKind, TypeOK, HeapType
    <3>3. o \in Strings \cup Upvals => r \notin Upvals
      BY <1>1, <2>1, KindsAssumption DEF RefsByKind
    <3>4. o \notin Threads
      BY <1>5, <1>9, <1>11, <1>21, <2>1, <1>1, KindsAssumption DEF NeverBlack, isblack
    <3> QED BY <2>1, <3>1, <3>2, <3>3, <3>4
  <2>3. color[r] \in Whites => r \in M
    <3>1. CASE o \in B
      BY <1>1, <1>5, <1>9, <2>1, <3>1 DEF RefsByKind
    <3>2. CASE o \in M
      <4>1. o \in Udatas
        BY <1>11, <1>21, <2>1, <3>2
      <4> QED BY <1>5, <2>1, <3>2, <4>1
    <3>3. CASE o \notin B \cup M
      <4>1. color[o] = "black" /\ o \notin S
        BY <1>1, <1>9, <1>11, <1>21, <2>1, <3>3
      <4>2. color[r] \notin Whites
        BY <1>1, <1>21, <2>1, <4>1 DEF Safety, TriColor, isblack, iswhite, MarkPhase
      <4> QED BY <4>2
    <3> QED BY <3>1, <3>2, <3>3
  <2>4. CASE r \in M
    BY <1>11, <2>1, <2>4
  <2>5. CASE r \notin M
    <3>1. color[r] \notin Whites
      BY <2>3, <2>5
    <3>2. r \in S => r \in B
      BY <1>1, <1>7, <1>8, <1>9, <1>21, <3>1 DEF MarkPhase
    <3> QED BY <1>11, <1>19, <2>1, <3>1, <3>2
  <2> QED BY <2>4, <2>5
<1>22. TriColor'
  BY <1>2, <1>7, <1>12, <1>21 DEF TriColor, isblack, iswhite, MarkPhase
<1>23. GrayLists'
  <2> SUFFICES ASSUME gcstate = "propagate" PROVE GrayLists'
    BY <1>2, <1>7 DEF GrayLists
  <2>1. /\ gray \cup grayagain \cup weak \subseteq {o \in alive : color[o] = "gray"}
        /\ gray \cap (grayagain \cup weak) = {} /\ grayagain \cap weak = {}
        /\ \A o \in alive : color[o] = "gray" =>
             o \in gray \cup grayagain \cup weak \cup Strings \cup OpenUpvals
    BY <1>1 DEF Safety, GrayLists, MarkPhase
  <2>2. (gray \cup grayagain \cup weak) \cap (S \cup M) = {}
    <3>1. (gray \cup grayagain \cup weak) \cap Upvals = {}
      BY <1>1, KindsAssumption DEF TypeOK, CollectorType
    <3> QED BY <1>5, <1>9, <2>1, <3>1
  <2>3. F = {}
    BY <1>7 DEF MarkPhase
  <2>4. \A o \in M \cap HasGclist : o \in alive' /\ color'[o] = "gray"
    <3>1. HasGclist \cap Udatas = {}
      BY KindsAssumption
    <3> QED BY <1>1, <1>3, <1>5, <1>11, <2>3, <3>1
  <2>5. (gray \cup grayagain \cup weak)' \subseteq {o \in alive' : color'[o] = "gray"}
    <3>1. \A o \in gray \cup grayagain \cup weak : o \in alive' /\ color'[o] = "gray"
      BY <1>1, <1>3, <1>11, <2>1, <2>2, <2>3
    <3> QED BY <1>2, <1>3, <2>4, <3>1
  <2>6. ASSUME NEW o \in alive', color'[o] = "gray"
        PROVE  o \in (gray \cup grayagain \cup weak)' \cup Strings \cup OpenUpvals'
    <3>1. o \in alive /\ o \in Objects /\ o \notin S
      BY <1>1, <1>3, <1>9, <1>11, <2>6
    <3>2. CASE o \in M
      <4>1. o \notin Udatas \cup Upvals
        BY <1>6, <1>11, <2>6, <3>1, <3>2
      <4> QED BY <1>3, <3>1, <3>2, <4>1
    <3>3. CASE o \notin M
      <4>1. color[o] = "gray"
        BY <1>11, <2>6, <3>1, <3>3
      <4> QED BY <1>2, <1>3, <1>12, <2>1, <3>1, <4>1
    <3> QED BY <3>2, <3>3
  <2>7. M \cap (grayagain \cup weak) = {}
    BY <2>2
  <2> QED BY <1>2, <1>3, <2>1, <2>5, <2>6, <2>7 DEF GrayLists
<1>24. SweepComplete'
  <2>1. ASSUME NEW o \in alive', gcstate' \in MarkPhase PROVE ~ isdead(o)'
    BY <1>1, <1>2, <1>3, <1>13, <2>1 DEF Live
  <2>2. ASSUME NEW o \in alive', gcstate' \notin MarkPhase, color'[o] # currentwhite'
        PROVE  o \in StillToSweep'
    <3>1. B = {} /\ M = {} /\ gcstate \notin MarkPhase
      BY <1>2, <1>9, <2>2 DEF MarkPhase
    <3>2. o \in alive /\ o \in Objects /\ o \notin S /\ color[o] # currentwhite
      BY <1>1, <1>2, <1>3, <1>9, <1>11, <2>2, <3>1
    <3>3. o \in StillToSweep
      BY <1>1, <3>1, <3>2 DEF Safety, SweepComplete
    <3>4. StillToSweep \ S \subseteq StillToSweep'
      <4>1. \A u \in OpenUpvals \ S : u \in OpenUpvals' /\ uvloc'[u] = uvloc[u]
        BY <1>3, <1>12 DEF OpenUpvals
      <4> QED BY <1>2, <1>12, <4>1 DEF StillToSweep
    <3> QED BY <3>2, <3>3, <3>4
  <2> QED BY <2>1, <2>2 DEF SweepComplete
<1>25. running'[1] = MainThread
  BY <1>1, <1>2 DEF Safety
<1> QED BY <1>15, <1>16, <1>17, <1>18, <1>20, <1>22, <1>23, <1>24, <1>25 DEF Safety

(* Every operation of the program keeps the invariant.                     *)
LEMMA MutatorSafety ==
  ASSUME FullInv, TypeOK', Mutator
  PROVE  Safety'
<1>1. CASE \E s \in LocalSlots :
             \/ \E v \in Held \cup {NoObj, cur} : Move(s, v)
             \/ \E o, v \in Objects : Load(o, v, s)
             \/ LoadBasicMetatable(s)
             \/ \E th \in Threads, v \in Held : StoreInThread(th, s, v)
  BY <1>1, StackOpsSafety
<1>2. CASE \E th \in Threads, t \in Tables : SetGlobals(th, t)
  BY <1>2, SetGlobalsSafety
<1>3. CASE \E s \in LocalSlots :
             \/ \E t \in Tables : NewTable(t, s)
             \/ \E u \in Udatas, env \in Tables : NewUdata(u, env, s)
             \/ \E f \in Functions : \E S \in SUBSET (Held \cup Upvals) : NewFunction(f, S, s)
             \/ \E f \in Functions, u \in Upvals : CaptureOpen(f, u, s)
             \/ \E f \in Functions, u \in Upvals, level \in LocalSlots : CaptureNew(f, u, level, s)
             \/ \E th \in Threads : NewThread(th, s)
             \/ \E str \in Strings : NewString(str, s)
  BY <1>3, NewTableSafety, NewUdataSafety, NewFunctionSafety, CaptureOpenSafety, CaptureNewSafety,
     NewThreadSafety, NewStringSafety
<1>4. CASE \/ \E t \in Tables, k \in (Held \cap AsKeys) \cup {NoObj} :
                \E v \in Held \cup {NoObj, Nil} : SetTable(t, k, v)
           \/ \E t \in Tables, m \in Values : SetTableMeta(t, m)
  BY <1>4, SetTableSafety, SetTableMetaSafety
<1>5. CASE \/ \E u \in Udatas, m \in Values : SetUdataMeta(u, m)
           \/ \E u \in Udatas, env \in Tables : SetUdataEnv(u, env)
           \/ \E f \in Functions, old, v \in Values : SetField(f, old, v)
  BY <1>5, OwnStoresSafety
<1>6. CASE \E u \in Upvals, v \in Values : SetUpval(u, v)
  BY <1>6, SetUpvalSafety
<1>7. CASE (\E th \in Threads : Resume(th)) \/ Yield \/ \E m \in Values : SetBasicMeta(m)
  BY <1>7, ControlSafety
<1>8. CASE \E S \in SUBSET OpenUpvals : CloseUpvals(S)
  BY <1>8, CloseUpvalsSafety
<1> QED BY <1>1, <1>2, <1>3, <1>4, <1>5, <1>6, <1>7, <1>8 DEF Mutator

=============================================================================
