-------------------------- MODULE LuaDoStackProofs --------------------------
(***************************************************************************)
(* Proofs about LuaDo: the inductive invariant, which relates the frames of*)
(* the C stack and the states of all threads, and what the elementary      *)
(* changes of the stack (a frame more, a frame less, a longjmp) keep of it.*)
(***************************************************************************)
EXTENDS LuaDo, FiniteSetTheorems, WellFoundedInduction, TLAPS

(***************************************************************************)
(* Types.                                                                  *)
(***************************************************************************)
Errors == {"errrun", "errmem", "errerr"}
Func == [at : Int, fn : LuaFunctions \cup {CFunction, NotFunction}]
CallInfo == [func : Func, base : Int, top : Int, nresults : Int]
ErrFunc == [at : Int, fn : Handlers \cup {NotFunction}]
LuaState ==
  [stack : {0, Block}, stacksize : Nat, top : Int, base : Int, ci : Seq(CallInfo), size_ci : Nat,
   nCcalls : Nat, baseCcalls : Nat, status : {"none", "ok", "yield"} \cup Errors, errfunc : ErrFunc,
   allowhook : BOOLEAN, openupval : SUBSET Int, errorJmp : Nat, body : Bodies]
IsState(t) == t \in LuaState /\ t.ci # <<>>

Simple == [k : {"host", "cfunc"}, L : Threads]
ExecuteFrame == [k : {"execute"}, L : Threads, nexeccalls : Nat \ {0}, base : Int]
CallFrame == [k : {"call"}, L : Threads, nresults : Int]
PcallFrames ==
  [k : {"pcall"}, L : Threads, status : {"ok"} \cup Errors, old_top : Int, ci : Nat, nCcalls : Nat,
   allowhook : BOOLEAN, errfunc : ErrFunc, previous : Nat, nresults : Int]
ResumeFrame ==
  [k : {"resume"}, L : Threads, from : Threads, status : {"ok"} \cup Errors, previous : Nat, n : Int]
ErrormsgFrame == [k : {"errormsg"}, L : Threads, called : BOOLEAN]
HookFrames == [k : {"hook"}, L : Threads, top : Int, ci_top : Int, then : {"call", "return", "tailcall", "count"}]
PoscallFrame == [k : {"poscall"}, L : Threads, first : Int, lua : BOOLEAN]
Frames ==
  Simple \cup ExecuteFrame \cup CallFrame \cup PcallFrames \cup ResumeFrame \cup ErrormsgFrame \cup HookFrames
    \cup PoscallFrame

(***************************************************************************)
(* The C stack.                                                            *)
(***************************************************************************)
CCode == {"host", "cfunc", "hook"}
Protects(f, th) == f.k \in {"pcall", "resume"} /\ f.L = th
LastProtected(cs, n, th, e) ==
  /\ e \in 0..n /\ (e # 0 => Protects(cs[e], th))
  /\ \A j \in (e + 1)..n : ~ Protects(cs[j], th)
NoHook(cs, n, th) == \A j \in 1..n : ~ (cs[j].k = "hook" /\ cs[j].L = th)
IsPcall(f, th) == f.k = "pcall" /\ f.L = th
HandlerIn(cs, n, th, errfunc) ==
  errfunc.at # 0 =>
    \E p \in 1..n : /\ IsPcall(cs[p], th) /\ errfunc.at = cs[p].old_top - 1
                    /\ \A j \in (p + 1)..n : ~ IsPcall(cs[j], th)
Resumes(f, th) == f.k = "resume" /\ f.L = th

StandsOn(f, g) ==
  /\ f.k # "host"
  /\ f.k = "cfunc" => g.k \in {"call", "execute"}
  /\ f.k = "execute" => g.k \in {"call", "resume"}
  /\ f.k = "call" => g.k \in CCode \cup {"execute", "pcall", "errormsg"}
  /\ f.k \in {"pcall", "resume"} => g.k \in CCode
  /\ f.k = "errormsg" => g.k \in CCode \cup {"execute", "call", "resume"}
  /\ f.k = "hook" => CASE f.then = "return" -> g.k = "poscall"
                       [] f.then = "tailcall" -> g.k = "execute"
                       [] OTHER -> g.k \in {"execute", "cfunc"}
  /\ f.k = "poscall" => IF f.lua THEN g.k = "execute" ELSE g.k \in {"call", "execute", "resume"}

ResumeAt(cs, i) ==
  /\ cs[i].from = cs[i - 1].L /\ cs[i].previous = 0 /\ cs[i].L \in Coroutines
  /\ \A j \in 1..(i - 1) : cs[j].L # cs[i].L
  /\ cs[i].status # "ok" => cs[i].n = Done
PcallAt(cs, i) ==
  LET f == cs[i]
  IN  /\ LastProtected(cs, i - 1, f.L, f.previous) /\ f.nCcalls = DepthAt(cs, i - 1)
      /\ f.allowhook <=> NoHook(cs, i - 1, f.L)
      /\ HandlerIn(cs, i - 1, f.L, f.errfunc)
Segment(cs, i) ==
  \A j \in 1..(i - 1) : cs[j].L # cs[i].L => \E r \in (j + 1)..i : Resumes(cs[r], cs[i].L)
FrameAt(cs, i) ==
  /\ i = 1 => cs[i].k = "host" /\ cs[i].L = MainThread
  /\ i > 1 => StandsOn(cs[i], cs[i - 1]) /\ (cs[i].k = "resume" \/ cs[i].L = cs[i - 1].L)
  /\ cs[i].k = "resume" => ResumeAt(cs, i)
  /\ cs[i].k = "pcall" => PcallAt(cs, i)
  /\ cs[i].k = "hook" => NoHook(cs, i - 1, cs[i].L)
  /\ DepthAt(cs, i) <= LUAI_MAXCCALLS + ErrorCCalls
  /\ Segment(cs, i)
WaitAt(cs, i) ==
  /\ cs[i].k \in {"pcall", "resume"} => cs[i].status = "ok"
  /\ cs[i].k = "resume" => cs[i].n = Done
StackOK(cs) ==
  /\ cs \in Seq(Frames)
  /\ \A i \in 1..Len(cs) : FrameAt(cs, i) /\ (i < Len(cs) => WaitAt(cs, i))

(***************************************************************************)
(* A thread.                                                               *)
(***************************************************************************)
Kind(ci) == ci.func.fn.kind
Yielded(ci) == Len(ci) > 2 /\ (\A j \in 2..(Len(ci) - 1) : Kind(ci[j]) = "lua") /\ Kind(ci[Len(ci)]) = "c"
Suspended(t) ==
  /\ t.status = "ok" => Len(t.ci) = 1
  /\ t.status = "yield" => Yielded(t.ci)
  /\ t.status \notin Errors => t.allowhook /\ t.errfunc.at = 0

Continuing(cs, n, th) == \E r \in 1..(n - 1) : Resumes(cs[r], th) /\ cs[r + 1].k = "poscall" /\ ~ cs[r + 1].lua
FunctionsAt(cs, i, ci, th, b) ==
  /\ \A m \in 1..CallsIn(cs[i]) : Kind(ci[b + CallsBelow(cs, th, i - 1) + m]) = KindIn(cs[i])
  /\ cs[i].k = "pcall" => cs[i].ci = b + CallsBelow(cs, th, i - 1)
AgreesFrom(cs, n, ci, th, b) ==
  /\ \A i \in 1..n : cs[i].L = th => FunctionsAt(cs, i, ci, th, b)
  /\ b > 1 <=> Continuing(cs, n, th)
  /\ \A j \in 2..b : Kind(ci[j]) = "lua"
Runs(cs, n, t, th) ==
  /\ t.status = "ok" /\ t.nCcalls = DepthAt(cs, n) /\ (t.allowhook <=> NoHook(cs, n, th))
  /\ \E b \in 1..Len(t.ci) : AgreesFrom(cs, n, t.ci, th, b) /\ Len(t.ci) = b + CallsBelow(cs, th, n)
Lands(cs, n, t, th) ==
  /\ t.status = "ok"
  /\ \E b \in 1..Len(t.ci) : AgreesFrom(cs, n, t.ci, th, b) /\ Len(t.ci) >= b + CallsBelow(cs, th, n)
AtResume(cs, n, t) ==
  /\ t.nCcalls >= 1
  /\ IF cs[n].status = "ok" THEN t.status \in {"ok", "yield"} /\ Suspended(t) /\ t.nCcalls = DepthAt(cs, n)
     ELSE t.status = "ok"
Protection(cs, n, t, th) ==
  /\ LastProtected(cs, n, th, t.errorJmp) /\ HandlerIn(cs, n, th, t.errfunc)
  /\ \A r \in 1..n : Resumes(cs[r], th) => t.baseCcalls = DepthAt(cs, r)
ThreadAt(cs, n, t, th) ==
  /\ Protection(cs, n, t, th)
  /\ CASE cs[n].k = "resume" -> AtResume(cs, n, t)
       [] cs[n].k = "pcall" /\ cs[n].status # "ok" -> Lands(cs, n, t, th)
       [] OTHER -> Runs(cs, n, t, th)
IsTop(cs, n, th) == cs[n].L = th /\ \A j \in (n + 1)..Len(cs) : cs[j].L # th
ThreadOK(cs, t, th) ==
  /\ th = MainThread => t.baseCcalls = 0
  /\ IF \E i \in 1..Len(cs) : cs[i].L = th
     THEN \A n \in 1..Len(cs) : IsTop(cs, n, th) => ThreadAt(cs, n, t, th)
     ELSE Suspended(t) /\ t.errorJmp = 0
Over(t) ==
  /\ t.errorJmp = 0 /\ (t.errfunc.at # 0 => t.status \in Errors)
  /\ t.status = "yield" => Yielded(t.ci)

Good(ls, cs) ==
  /\ \A th \in Threads : IsState(ls[th])
  /\ IF cs = <<>> THEN \A th \in Threads : Over(ls[th])
     ELSE StackOK(cs) /\ \A th \in Threads : ThreadOK(cs, ls[th], th)
IInv == uses \in Programs /\ DOMAIN lstate = Threads /\ Good(lstate, cstack)

(***************************************************************************)
(* What changes neither the functions of a thread nor its control fields.   *)
(***************************************************************************)
SameCalls(t, t2) == Len(t2.ci) = Len(t.ci) /\ \A i \in 1..Len(t.ci) : Kind(t2.ci[i]) = Kind(t.ci[i])
SameControl(t, t2) ==
  /\ SameCalls(t, t2)
  /\ t2.nCcalls = t.nCcalls /\ t2.baseCcalls = t.baseCcalls /\ t2.status = t.status
  /\ t2.errfunc = t.errfunc /\ t2.allowhook = t.allowhook /\ t2.errorJmp = t.errorJmp /\ t2.body = t.body
Keeps(t, t2) == IsState(t2) /\ SameControl(t, t2)

USE DEF Errors, CFunction, NotFunction, NoBody, LUA_MULTRET, Done

LEMMA KeepsSelf == ASSUME NEW t, IsState(t) PROVE Keeps(t, t)
BY DEF Keeps, SameControl, SameCalls
LEMMA KeepsTrans == ASSUME NEW t, NEW t1, NEW t2, Keeps(t, t1), Keeps(t1, t2) PROVE Keeps(t, t2)
BY DEF Keeps, SameControl, SameCalls
LEMMA SetTop == ASSUME NEW t, IsState(t), NEW x \in Int PROVE Keeps(t, [t EXCEPT !.top = x])
BY Zenon DEF Keeps, SameControl, SameCalls, IsState, LuaState
LEMMA SetStack == ASSUME NEW t, IsState(t), NEW x \in {0, Block} PROVE Keeps(t, [t EXCEPT !.stack = x])
<1>1. [t EXCEPT !.stack = x] \in LuaState BY Zenon DEF IsState, LuaState
<1>2. [t EXCEPT !.stack = x].ci = t.ci BY DEF IsState, LuaState
<1>3. SameControl(t, [t EXCEPT !.stack = x]) BY DEF SameControl, SameCalls, IsState, LuaState
<1> QED BY <1>1, <1>2, <1>3 DEF Keeps, IsState
LEMMA SameCi ==
  ASSUME NEW t, IsState(t), NEW x
  PROVE  /\ [t EXCEPT !.top = x].ci = t.ci /\ [t EXCEPT !.stack = x].ci = t.ci /\ [t EXCEPT !.base = x].ci = t.ci
         /\ [t EXCEPT !.openupval = x].ci = t.ci /\ [t EXCEPT !.size_ci = x].ci = t.ci
BY DEF IsState, LuaState
LEMMA SetBase == ASSUME NEW t, IsState(t), NEW x \in Int PROVE Keeps(t, [t EXCEPT !.base = x])
BY Zenon DEF Keeps, SameControl, SameCalls, IsState, LuaState
LEMMA SetSizeCi == ASSUME NEW t, IsState(t), NEW x \in Nat PROVE Keeps(t, [t EXCEPT !.size_ci = x])
BY Zenon DEF Keeps, SameControl, SameCalls, IsState, LuaState
LEMMA SetStackSize == ASSUME NEW t, IsState(t), NEW x \in Nat PROVE Keeps(t, [t EXCEPT !.stacksize = x])
BY Zenon DEF Keeps, SameControl, SameCalls, IsState, LuaState
LEMMA SetOpenupval == ASSUME NEW t, IsState(t), NEW x \in SUBSET Int PROVE Keeps(t, [t EXCEPT !.openupval = x])
BY Zenon DEF Keeps, SameControl, SameCalls, IsState, LuaState
LEMMA SetCi ==
  ASSUME NEW t, IsState(t), NEW c \in Seq(CallInfo), Len(c) = Len(t.ci), \A i \in 1..Len(c) : Kind(c[i]) = Kind(t.ci[i])
  PROVE  Keeps(t, [t EXCEPT !.ci = c])
<1> DEFINE t2 == [t EXCEPT !.ci = c]
<1>1. t2 \in LuaState BY Zenon DEF IsState, LuaState
<1>2. t2.ci = c BY DEF IsState, LuaState
<1>3. c # <<>> BY DEF IsState, LuaState
<1>4. /\ t2.nCcalls = t.nCcalls /\ t2.baseCcalls = t.baseCcalls /\ t2.status = t.status
      /\ t2.errfunc = t.errfunc /\ t2.allowhook = t.allowhook /\ t2.errorJmp = t.errorJmp
  BY DEF IsState, LuaState
<1> QED BY <1>1, <1>2, <1>3, <1>4 DEF Keeps, SameControl, SameCalls, IsState
LEMMA FieldTypes ==
  ASSUME NEW t, IsState(t)
  PROVE  /\ t.stack \in Int /\ t.stack \in {0, Block} /\ t.stacksize \in Nat /\ t.top \in Int /\ t.base \in Int
         /\ t.ci \in Seq(CallInfo) /\ t.ci # <<>> /\ Len(t.ci) \in Nat \ {0} /\ t.size_ci \in Nat
         /\ t.nCcalls \in Nat /\ t.baseCcalls \in Nat /\ t.errfunc \in ErrFunc /\ t.allowhook \in BOOLEAN
         /\ t.openupval \subseteq Int /\ t.errorJmp \in Nat /\ t.body \in Bodies
         /\ t.status \in {"none", "ok", "yield"} \cup Errors
BY DEF IsState, LuaState, Block
LEMMA CiTypes ==
  ASSUME NEW c \in CallInfo
  PROVE  /\ c.func.at \in Int /\ c.func.fn \in LuaFunctions \cup {CFunction, NotFunction} /\ c.base \in Int
         /\ c.top \in Int /\ c.nresults \in Int
BY DEF CallInfo, Func
LEMMA LastCi == ASSUME NEW t, IsState(t) PROVE Ci(t) = t.ci[Len(t.ci)] /\ Ci(t) \in CallInfo
BY FieldTypes DEF Ci, Last
LEMMA CiTop == ASSUME NEW c \in CallInfo, NEW x \in Int PROVE [c EXCEPT !.top = x] \in CallInfo /\ Kind([c EXCEPT !.top = x]) = Kind(c)
BY DEF CallInfo, Kind
LEMMA ReplaceLast ==
  ASSUME NEW s \in Seq(CallInfo), s # <<>>, NEW c \in CallInfo, Kind(c) = Kind(s[Len(s)])
  PROVE  /\ [s EXCEPT ![Len(s)] = c] \in Seq(CallInfo) /\ Len([s EXCEPT ![Len(s)] = c]) = Len(s)
         /\ \A i \in 1..Len(s) : Kind([s EXCEPT ![Len(s)] = c][i]) = Kind(s[i])
OBVIOUS
LEMMA SetCiTopKeeps == ASSUME NEW t, IsState(t), NEW x \in Int PROVE Keeps(t, SetCiTop(t, x))
<1> DEFINE c == [Ci(t) EXCEPT !.top = x]
<1>1. c \in CallInfo /\ Kind(c) = Kind(Ci(t)) BY LastCi, CiTop
<1>2. SetCiTop(t, x) = [t EXCEPT !.ci = [t.ci EXCEPT ![Len(t.ci)] = c]] BY DEF SetCiTop
<1> HIDE DEF c
<1> DEFINE s == [t.ci EXCEPT ![Len(t.ci)] = c]
<1>3. s \in Seq(CallInfo) /\ Len(s) = Len(t.ci) /\ \A i \in 1..Len(s) : Kind(s[i]) = Kind(t.ci[i])
  BY <1>1, LastCi, FieldTypes, ReplaceLast
<1> HIDE DEF s
<1> QED BY ZenonT(40), <1>2, <1>3, SetCi DEF s
LEMMA CorrectstackKeeps == ASSUME NEW t, IsState(t), NEW n \in {0, Block} PROVE Keeps(t, correctstack(t, n))
<1> DEFINE moved(p) == (p - t.stack) + n
<1> DEFINE movedci(ci) == [func |-> [at |-> moved(ci.func.at), fn |-> ci.func.fn], base |-> moved(ci.base),
                           top |-> moved(ci.top), nresults |-> ci.nresults]
<1>1. t.stack \in Int /\ n \in Int /\ t.top \in Int /\ t.base \in Int /\ t.openupval \subseteq Int BY FieldTypes DEF Block
<1>2. ASSUME NEW ci \in CallInfo PROVE movedci(ci) \in CallInfo /\ Kind(movedci(ci)) = Kind(ci)
  BY <1>1, CiTypes DEF CallInfo, Func, Kind
<1> DEFINE c == [i \in DOMAIN t.ci |-> movedci(t.ci[i])]
<1>3. c \in Seq(CallInfo) /\ Len(c) = Len(t.ci) /\ \A i \in 1..Len(c) : Kind(c[i]) = Kind(t.ci[i])
  <2>1. t.ci \in Seq(CallInfo) BY FieldTypes
  <2> HIDE DEF movedci
  <2> QED BY <2>1, <1>2
<1>4. {moved(p) : p \in t.openupval} \in SUBSET Int BY <1>1
<1>5. moved(t.top) \in Int /\ moved(t.base) \in Int BY <1>1
<1>6. correctstack(t, n) = [t EXCEPT !.stack = n, !.top = moved(t.top), !.base = moved(t.base),
                                     !.openupval = {moved(p) : p \in t.openupval}, !.ci = c]
  BY DEF correctstack
<1> HIDE DEF moved, movedci, c
<1> DEFINE a1 == [t EXCEPT !.stack = n]
<1> DEFINE a2 == [a1 EXCEPT !.top = moved(t.top)]
<1> DEFINE a3 == [a2 EXCEPT !.base = moved(t.base)]
<1> DEFINE a4 == [a3 EXCEPT !.openupval = {moved(p) : p \in t.openupval}]
<1>7. correctstack(t, n) = [a4 EXCEPT !.ci = c] BY <1>6
<1>8. Keeps(t, a1) /\ a1.ci = t.ci BY Zenon, SetStack, SameCi
<1> HIDE DEF a1
<1>9. IsState(a1) BY <1>8 DEF Keeps
<1>10. Keeps(a1, a2) /\ a2.ci = a1.ci BY <1>5, <1>9, SetTop, SameCi
<1> HIDE DEF a2
<1>11. IsState(a2) BY <1>10 DEF Keeps
<1>12. Keeps(a2, a3) /\ a3.ci = a2.ci BY <1>5, <1>11, SetBase, SameCi
<1> HIDE DEF a3
<1>13. IsState(a3) BY <1>12 DEF Keeps
<1>14. Keeps(a3, a4) /\ a4.ci = a3.ci BY <1>4, <1>13, SetOpenupval, SameCi
<1> HIDE DEF a4
<1>15. IsState(a4) /\ a4.ci = t.ci BY <1>8, <1>10, <1>12, <1>14 DEF Keeps
<1>16. Keeps(a4, [a4 EXCEPT !.ci = c]) BY <1>3, <1>15, SetCi
<1> QED BY <1>7, <1>8, <1>10, <1>12, <1>14, <1>16, KeepsTrans

LEMMA ReallocKeeps == ASSUME NEW t, IsState(t), NEW n \in Nat PROVE Keeps(t, luaD_reallocstack(t, n))
<1>1. Block - t.stack \in {0, Block} BY FieldTypes DEF Block
<1>2. Keeps(t, correctstack(t, Block - t.stack)) BY <1>1, CorrectstackKeeps
<1>3. n + 1 + EXTRA_STACK \in Nat BY LimitsAssumption
<1> QED BY <1>2, <1>3, SetStackSize, KeepsTrans DEF Keeps, luaD_reallocstack
LEMMA CheckstackKeeps == ASSUME NEW t, IsState(t), NEW n \in Int PROVE Keeps(t, luaD_checkstack(t, n))
<1>1. (IF n <= t.stacksize THEN 2 * t.stacksize ELSE t.stacksize + n) \in Nat BY FieldTypes
<1>2. Keeps(t, luaD_growstack(t, n)) BY <1>1, ReallocKeeps DEF luaD_growstack
<1> QED BY <1>2, KeepsSelf DEF luaD_checkstack
LEMMA IncrTopKeeps == ASSUME NEW t, IsState(t) PROVE Keeps(t, incr_top(t))
<1> DEFINE t1 == luaD_checkstack(t, 1)
<1>1. Keeps(t, t1) BY CheckstackKeeps
<1>2. incr_top(t) = [t1 EXCEPT !.top = t1.top + 1] BY DEF incr_top
<1> HIDE DEF t1
<1>3. IsState(t1) /\ t1.top + 1 \in Int BY <1>1, FieldTypes DEF Keeps
<1> QED BY <1>1, <1>2, <1>3, SetTop, KeepsTrans
LEMMA CloseKeeps == ASSUME NEW t, IsState(t), NEW x PROVE Keeps(t, luaF_close(t, x))
<1> DEFINE up == {p \in t.openupval : p < x}
<1>1. up \in SUBSET Int BY FieldTypes
<1> QED BY <1>1, SetOpenupval DEF luaF_close
LEMMA SeterrorobjKeeps == ASSUME NEW t, IsState(t), NEW x \in Int PROVE Keeps(t, luaD_seterrorobj(t, x))
BY SetTop DEF luaD_seterrorobj
LEMMA StackLimitKeeps == ASSUME NEW t, IsState(t) PROVE Keeps(t, restore_stack_limit(t))
BY SetSizeCi, KeepsSelf, LimitsAssumption DEF restore_stack_limit
LEMMA AdjustresultsKeeps == ASSUME NEW t, IsState(t), NEW n PROVE Keeps(t, adjustresults(t, n))
BY SetCiTopKeeps, KeepsSelf, FieldTypes DEF adjustresults
LEMMA LuaCheckstackKeeps ==
  ASSUME NEW t, IsState(t), NEW n \in Int
  PROVE  Keeps(t, lua_checkstack(t, n).t) /\ lua_checkstack(t, n).ok \in BOOLEAN
<1> DEFINE t1 == IF n > 0 THEN luaD_checkstack(t, n) ELSE t
<1>1. Keeps(t, t1) BY CheckstackKeeps, KeepsSelf
<1> DEFINE t2 == IF n > 0 /\ Ci(t1).top < t1.top + n THEN SetCiTop(t1, t1.top + n) ELSE t1
<1>2. lua_checkstack(t, n) = IF n > LUAI_MAXCSTACK \/ t.top - t.base + n > LUAI_MAXCSTACK
                             THEN [ok |-> FALSE, t |-> t] ELSE [ok |-> TRUE, t |-> t2]
  BY DEF lua_checkstack
<1> HIDE DEF t1
<1>3. Keeps(t, t2)
  <2>1. IsState(t1) /\ t1.top + n \in Int BY <1>1, FieldTypes DEF Keeps
  <2>2. Keeps(t, SetCiTop(t1, t1.top + n)) BY <1>1, <2>1, SetCiTopKeeps, KeepsTrans
  <2> QED BY <1>1, <2>2
<1> HIDE DEF t2
<1> QED BY <1>2, <1>3, KeepsSelf
LEMMA ShrunkKeeps == ASSUME NEW t, IsState(t) PROVE Keeps(t, Shrunk(t))
<1> DEFINE t1 == IF 4 * (Len(t.ci) - 1) < t.size_ci /\ 2 * BASIC_CI_SIZE < t.size_ci
                 THEN [t EXCEPT !.size_ci = t.size_ci \div 2] ELSE t
<1>1. t.size_ci \div 2 \in Nat /\ t.stacksize \div 2 \in Nat BY FieldTypes
<1>2. Keeps(t, t1) BY <1>1, SetSizeCi, KeepsSelf
<1>3. Keeps(t, luaD_reallocstack(t1, t.stacksize \div 2))
  <2> HIDE DEF t1
  <2> QED BY <1>1, <1>2, ReallocKeeps, KeepsTrans DEF Keeps
<1>4. Shrunk(t) \in {t, t1, luaD_reallocstack(t1, t.stacksize \div 2)} BY DEF Shrunk
<1> HIDE DEF t1
<1> QED BY <1>2, <1>3, <1>4, KeepsSelf

(***************************************************************************)
(* The frames of the C stack, and how they are counted.                    *)
(***************************************************************************)
LEMMA FrameTypes ==
  ASSUME NEW f \in Frames
  PROVE  /\ f.k \in Kinds /\ f.L \in Threads
         /\ f.k = "execute" => f.nexeccalls \in Nat \ {0} /\ f.base \in Int
         /\ f.k = "call" => f.nresults \in Int
         /\ f.k = "pcall" => /\ f.status \in {"ok"} \cup Errors /\ f.old_top \in Int /\ f.ci \in Nat /\ f.nCcalls \in Nat
                             /\ f.allowhook \in BOOLEAN /\ f.errfunc \in ErrFunc /\ f.previous \in Nat
                             /\ f.nresults \in Int
         /\ f.k = "resume" => /\ f.from \in Threads /\ f.status \in {"ok"} \cup Errors /\ f.previous \in Nat /\ f.n \in Int
         /\ f.k = "hook" => f.top \in Int /\ f.ci_top \in Int /\ f.then \in {"call", "return", "tailcall", "count"}
         /\ f.k = "poscall" => f.first \in Int /\ f.lua \in BOOLEAN
<1>1. CASE f \in Simple BY <1>1 DEF Simple, Kinds
<1>2. CASE f \in ExecuteFrame BY <1>2 DEF ExecuteFrame, Kinds
<1>3. CASE f \in CallFrame BY <1>3 DEF CallFrame, Kinds
<1>4. CASE f \in PcallFrames BY <1>4 DEF PcallFrames, Kinds
<1>5. CASE f \in ResumeFrame BY <1>5 DEF ResumeFrame, Kinds
<1>6. CASE f \in ErrormsgFrame BY <1>6 DEF ErrormsgFrame, Kinds
<1>7. CASE f \in HookFrames BY <1>7 DEF HookFrames, Kinds
<1>8. CASE f \in PoscallFrame BY <1>8 DEF PoscallFrame, Kinds
<1> QED BY <1>1, <1>2, <1>3, <1>4, <1>5, <1>6, <1>7, <1>8 DEF Frames

LEMMA CallsInType == ASSUME NEW f \in Frames PROVE CallsIn(f) \in Nat
BY FrameTypes DEF CallsIn
LEMMA Interval == ASSUME NEW n \in Nat PROVE IsFiniteSet(1..n) /\ Cardinality(1..n) = n
<1>1. IsFiniteSet(1..n) /\ Cardinality(1..n) = IF 1 > n THEN 0 ELSE n - 1 + 1 BY FS_Interval
<1> QED BY <1>1
LEMMA FrameOf == ASSUME NEW cs \in Seq(Frames), NEW i \in 1..Len(cs) PROVE cs[i] \in Frames
OBVIOUS

CallSet(cs, th, i) == UNION {{j} \X (1..CallsIn(cs[j])) : j \in {j \in 1..i : cs[j].L = th}}
LEMMA CallSetFinite ==
  ASSUME NEW cs \in Seq(Frames), NEW th, NEW i \in 0..Len(cs)
  PROVE  IsFiniteSet(CallSet(cs, th, i))
<1> DEFINE S == {j \in 1..i : cs[j].L = th}
           f == [j \in S |-> {j} \X (1..CallsIn(cs[j]))]
           T == {{j} \X (1..CallsIn(cs[j])) : j \in S}
<1>1. IsFiniteSet(S)
  <2>1. IsFiniteSet(1..i) BY FS_Interval
  <2> QED BY <2>1, FS_Subset
<1>2. f \in Surjection(S, T) BY Zenon DEF Surjection
<1>3. IsFiniteSet(T)
  <2> HIDE DEF f, S, T
  <2> QED BY <1>1, <1>2, FS_Surjection
<1>4. ASSUME NEW j \in S PROVE IsFiniteSet({j} \X (1..CallsIn(cs[j])))
  <2>1. CallsIn(cs[j]) \in Nat BY CallsInType
  <2>2. IsFiniteSet({j}) /\ IsFiniteSet(1..CallsIn(cs[j])) BY Zenon, <2>1, FS_Singleton, Interval
  <2> QED BY Zenon, <2>2, FS_Product
<1>5. \A X \in T : IsFiniteSet(X) BY <1>4
<1>6. CallSet(cs, th, i) = UNION T BY DEF CallSet
<1> HIDE DEF T
<1> QED BY <1>3, <1>5, <1>6, FS_UNION
LEMMA CallsBelowType ==
  ASSUME NEW cs \in Seq(Frames), NEW th, NEW i \in 0..Len(cs)
  PROVE  CallsBelow(cs, th, i) \in Nat
BY Zenon, CallSetFinite, FS_CardinalityType DEF CallsBelow, CallSet
LEMMA CallsBelowZero == ASSUME NEW cs, NEW th PROVE CallsBelow(cs, th, 0) = 0
<1>1. CallSet(cs, th, 0) = {} BY DEF CallSet
<1> QED BY <1>1, FS_EmptySet DEF CallsBelow, CallSet
LEMMA CallsBelowNext ==
  ASSUME NEW cs \in Seq(Frames), NEW th, NEW i \in 1..Len(cs)
  PROVE  CallsBelow(cs, th, i) = CallsBelow(cs, th, i - 1) + (IF cs[i].L = th THEN CallsIn(cs[i]) ELSE 0)
<1> DEFINE A == CallSet(cs, th, i - 1)
           B == {i} \X (1..CallsIn(cs[i]))
<1>1. CallsBelow(cs, th, i) = Cardinality(CallSet(cs, th, i)) /\ CallsBelow(cs, th, i - 1) = Cardinality(A)
  BY DEF CallsBelow, CallSet
<1>2. CASE cs[i].L # th
  <2>1. {j \in 1..i : cs[j].L = th} = {j \in 1..(i - 1) : cs[j].L = th} BY <1>2
  <2>2. CallSet(cs, th, i) = A BY <2>1 DEF CallSet
  <2>3. CallsBelow(cs, th, i - 1) \in Nat BY CallsBelowType
  <2> QED BY <1>1, <1>2, <2>2, <2>3
<1>3. CASE cs[i].L = th
  <2>1. {j \in 1..i : cs[j].L = th} = {j \in 1..(i - 1) : cs[j].L = th} \cup {i} BY <1>3
  <2>2. CallSet(cs, th, i) = A \cup B BY <2>1 DEF CallSet
  <2>3. A \cap B = {} BY DEF CallSet
  <2>4. IsFiniteSet(A) BY CallSetFinite
  <2>5. CallsIn(cs[i]) \in Nat BY CallsInType
  <2>6. /\ IsFiniteSet({i}) /\ Cardinality({i}) = 1 /\ IsFiniteSet(1..CallsIn(cs[i]))
        /\ Cardinality(1..CallsIn(cs[i])) = CallsIn(cs[i])
    BY Zenon, <2>5, FS_Singleton, Interval
  <2>7. IsFiniteSet(B) /\ Cardinality(B) = 1 * CallsIn(cs[i]) BY ZenonT(40), <2>6, FS_Product
  <2> HIDE DEF A, B
  <2>8. Cardinality(A \cup B) = Cardinality(A) + Cardinality(B) - Cardinality({})
    BY <2>3, <2>4, <2>7, FS_Union
  <2>9. Cardinality({}) = 0 /\ Cardinality(A) \in Nat BY <2>4, FS_EmptySet, FS_CardinalityType
  <2> QED BY <1>1, <1>3, <2>2, <2>5, <2>7, <2>8, <2>9
<1> QED BY <1>2, <1>3
LEMMA CallsBelowGrows ==
  ASSUME NEW cs \in Seq(Frames), NEW th, NEW i \in 0..Len(cs), NEW j \in 0..i
  PROVE  CallsBelow(cs, th, j) <= CallsBelow(cs, th, i)
<1>1. CallSet(cs, th, j) \in SUBSET CallSet(cs, th, i) BY DEF CallSet
<1>2. CallsBelow(cs, th, i) = Cardinality(CallSet(cs, th, i)) /\ CallsBelow(cs, th, j) = Cardinality(CallSet(cs, th, j))
  BY DEF CallsBelow, CallSet
<1> QED BY <1>1, <1>2, CallSetFinite, FS_Subset

DepthSet(cs, i) == {j \in 1..i : cs[j].k \in {"call", "resume"}}
LEMMA DepthType ==
  ASSUME NEW cs, NEW i \in Nat
  PROVE  DepthAt(cs, i) \in Nat /\ IsFiniteSet(DepthSet(cs, i))
<1>1. IsFiniteSet(1..i) /\ DepthSet(cs, i) \in SUBSET (1..i) BY FS_Interval DEF DepthSet
<1>2. IsFiniteSet(DepthSet(cs, i)) BY <1>1, FS_Subset
<1> QED BY <1>2, FS_CardinalityType DEF DepthAt, DepthSet
LEMMA DepthZero == ASSUME NEW cs PROVE DepthAt(cs, 0) = 0
<1>1. DepthSet(cs, 0) = {} BY DEF DepthSet
<1> QED BY <1>1, FS_EmptySet DEF DepthAt, DepthSet
LEMMA DepthNext ==
  ASSUME NEW cs, NEW i \in Nat \ {0}
  PROVE  DepthAt(cs, i) = DepthAt(cs, i - 1) + (IF cs[i].k \in {"call", "resume"} THEN 1 ELSE 0)
<1>1. DepthAt(cs, i - 1) \in Nat /\ IsFiniteSet(DepthSet(cs, i - 1)) BY DepthType
<1>2. DepthAt(cs, i) = Cardinality(DepthSet(cs, i)) /\ DepthAt(cs, i - 1) = Cardinality(DepthSet(cs, i - 1))
  BY DEF DepthAt, DepthSet
<1>3. CASE cs[i].k \in {"call", "resume"}
  <2>1. DepthSet(cs, i) = DepthSet(cs, i - 1) \cup {i} /\ i \notin DepthSet(cs, i - 1) BY <1>3 DEF DepthSet
  <2> QED BY <1>1, <1>2, <1>3, <2>1, FS_AddElement
<1>4. CASE cs[i].k \notin {"call", "resume"}
  <2>1. DepthSet(cs, i) = DepthSet(cs, i - 1) BY <1>4 DEF DepthSet
  <2> QED BY <1>1, <1>2, <1>4, <2>1
<1> QED BY <1>3, <1>4
LEMMA DepthGrows ==
  ASSUME NEW cs, NEW i \in Nat, NEW j \in 0..i
  PROVE  DepthAt(cs, j) <= DepthAt(cs, i)
<1>1. DepthSet(cs, j) \in SUBSET DepthSet(cs, i) BY DEF DepthSet
<1> QED BY <1>1, DepthType, FS_Subset DEF DepthAt, DepthSet

(***************************************************************************)
(* Stacks with the same lower frames, apart from the bases that             *)
(* luaV_execute keeps.                                                     *)
(***************************************************************************)
Like(f, g) == f = g \/ (f.k = "execute" /\ g.k = "execute" /\ f.L = g.L /\ f.nexeccalls = g.nexeccalls)
SameUpTo(cs, new, m) ==
  /\ cs \in Seq(Frames) /\ new \in Seq(Frames)
  /\ m \in 0..Len(cs) /\ m <= Len(new) /\ \A i \in 1..m : Like(cs[i], new[i])

LEMMA LikeFacts ==
  ASSUME NEW f, NEW g, Like(f, g)
  PROVE  /\ g.k = f.k /\ g.L = f.L /\ CallsIn(g) = CallsIn(f) /\ KindIn(g) = KindIn(f)
         /\ f.k # "execute" => g = f
BY DEF Like, CallsIn, KindIn
LEMMA SameCounts ==
  ASSUME NEW cs, NEW new, NEW m, SameUpTo(cs, new, m), NEW th, NEW i \in 0..m
  PROVE  CallsBelow(new, th, i) = CallsBelow(cs, th, i) /\ DepthAt(new, i) = DepthAt(cs, i)
<1>1. \A j \in 1..i : new[j].k = cs[j].k /\ new[j].L = cs[j].L /\ CallsIn(new[j]) = CallsIn(cs[j])
  BY LikeFacts DEF SameUpTo
<1>2. {j \in 1..i : new[j].L = th} = {j \in 1..i : cs[j].L = th} BY <1>1
<1>3. CallSet(new, th, i) = CallSet(cs, th, i) BY <1>1, <1>2 DEF CallSet
<1>4. DepthSet(new, i) = DepthSet(cs, i) BY <1>1 DEF DepthSet
<1> QED BY Zenon, <1>3, <1>4 DEF CallsBelow, DepthAt, CallSet, DepthSet
LEMMA SameSearches ==
  ASSUME NEW cs, NEW new, NEW m, SameUpTo(cs, new, m), NEW th, NEW i \in 0..m
  PROVE  /\ \A e : LastProtected(cs, i, th, e) => LastProtected(new, i, th, e)
         /\ NoHook(cs, i, th) <=> NoHook(new, i, th)
         /\ \A e : HandlerIn(cs, i, th, e) => HandlerIn(new, i, th, e)
         /\ Continuing(cs, i, th) <=> Continuing(new, i, th)
<1>1. \A j \in 1..i : new[j].k = cs[j].k /\ new[j].L = cs[j].L /\ (cs[j].k # "execute" => new[j] = cs[j])
  BY LikeFacts DEF SameUpTo
<1>2. ASSUME NEW e, LastProtected(cs, i, th, e) PROVE LastProtected(new, i, th, e)
  BY <1>1, <1>2 DEF LastProtected, Protects
<1>3. NoHook(cs, i, th) <=> NoHook(new, i, th) BY <1>1 DEF NoHook
<1>4. ASSUME NEW e, HandlerIn(cs, i, th, e) PROVE HandlerIn(new, i, th, e)
  BY <1>1, <1>4 DEF HandlerIn, IsPcall
<1>5. Continuing(cs, i, th) <=> Continuing(new, i, th)
  <2>1. i \in Nat BY DEF SameUpTo
  <2> QED BY <1>1, <2>1 DEF Continuing, Resumes
<1> QED BY <1>2, <1>3, <1>4, <1>5
LEMMA SameFrame ==
  ASSUME NEW cs, NEW new, NEW m, SameUpTo(cs, new, m), NEW i \in 1..m
  PROVE  (FrameAt(cs, i) => FrameAt(new, i)) /\ (WaitAt(cs, i) => WaitAt(new, i))
<1>0. m \in Nat BY DEF SameUpTo
<1>1. \A j \in 1..i : new[j].k = cs[j].k /\ new[j].L = cs[j].L /\ (cs[j].k # "execute" => new[j] = cs[j])
  BY LikeFacts DEF SameUpTo
<1>2. WaitAt(cs, i) => WaitAt(new, i) BY <1>1 DEF WaitAt
<1>3. ASSUME FrameAt(cs, i) PROVE FrameAt(new, i)
  <2>1. i - 1 \in 0..m /\ i \in 0..m BY <1>0
  <2>2. DepthAt(new, i) = DepthAt(cs, i) /\ DepthAt(new, i - 1) = DepthAt(cs, i - 1) BY <2>1, SameCounts
  <2>3. i > 1 => (StandsOn(cs[i], cs[i - 1]) => StandsOn(new[i], new[i - 1])) BY <1>1 DEF StandsOn, CCode
  <2>4. cs[i].k = "resume" /\ i > 1 /\ ResumeAt(cs, i) => ResumeAt(new, i) BY <1>1 DEF ResumeAt
  <2>5. i = 1 => cs[i].k = "host" BY <1>3 DEF FrameAt
  <2>6. cs[i].k = "pcall" => (PcallAt(cs, i) => PcallAt(new, i))
    BY <1>1, <2>1, <2>2, SameSearches DEF PcallAt
  <2>7. cs[i].k = "hook" => (NoHook(cs, i - 1, cs[i].L) => NoHook(new, i - 1, new[i].L))
    BY <1>1, <2>1, SameSearches
  <2>8. Segment(cs, i) => Segment(new, i) BY <1>1 DEF Segment, Resumes
  <2>9. i > 1 \/ i = 1 BY <1>0
  <2> QED BY <1>1, <1>3, <2>2, <2>3, <2>4, <2>5, <2>6, <2>7, <2>8, <2>9 DEF FrameAt
<1> QED BY <1>2, <1>3
LEMMA SameAgrees ==
  ASSUME NEW cs, NEW new, NEW m, SameUpTo(cs, new, m), NEW th, NEW n \in 0..m, NEW ci, NEW b, AgreesFrom(cs, n, ci, th, b)
  PROVE  AgreesFrom(new, n, ci, th, b)
<1>0. m \in Nat BY DEF SameUpTo
<1>1. \A j \in 1..n : Like(cs[j], new[j]) BY DEF SameUpTo
<1>2. ASSUME NEW i \in 1..n, new[i].L = th PROVE FunctionsAt(new, i, ci, th, b)
  <2>1. Like(cs[i], new[i]) BY <1>1
  <2>2. /\ new[i].k = cs[i].k /\ new[i].L = cs[i].L /\ CallsIn(new[i]) = CallsIn(cs[i])
        /\ KindIn(new[i]) = KindIn(cs[i]) /\ (cs[i].k # "execute" => new[i] = cs[i])
    BY <2>1, LikeFacts
  <2>3. FunctionsAt(cs, i, ci, th, b) BY <1>2, <2>2 DEF AgreesFrom
  <2>4. CallsBelow(new, th, i - 1) = CallsBelow(cs, th, i - 1) BY <1>0, SameCounts
  <2> QED BY <2>2, <2>3, <2>4 DEF FunctionsAt
<1>3. Continuing(cs, n, th) <=> Continuing(new, n, th) BY SameSearches
<1> QED BY <1>2, <1>3 DEF AgreesFrom
LEMMA SameThread ==
  ASSUME NEW cs, NEW new, NEW m, SameUpTo(cs, new, m), NEW th, NEW n \in 1..m, NEW t, ThreadAt(cs, n, t, th)
  PROVE  ThreadAt(new, n, t, th)
<1>0. m \in Nat /\ n \in 0..m BY DEF SameUpTo
<1>1. \A j \in 1..n : Like(cs[j], new[j]) BY DEF SameUpTo
<1>2. \A j \in 1..n : new[j].k = cs[j].k /\ new[j].L = cs[j].L /\ (cs[j].k # "execute" => new[j] = cs[j])
  BY <1>1, LikeFacts
<1>3. \A r \in 0..n : DepthAt(new, r) = DepthAt(cs, r) BY <1>0, SameCounts
<1>4. CallsBelow(new, th, n) = CallsBelow(cs, th, n) BY <1>0, SameCounts
<1>5. Protection(cs, n, t, th) => Protection(new, n, t, th)
  <2>1. LastProtected(cs, n, th, t.errorJmp) => LastProtected(new, n, th, t.errorJmp) BY <1>0, SameSearches
  <2>2. HandlerIn(cs, n, th, t.errfunc) => HandlerIn(new, n, th, t.errfunc) BY <1>0, SameSearches
  <2> QED BY <1>2, <1>3, <2>1, <2>2 DEF Protection, Resumes
<1>6. \A b : AgreesFrom(cs, n, t.ci, th, b) => AgreesFrom(new, n, t.ci, th, b) BY <1>0, SameAgrees
<1>7. NoHook(cs, n, th) <=> NoHook(new, n, th) BY <1>0, SameSearches
<1>8. Runs(cs, n, t, th) => Runs(new, n, t, th) BY <1>0, <1>3, <1>4, <1>6, <1>7 DEF Runs
<1>9. Lands(cs, n, t, th) => Lands(new, n, t, th) BY <1>4, <1>6 DEF Lands
<1>10. cs[n].k = "resume" => (AtResume(cs, n, t) => AtResume(new, n, t)) BY <1>0, <1>2, <1>3 DEF AtResume
<1> QED BY <1>0, <1>2, <1>5, <1>8, <1>9, <1>10 DEF ThreadAt

(***************************************************************************)
(* A step changes the frames above some frame m, which are all of one       *)
(* thread th.                                                              *)
(***************************************************************************)
Above(cs, m, X) == \A i \in (m + 1)..Len(cs) : cs[i].L \in X
Step(cs, new, X) == \E m \in Nat : SameUpTo(cs, new, m) /\ Above(cs, m, X) /\ Above(new, m, X)

LEMMA StackStep ==
  ASSUME NEW cs, NEW new, NEW m, StackOK(cs), SameUpTo(cs, new, m),
         \A i \in (m + 1)..Len(new) : FrameAt(new, i),
         \A i \in 1..(Len(new) - 1) : i >= m => WaitAt(new, i)
  PROVE  StackOK(new)
<1>1. m \in Nat /\ m <= Len(cs) /\ m <= Len(new) /\ Len(new) \in Nat /\ Len(cs) \in Nat BY DEF SameUpTo
<1>2. ASSUME NEW i \in 1..Len(new) PROVE FrameAt(new, i)
  <2>1. CASE i <= m
    <3>1. i \in 1..m /\ i \in 1..Len(cs) BY <1>1, <2>1
    <3> QED BY <3>1, SameFrame DEF StackOK
  <2>2. CASE i > m BY <1>1, <2>2
  <2> QED BY <1>1, <2>1, <2>2
<1>3. ASSUME NEW i \in 1..Len(new), i < Len(new) PROVE WaitAt(new, i)
  <2>1. CASE i < m
    <3>1. i \in 1..m /\ i \in 1..Len(cs) /\ i < Len(cs) BY <1>1, <2>1
    <3> QED BY <3>1, SameFrame DEF StackOK
  <2>2. CASE i >= m BY <1>1, <1>3, <2>2
  <2> QED BY <1>1, <2>1, <2>2
<1> QED BY <1>2, <1>3 DEF StackOK, SameUpTo

LEMMA OtherThread ==
  ASSUME NEW cs, NEW new, NEW X, Step(cs, new, X), NEW u, u \notin X, NEW t, ThreadOK(cs, t, u)
  PROVE  ThreadOK(new, t, u)
<1> PICK m \in Nat : SameUpTo(cs, new, m) /\ Above(cs, m, X) /\ Above(new, m, X) BY DEF Step
<1>1. m <= Len(cs) /\ m <= Len(new) /\ Len(new) \in Nat /\ Len(cs) \in Nat BY DEF SameUpTo
<1>2. \A j \in 1..m : new[j].L = cs[j].L BY LikeFacts DEF SameUpTo
<1>3. \A i \in 1..Len(cs) : cs[i].L = u => i \in 1..m BY <1>1 DEF Above
<1>4. \A i \in 1..Len(new) : new[i].L = u => i \in 1..m BY <1>1 DEF Above
<1>5. ASSUME NEW n \in 1..Len(new), IsTop(new, n, u) PROVE n \in 1..m /\ n \in 1..Len(cs) /\ IsTop(cs, n, u)
  BY SMTT(30), <1>1, <1>2, <1>3, <1>4, <1>5 DEF IsTop
<1>6. (\E i \in 1..Len(cs) : cs[i].L = u) <=> (\E i \in 1..Len(new) : new[i].L = u)
  BY SMTT(30), <1>1, <1>2, <1>3, <1>4
<1>7. ASSUME NEW n \in 1..Len(new), IsTop(new, n, u), \E i \in 1..Len(new) : new[i].L = u PROVE ThreadAt(new, n, t, u)
  BY <1>5, <1>6, <1>7, SameThread DEF ThreadOK
<1> QED BY <1>6, <1>7 DEF ThreadOK

LEMMA StepSelf == ASSUME NEW cs \in Seq(Frames), NEW X PROVE Step(cs, cs, X)
<1>1. Len(cs) \in Nat OBVIOUS
<1>2. SameUpTo(cs, cs, Len(cs)) BY DEF SameUpTo, Like
<1>3. Above(cs, Len(cs), X) BY <1>1 DEF Above
<1> QED BY <1>1, <1>2, <1>3 DEF Step
LEMMA StepTrans ==
  ASSUME NEW cs, NEW cs1, NEW cs2, NEW X, Step(cs, cs1, X), Step(cs1, cs2, X)
  PROVE  Step(cs, cs2, X)
<1> PICK m1 \in Nat : SameUpTo(cs, cs1, m1) /\ Above(cs, m1, X) /\ Above(cs1, m1, X) BY DEF Step
<1> PICK m2 \in Nat : SameUpTo(cs1, cs2, m2) /\ Above(cs1, m2, X) /\ Above(cs2, m2, X) BY DEF Step
<1> DEFINE m == IF m1 <= m2 THEN m1 ELSE m2
<1>0. /\ Len(cs) \in Nat /\ Len(cs1) \in Nat /\ Len(cs2) \in Nat /\ m1 <= Len(cs) /\ m1 <= Len(cs1)
      /\ m2 <= Len(cs1) /\ m2 <= Len(cs2) /\ m \in Nat
  BY DEF SameUpTo
<1>1. \A i \in 1..m1 : Like(cs[i], cs1[i]) BY DEF SameUpTo
<1>2. \A i \in 1..m2 : Like(cs1[i], cs2[i]) BY DEF SameUpTo
<1>3. \A i \in 1..m : Like(cs[i], cs2[i]) BY <1>1, <1>2 DEF Like
<1>4. SameUpTo(cs, cs2, m) BY <1>0, <1>3 DEF SameUpTo
<1>5. Above(cs, m, X)
  <2> SUFFICES ASSUME NEW i \in (m + 1)..Len(cs) PROVE cs[i].L \in X BY DEF Above
  <2>1. CASE i > m1 BY <1>0, <2>1 DEF Above
  <2>2. CASE i <= m1
    <3>1. i \in (m2 + 1)..Len(cs1) /\ i \in 1..m1 BY <1>0, <2>2
    <3> QED BY <1>1, <3>1, LikeFacts DEF Above
  <2> QED BY <1>0, <2>1, <2>2
<1>6. Above(cs2, m, X)
  <2> SUFFICES ASSUME NEW i \in (m + 1)..Len(cs2) PROVE cs2[i].L \in X BY DEF Above
  <2>1. CASE i > m2 BY <1>0, <2>1 DEF Above
  <2>2. CASE i <= m2
    <3>1. i \in (m1 + 1)..Len(cs1) /\ i \in 1..m2 BY <1>0, <2>2
    <3> QED BY <1>2, <3>1, LikeFacts DEF Above
  <2> QED BY <1>0, <2>1, <2>2
<1> HIDE DEF m
<1> QED BY <1>0, <1>4, <1>5, <1>6 DEF Step

(***************************************************************************)
(* The thread that runs, with functions in progress and nothing to land.    *)
(***************************************************************************)
Placed(cs, th, t) ==
  /\ StackOK(cs) /\ cs # <<>> /\ th = cs[Len(cs)].L
  /\ IsState(t) /\ (th = MainThread => t.baseCcalls = 0)
  /\ Protection(cs, Len(cs), t, th) /\ WaitAt(cs, Len(cs))
Ready(cs, th, t) == Placed(cs, th, t) /\ Runs(cs, Len(cs), t, th)

(* The frame that has the place above m is not protected.                   *)
Plain(cs, m) ==
  m < Len(cs) => cs[m + 1].k \notin {"resume", "pcall"} /\ cs[m + 1].L = cs[m].L
(* It is not the one with which a coroutine goes on.                        *)
Steady(cs, m) == m < Len(cs) /\ cs[m].k = "resume" => ~ (cs[m + 1].k = "poscall" /\ ~ cs[m + 1].lua)
Stands(new, m, th) ==
  m < Len(new) => /\ StandsOn(new[m + 1], new[m])
                  /\ new[m + 1].k = "hook" => NoHook(new, m, th)
                  /\ DepthAt(new, m + 1) <= LUAI_MAXCCALLS + ErrorCCalls
OneFrame(cs, new, m, th) ==
  /\ SameUpTo(cs, new, m) /\ m \in Nat \ {0} /\ Len(cs) \in {m, m + 1} /\ Len(new) \in {m, m + 1}
  /\ Plain(cs, m) /\ Plain(new, m) /\ Stands(new, m, th)
CallsAbove(cs, m) == IF m < Len(cs) THEN CallsIn(cs[m + 1]) ELSE 0
(* ... and the state of the thread follows.                                 *)
Follows(cs, new, m, th, t, t2) ==
  /\ Steady(cs, m) /\ Steady(new, m)
  /\ t2.status = "ok" /\ t2.nCcalls = DepthAt(new, Len(new)) /\ (t2.allowhook <=> NoHook(new, Len(new), th))
  /\ t2.errfunc = t.errfunc /\ t2.errorJmp = t.errorJmp /\ t2.baseCcalls = t.baseCcalls
  /\ Len(t2.ci) = Len(t.ci) - CallsAbove(cs, m) + CallsAbove(new, m)
  /\ \A j \in 1..(Len(t.ci) - CallsAbove(cs, m)) : Kind(t2.ci[j]) = Kind(t.ci[j])
  /\ \A j \in 1..CallsAbove(new, m) : Kind(t2.ci[Len(t.ci) - CallsAbove(cs, m) + j]) = KindIn(new[m + 1])

LEMMA CountAbove ==
  ASSUME NEW cs \in Seq(Frames), NEW m \in Nat \ {0}, Len(cs) \in {m, m + 1}, Plain(cs, m), cs # <<>>
  PROVE  /\ CallsAbove(cs, m) \in Nat /\ CallsBelow(cs, cs[m].L, m) \in Nat
         /\ CallsBelow(cs, cs[m].L, Len(cs)) = CallsBelow(cs, cs[m].L, m) + CallsAbove(cs, m)
         /\ cs[Len(cs)].L = cs[m].L
<1>1. CASE Len(cs) = m BY <1>1, CallsBelowType DEF CallsAbove
<1>2. CASE Len(cs) = m + 1
  <2>1. cs[m + 1].L = cs[m].L BY <1>2 DEF Plain
  <2>2. m + 1 \in 1..Len(cs) /\ m \in 0..Len(cs) /\ (m + 1) - 1 = m BY <1>2
  <2>3. CallsBelow(cs, cs[m].L, m + 1) = CallsBelow(cs, cs[m].L, (m + 1) - 1) + CallsIn(cs[m + 1])
    BY <2>1, <2>2, CallsBelowNext
  <2>4. CallsIn(cs[m + 1]) \in Nat BY <2>2, CallsInType, FrameOf
  <2>5. CallsBelow(cs, cs[m].L, m) \in Nat BY <2>2, CallsBelowType
  <2> QED BY <1>2, <2>1, <2>2, <2>3, <2>4, <2>5 DEF CallsAbove
<1> QED BY <1>1, <1>2
LEMMA ContinuingBelow ==
  ASSUME NEW cs \in Seq(Frames), NEW m \in Nat \ {0}, Len(cs) \in {m, m + 1}, Steady(cs, m), NEW th
  PROVE  Continuing(cs, Len(cs), th) <=> Continuing(cs, m, th)
<1>1. CASE Len(cs) = m BY <1>1
<1>2. CASE Len(cs) = m + 1
  <2>1. cs[m].k = "resume" => ~ (cs[m + 1].k = "poscall" /\ ~ cs[m + 1].lua) BY <1>2 DEF Steady
  <2>2. 1..(Len(cs) - 1) = (1..(m - 1)) \cup {m} BY <1>2
  <2> QED BY <2>1, <2>2 DEF Continuing, Resumes
<1> QED BY <1>1, <1>2

LEMMA ChangeStack ==
  ASSUME NEW cs, NEW new, NEW m, NEW th, NEW t, Placed(cs, th, t), OneFrame(cs, new, m, th)
  PROVE  StackOK(new) /\ new # <<>> /\ th = new[Len(new)].L /\ WaitAt(new, Len(new)) /\ Step(cs, new, {th})
<1>1. /\ m \in Nat \ {0} /\ SameUpTo(cs, new, m) /\ cs \in Seq(Frames) /\ new \in Seq(Frames) /\ Len(cs) \in Nat
      /\ Len(new) \in Nat /\ m <= Len(cs) /\ m <= Len(new)
  BY DEF OneFrame, SameUpTo
<1>2. new # <<>> /\ cs # <<>> BY <1>1
<1>3. cs[m].L = th /\ new[m].L = th
  <2>1. cs[m].L = th BY <1>1, <1>2, CountAbove DEF OneFrame, Ready, Placed
  <2>2. Like(cs[m], new[m]) BY <1>1 DEF SameUpTo
  <2> QED BY <2>1, <2>2, LikeFacts
<1>4. new[Len(new)].L = th BY <1>1, <1>2, <1>3, CountAbove DEF OneFrame
<1>5. FrameAt(cs, m) /\ WaitAt(cs, m)
  <2>1. m \in 1..Len(cs) BY <1>1
  <2> QED BY <1>1, <2>1 DEF Ready, Placed, StackOK, OneFrame
<1>6. FrameAt(new, m) /\ WaitAt(new, m) BY <1>1, <1>5, SameFrame
<1>7. ASSUME NEW i \in (m + 1)..Len(new) PROVE FrameAt(new, i) /\ WaitAt(new, i)
  <2>1. i = m + 1 /\ m < Len(new) BY <1>1, <1>7 DEF OneFrame
  <2>2. new[m + 1].k \notin {"resume", "pcall"} /\ new[m + 1].L = new[m].L BY <2>1 DEF OneFrame, Plain
  <2>3. Segment(new, m) BY <1>6 DEF FrameAt
  <2>4. Segment(new, i) BY <1>1, <2>1, <2>2, <2>3 DEF Segment
  <2>5. StandsOn(new[i], new[i - 1]) /\ i > 1 /\ i - 1 = m BY <1>1, <2>1 DEF OneFrame, Stands
  <2>6. new[i].k = "hook" => NoHook(new, i - 1, new[i].L) BY <1>3, <2>1, <2>2, <2>5 DEF OneFrame, Stands
  <2>7. DepthAt(new, i) <= LUAI_MAXCCALLS + ErrorCCalls BY <2>1 DEF OneFrame, Stands
  <2> QED BY <1>1, <2>1, <2>2, <2>4, <2>5, <2>6, <2>7 DEF FrameAt, WaitAt
<1>8. StackOK(new)
  <2>1. \A i \in 1..(Len(new) - 1) : i >= m => WaitAt(new, i) BY <1>1, <1>6 DEF OneFrame
  <2> QED BY <1>1, <1>7, <2>1, StackStep DEF Ready, Placed
<1>9. WaitAt(new, Len(new)) BY <1>1, <1>6, <1>7 DEF OneFrame
<1>10. Above(cs, m, {th}) /\ Above(new, m, {th})
  <2>1. \A i \in (m + 1)..Len(cs) : i = Len(cs) BY <1>1 DEF OneFrame
  <2>2. \A i \in (m + 1)..Len(new) : i = Len(new) BY <1>1 DEF OneFrame
  <2>3. cs[Len(cs)].L = th BY DEF Ready, Placed
  <2> QED BY <1>4, <2>1, <2>2, <2>3 DEF Above
<1> QED BY <1>1, <1>2, <1>4, <1>8, <1>9, <1>10 DEF Step

LEMMA ChangeProtection ==
  ASSUME NEW cs, NEW new, NEW m, NEW th, NEW t, NEW t2, Placed(cs, th, t), OneFrame(cs, new, m, th),
         t2.errfunc = t.errfunc, t2.errorJmp = t.errorJmp, t2.baseCcalls = t.baseCcalls
  PROVE  Protection(new, Len(new), t2, th)
<1>1. /\ m \in Nat \ {0} /\ m \in 0..m /\ SameUpTo(cs, new, m) /\ Len(cs) \in {m, m + 1} /\ Len(new) \in {m, m + 1}
  BY DEF OneFrame
<1>2. \A i \in (m + 1)..Len(cs) : cs[i].k \notin {"resume", "pcall"} BY <1>1 DEF OneFrame, Plain
<1>3. \A i \in (m + 1)..Len(new) : new[i].k \notin {"resume", "pcall"} BY <1>1 DEF OneFrame, Plain
<1>4. Protection(cs, Len(cs), t, th) BY DEF Ready, Placed
<1>5. LastProtected(cs, m, th, t.errorJmp)
  BY <1>1, <1>2, <1>4 DEF Protection, LastProtected, Protects
<1>6. LastProtected(new, m, th, t.errorJmp) BY Zenon, <1>1, <1>5, SameSearches
<1>7. LastProtected(new, Len(new), th, t.errorJmp) BY <1>1, <1>3, <1>6 DEF LastProtected, Protects
<1>8. HandlerIn(cs, m, th, t.errfunc)
  <2>1. HandlerIn(cs, Len(cs), th, t.errfunc) BY <1>4 DEF Protection
  <2> QED BY <1>1, <1>2, <2>1 DEF HandlerIn, IsPcall
<1>9. HandlerIn(new, m, th, t.errfunc) BY Zenon, <1>1, <1>8, SameSearches
<1>10. HandlerIn(new, Len(new), th, t.errfunc)
  <2> SUFFICES ASSUME t.errfunc.at # 0
               PROVE \E p \in 1..Len(new) : /\ IsPcall(new[p], th) /\ t.errfunc.at = new[p].old_top - 1
                                            /\ \A j \in (p + 1)..Len(new) : ~ IsPcall(new[j], th)
    BY DEF HandlerIn
  <2> PICK p \in 1..m : /\ IsPcall(new[p], th) /\ t.errfunc.at = new[p].old_top - 1
                        /\ \A j \in (p + 1)..m : ~ IsPcall(new[j], th)
    BY <1>9 DEF HandlerIn
  <2>1. \A j \in (p + 1)..Len(new) : ~ IsPcall(new[j], th) BY <1>1, <1>3 DEF IsPcall
  <2> QED BY <1>1, <2>1
<1>11. ASSUME NEW r \in 1..Len(new), Resumes(new[r], th) PROVE t.baseCcalls = DepthAt(new, r)
  <2>1. r \in 1..m BY <1>1, <1>3, <1>11 DEF Resumes
  <2>2. Like(cs[r], new[r]) BY <1>1, <2>1 DEF SameUpTo
  <2>3. Resumes(cs[r], th) BY <1>11, <2>2, LikeFacts DEF Resumes
  <2>4. DepthAt(new, r) = DepthAt(cs, r) BY <1>1, <2>1, SameCounts
  <2>5. r \in 1..Len(cs) BY <1>1, <2>1
  <2> QED BY <1>4, <2>3, <2>4, <2>5 DEF Protection
<1> QED BY <1>7, <1>10, <1>11 DEF Protection

LEMMA ChangeRuns ==
  ASSUME NEW cs, NEW new, NEW m, NEW th, NEW t, NEW t2, Ready(cs, th, t), OneFrame(cs, new, m, th),
         IsState(t2), Follows(cs, new, m, th, t, t2)
  PROVE  Runs(new, Len(new), t2, th)
<1>1. /\ m \in Nat \ {0} /\ m \in 0..m /\ SameUpTo(cs, new, m) /\ Len(cs) \in {m, m + 1} /\ Len(new) \in {m, m + 1}
      /\ cs \in Seq(Frames) /\ new \in Seq(Frames) /\ cs # <<>> /\ new # <<>> /\ Plain(cs, m) /\ Plain(new, m) /\ Steady(cs, m) /\ Steady(new, m)
  BY DEF OneFrame, SameUpTo, Follows
<1> PICK b \in 1..Len(t.ci) : AgreesFrom(cs, Len(cs), t.ci, th, b) /\ Len(t.ci) = b + CallsBelow(cs, th, Len(cs))
  BY DEF Ready, Placed, Runs
<1> DEFINE N == CallsBelow(cs, th, m)
           c0 == CallsAbove(cs, m)
           c1 == CallsAbove(new, m)
<1>2. cs[m].L = th /\ new[m].L = th
  <2>1. cs[m].L = th BY <1>1, CountAbove DEF Ready, Placed
  <2>2. Like(cs[m], new[m]) BY <1>1 DEF SameUpTo
  <2> QED BY <2>1, <2>2, LikeFacts
<1>3. c0 \in Nat /\ N \in Nat /\ CallsBelow(cs, th, Len(cs)) = N + c0 BY Zenon, <1>1, <1>2, CountAbove
<1>4. c1 \in Nat /\ CallsBelow(new, th, Len(new)) = N + c1
  <2>1. CallsBelow(new, th, m) = N BY <1>1, SameCounts
  <2> QED BY <1>1, <1>2, <2>1, CountAbove
<1>5. Len(t.ci) - c0 = b + N /\ Len(t2.ci) = b + CallsBelow(new, th, Len(new)) BY <1>3, <1>4 DEF Follows
<1>6. \A j \in 1..(b + N) : Kind(t2.ci[j]) = Kind(t.ci[j]) BY <1>5 DEF Follows
<1>7. \A j \in 1..c1 : Kind(t2.ci[b + N + j]) = KindIn(new[m + 1]) BY <1>5 DEF Follows
<1>8. b \in 1..Len(t2.ci) BY <1>3, <1>4, <1>5
<1> HIDE DEF N, c0, c1
<1>9. ASSUME NEW i \in 1..Len(new), new[i].L = th PROVE FunctionsAt(new, i, t2.ci, th, b)
  <2>1. CASE i <= m
    <3>1. i \in 1..m /\ i - 1 \in 0..m /\ i \in 0..m /\ i \in 1..Len(cs) BY <1>1, <2>1
    <3>2. Like(cs[i], new[i]) BY <1>1, <3>1 DEF SameUpTo
    <3>3. /\ new[i].k = cs[i].k /\ new[i].L = cs[i].L /\ CallsIn(new[i]) = CallsIn(cs[i])
          /\ KindIn(new[i]) = KindIn(cs[i]) /\ (cs[i].k # "execute" => new[i] = cs[i])
      BY <3>2, LikeFacts
    <3>4. FunctionsAt(cs, i, t.ci, th, b) BY <1>9, <3>1, <3>3 DEF AgreesFrom
    <3>5. CallsBelow(new, th, i - 1) = CallsBelow(cs, th, i - 1) BY <1>1, <3>1, SameCounts
    <3>6. CallsBelow(cs, th, i - 1) \in Nat /\ CallsIn(cs[i]) \in Nat BY SMTT(30), <1>1, <3>1, CallsBelowType, CallsInType, FrameOf
    <3>7. CallsBelow(cs, th, i - 1) + CallsIn(cs[i]) <= N
      <4>1. CallsBelow(cs, th, i) = CallsBelow(cs, th, i - 1) + CallsIn(cs[i])
        BY <1>1, <1>9, <3>1, <3>3, CallsBelowNext
      <4>2. CallsBelow(cs, th, i) <= CallsBelow(cs, th, m)
        <5>1. m \in 0..Len(cs) /\ i \in 0..m BY <1>1, <3>1
        <5> QED BY <1>1, <5>1, CallsBelowGrows
      <4> QED BY <4>1, <4>2 DEF N
    <3>8. ASSUME NEW k \in 1..CallsIn(new[i])
          PROVE  Kind(t2.ci[b + CallsBelow(new, th, i - 1) + k]) = KindIn(new[i])
      <4> DEFINE p == CallsBelow(cs, th, i - 1)
                 c == CallsIn(cs[i])
      <4>0. p \in Nat /\ c \in Nat /\ p + c <= N /\ k \in 1..c BY <3>3, <3>6, <3>7, <3>8
      <4> HIDE DEF p, c
      <4>3. b + p + k \in 1..(b + N) BY <1>3, <4>0
      <4>1. b + CallsBelow(cs, th, i - 1) + k \in 1..(b + N) BY <4>3 DEF p
      <4>2. Kind(t.ci[b + CallsBelow(cs, th, i - 1) + k]) = KindIn(cs[i]) BY <3>3, <3>4 DEF FunctionsAt
      <4> QED BY Zenon, <1>6, <3>3, <3>5, <4>1, <4>2
    <3>9. new[i].k = "pcall" => new[i].ci = b + CallsBelow(new, th, i - 1) BY <3>3, <3>4, <3>5 DEF FunctionsAt
    <3> QED BY <3>8, <3>9 DEF FunctionsAt
  <2>2. CASE i = m + 1
    <3>1. CallsBelow(new, th, i - 1) = N BY <1>1, <2>2, SameCounts DEF N
    <3>2. new[i].k # "pcall" BY <1>1, <2>2 DEF Plain
    <3>3. CallsIn(new[i]) = c1 BY <1>1, <2>2 DEF CallsAbove, c1
    <3> QED BY <1>7, <2>2, <3>1, <3>2, <3>3 DEF FunctionsAt
  <2> QED BY <1>1, <2>1, <2>2
<1>10. b > 1 <=> Continuing(new, Len(new), th)
  <2>1. Continuing(cs, Len(cs), th) <=> Continuing(cs, m, th) BY <1>1, ContinuingBelow
  <2>2. Continuing(new, Len(new), th) <=> Continuing(new, m, th) BY <1>1, ContinuingBelow
  <2>3. Continuing(cs, m, th) <=> Continuing(new, m, th) BY <1>1, SameSearches
  <2> QED BY <2>1, <2>2, <2>3 DEF AgreesFrom
<1>11. \A j \in 2..b : Kind(t2.ci[j]) = "lua"
  <2>1. \A j \in 2..b : j \in 1..(b + N) BY <1>3
  <2> QED BY <1>6, <2>1 DEF AgreesFrom
<1>12. AgreesFrom(new, Len(new), t2.ci, th, b) BY <1>9, <1>10, <1>11 DEF AgreesFrom
<1> QED BY <1>5, <1>8, <1>12 DEF Runs, Follows

LEMMA Change ==
  ASSUME NEW cs, NEW new, NEW m, NEW th, NEW t, NEW t2, Ready(cs, th, t), OneFrame(cs, new, m, th),
         IsState(t2), Follows(cs, new, m, th, t, t2)
  PROVE  Ready(new, th, t2) /\ Step(cs, new, {th})
<1>1. StackOK(new) /\ new # <<>> /\ th = new[Len(new)].L /\ WaitAt(new, Len(new)) /\ Step(cs, new, {th})
  BY Zenon, ChangeStack DEF Ready
<1>2. t2.errfunc = t.errfunc /\ t2.errorJmp = t.errorJmp /\ t2.baseCcalls = t.baseCcalls BY DEF Follows
<1>3. Protection(new, Len(new), t2, th) BY <1>2, ChangeProtection DEF Ready
<1>4. Runs(new, Len(new), t2, th) BY ChangeRuns
<1> QED BY <1>1, <1>2, <1>3, <1>4 DEF Ready, Placed

(***************************************************************************)
(* One frame is pushed, popped or replaced.                                *)
(***************************************************************************)
SameFields(t, t2) ==
  /\ t2.status = t.status /\ t2.errfunc = t.errfunc /\ t2.errorJmp = t.errorJmp /\ t2.baseCcalls = t.baseCcalls
  /\ t2.body = t.body
(* The list of functions loses c and gets those of f.                      *)
Calls(t, t2, c, f) ==
  /\ Len(t2.ci) = Len(t.ci) - c + CallsIn(f)
  /\ \A j \in 1..(Len(t.ci) - c) : Kind(t2.ci[j]) = Kind(t.ci[j])
  /\ \A j \in 1..CallsIn(f) : Kind(t2.ci[Len(t.ci) - c + j]) = KindIn(f)
NoContinue(f, g) == g.k = "resume" => ~ (f.k = "poscall" /\ ~ f.lua)

LEMMA ReadyFacts ==
  ASSUME NEW cs, NEW th, NEW t, Ready(cs, th, t)
  PROVE  /\ cs \in Seq(Frames) /\ cs # <<>> /\ Len(cs) \in Nat \ {0} /\ cs[Len(cs)] \in Frames /\ th = cs[Len(cs)].L
         /\ th \in Threads /\ FrameAt(cs, Len(cs)) /\ IsState(t) /\ StackOK(cs)
         /\ t.status = "ok" /\ t.nCcalls = DepthAt(cs, Len(cs)) /\ (t.allowhook <=> NoHook(cs, Len(cs), th))
         /\ DepthAt(cs, Len(cs)) <= LUAI_MAXCCALLS + ErrorCCalls
         /\ cs[Len(cs)] = Last(cs) /\ t.allowhook \in BOOLEAN
<1>1. cs \in Seq(Frames) /\ cs # <<>> /\ th = cs[Len(cs)].L BY DEF Ready, Placed, StackOK
<1>2. Len(cs) \in Nat \ {0} /\ cs[Len(cs)] \in Frames /\ cs[Len(cs)] = Last(cs) BY <1>1 DEF Last
<1>3. FrameAt(cs, Len(cs)) BY <1>2 DEF Ready, Placed, StackOK
<1>4. th \in Threads BY <1>1, <1>2, FrameTypes
<1> QED BY <1>1, <1>2, <1>3, <1>4, FieldTypes DEF Ready, Placed, Runs, FrameAt

LEMMA PushFrame ==
  ASSUME NEW cs, NEW th, NEW t, Ready(cs, th, t),
         NEW f \in Frames, f.L = th, f.k \notin {"resume", "pcall"}, StandsOn(f, Last(cs)), NoContinue(f, Last(cs)),
         f.k = "hook" => t.allowhook, f.k = "call" => t.nCcalls + 1 <= LUAI_MAXCCALLS + ErrorCCalls,
         NEW t2, IsState(t2), SameFields(t, t2), Calls(t, t2, 0, f),
         t2.nCcalls = t.nCcalls + (IF f.k = "call" THEN 1 ELSE 0),
         t2.allowhook <=> t.allowhook /\ f.k # "hook"
  PROVE  Ready(Append(cs, f), th, t2) /\ Step(cs, Append(cs, f), {th})
<1> DEFINE new == Append(cs, f)
           m == Len(cs)
<1>1. /\ cs \in Seq(Frames) /\ new \in Seq(Frames) /\ m \in Nat \ {0} /\ Len(new) = m + 1 /\ new[m + 1] = f
      /\ (\A i \in 1..m : new[i] = cs[i]) /\ Last(cs) = cs[m] /\ Len(cs) = m
  BY ReadyFacts
<1> HIDE DEF new, m
<1>2. SameUpTo(cs, new, m) BY <1>1 DEF SameUpTo, Like
<1>3. DepthAt(new, m) = DepthAt(cs, m) /\ (NoHook(new, m, th) <=> NoHook(cs, m, th))
  BY <1>1, <1>2, SameCounts, SameSearches
<1>4. DepthAt(new, m + 1) = DepthAt(cs, m) + (IF f.k = "call" THEN 1 ELSE 0)
  <2>1. m + 1 \in Nat \ {0} /\ (m + 1) - 1 = m BY <1>1
  <2> QED BY <1>1, <1>3, <2>1, DepthNext
<1>5. NoHook(new, m + 1, th) <=> t.allowhook /\ f.k # "hook"
  <2>1. NoHook(new, m + 1, th) <=> NoHook(new, m, th) /\ f.k # "hook" BY <1>1 DEF NoHook
  <2>2. t.allowhook <=> NoHook(cs, m, th) BY ReadyFacts DEF m
  <2> QED BY <1>3, <2>1, <2>2
<1>6. DepthAt(new, m + 1) <= LUAI_MAXCCALLS + ErrorCCalls
  <2>1. DepthAt(cs, m) <= LUAI_MAXCCALLS + ErrorCCalls /\ t.nCcalls = DepthAt(cs, m) /\ DepthAt(cs, m) \in Nat
    BY <1>1, ReadyFacts, DepthType DEF m
  <2> QED BY <1>4, <2>1
<1>7. Plain(cs, m) /\ Plain(new, m)
  <2>1. ~ (m < Len(cs)) BY <1>1 DEF m
  <2>2. new[m].k = cs[m].k /\ new[m].L = th BY <1>1, ReadyFacts DEF m
  <2> QED BY <1>1, <2>1, <2>2 DEF Plain
<1>8. Stands(new, m, th)
  <2>1. StandsOn(new[m + 1], new[m]) BY <1>1
  <2>2. new[m + 1].k = "hook" => NoHook(new, m, th) BY <1>1, <1>3, ReadyFacts DEF m
  <2> QED BY <1>6, <2>1, <2>2 DEF Stands
<1>9. OneFrame(cs, new, m, th) BY <1>1, <1>2, <1>7, <1>8 DEF OneFrame, m
<1>10. CallsAbove(cs, m) = 0 /\ CallsAbove(new, m) = CallsIn(f) BY <1>1 DEF CallsAbove, m
<1>11. Follows(cs, new, m, th, t, t2)
  <2>1. t2.status = "ok" BY ReadyFacts DEF SameFields
  <2>2. t2.nCcalls = DepthAt(new, Len(new)) BY <1>1, <1>4, ReadyFacts DEF m
  <2>3. Steady(cs, m) /\ Steady(new, m)
    <3>1. new[m] = Last(cs) /\ new[m + 1] = f /\ ~ (m < Len(cs)) BY <1>1
    <3> QED BY <3>1 DEF Steady, NoContinue
  <2> QED BY <1>1, <1>5, <1>10, <2>1, <2>2, <2>3 DEF Follows, Calls, SameFields
<1> QED BY Zenon, <1>9, <1>11, Change DEF new

LEMMA AboveOne == ASSUME NEW n \in Nat \ {0}, n # 1 PROVE n > 1
OBVIOUS
LEMMA FrontFacts ==
  ASSUME NEW S, NEW s \in Seq(S), Len(s) \in Nat \ {0}
  PROVE  /\ Front(s) \in Seq(S) /\ Len(Front(s)) = Len(s) - 1
         /\ \A i \in 1..(Len(s) - 1) : Front(s)[i] = s[i]
<1>1. CASE Len(s) = 1
  <2>1. Front(s) = SubSeq(s, 1, 0) BY <1>1 DEF Front
  <2>2. Front(s) = <<>> BY <2>1
  <2> QED BY <1>1, <2>2
<1>2. CASE Len(s) > 1 BY <1>2 DEF Front
<1> QED BY Zenon, <1>1, <1>2, AboveOne
LEMMA TopFrame ==
  ASSUME NEW cs, NEW th, NEW t, Ready(cs, th, t), Last(cs).k \notin {"resume", "pcall", "host"}
  PROVE  /\ Front(cs) \in Seq(Frames) /\ Len(Front(cs)) = Len(cs) - 1 /\ Len(cs) - 1 \in Nat \ {0}
         /\ \A i \in 1..(Len(cs) - 1) : Front(cs)[i] = cs[i]
         /\ cs[Len(cs) - 1].L = th /\ Last(Front(cs)) = cs[Len(cs) - 1] /\ cs[Len(cs) - 1] \in Frames
         /\ StandsOn(Last(cs), Last(Front(cs))) /\ Front(cs) # <<>>
<1>1. FrameAt(cs, Len(cs)) /\ cs \in Seq(Frames) /\ Len(cs) \in Nat \ {0} /\ Last(cs) = cs[Len(cs)] /\ th = cs[Len(cs)].L
  BY ReadyFacts
<1>2. Len(cs) > 1
  <2>1. ASSUME Len(cs) = 1 PROVE FALSE
    <3>1. cs[1].k = "host" BY <1>1, <2>1 DEF FrameAt
    <3> QED BY <1>1, <2>1, <3>1
  <2>2. Len(cs) \in Nat \ {0} BY <1>1
  <2> QED BY Zenon, <2>1, <2>2, AboveOne
<1>3. /\ Front(cs) \in Seq(Frames) /\ Len(Front(cs)) = Len(cs) - 1 /\ Len(cs) - 1 \in Nat \ {0}
      /\ \A i \in 1..(Len(cs) - 1) : Front(cs)[i] = cs[i]
  BY <1>1, <1>2 DEF Front
<1>4. Last(Front(cs)) = cs[Len(cs) - 1] /\ Front(cs) # <<>> BY <1>3 DEF Last
<1> QED BY <1>1, <1>2, <1>3, <1>4 DEF FrameAt

LEMMA PopFrame ==
  ASSUME NEW cs, NEW th, NEW t, Ready(cs, th, t), Last(cs).k \notin {"resume", "pcall", "host"},
         NoContinue(Last(cs), Last(Front(cs))),
         NEW t2, IsState(t2), SameFields(t, t2),
         Len(t2.ci) = Len(t.ci) - CallsIn(Last(cs)), \A j \in 1..Len(t2.ci) : Kind(t2.ci[j]) = Kind(t.ci[j]),
         t2.nCcalls = t.nCcalls - (IF Last(cs).k = "call" THEN 1 ELSE 0),
         t2.allowhook <=> t.allowhook \/ Last(cs).k = "hook"
  PROVE  Ready(Front(cs), th, t2) /\ Step(cs, Front(cs), {th})
<1> DEFINE new == Front(cs)
           m == Len(cs) - 1
<1>1. /\ cs \in Seq(Frames) /\ new \in Seq(Frames) /\ m \in Nat \ {0} /\ Len(new) = m /\ Len(cs) = m + 1 /\ Last(cs) = cs[m + 1]
      /\ (\A i \in 1..m : new[i] = cs[i]) /\ cs[m].L = th /\ cs[m + 1].L = th /\ Last(new) = cs[m]
  BY ReadyFacts, TopFrame
<1> HIDE DEF new, m
<1>2. SameUpTo(cs, new, m) BY <1>1 DEF SameUpTo, Like
<1>3. DepthAt(new, m) = DepthAt(cs, m) /\ (NoHook(new, m, th) <=> NoHook(cs, m, th))
  BY <1>1, <1>2, SameCounts, SameSearches
<1>4. DepthAt(cs, m + 1) = DepthAt(cs, m) + (IF Last(cs).k = "call" THEN 1 ELSE 0) /\ DepthAt(cs, m) \in Nat
  <2>1. m + 1 \in Nat \ {0} /\ (m + 1) - 1 = m /\ m \in Nat BY <1>1
  <2>2. DepthAt(cs, m) \in Nat BY <2>1, DepthType
  <2>3. DepthAt(cs, m + 1) = DepthAt(cs, m) + (IF cs[m + 1].k \in {"call", "resume"} THEN 1 ELSE 0)
    BY <2>1, DepthNext
  <2>4. cs[m + 1].k \in {"call", "resume"} <=> Last(cs).k = "call" BY <1>1
  <2> QED BY <2>2, <2>3, <2>4
<1>5. NoHook(new, m, th) <=> t.allowhook \/ Last(cs).k = "hook"
  <2>1. NoHook(cs, m + 1, th) <=> NoHook(cs, m, th) /\ Last(cs).k # "hook" BY <1>1 DEF NoHook
  <2>2. Last(cs).k = "hook" => NoHook(cs, m, th)
    <3>1. FrameAt(cs, m + 1) BY <1>1, ReadyFacts
    <3>2. (m + 1) - 1 = m BY <1>1
    <3> QED BY <1>1, <3>1, <3>2 DEF FrameAt
  <2>3. t.allowhook <=> NoHook(cs, m + 1, th) BY <1>1, ReadyFacts
  <2> QED BY <1>3, <2>1, <2>2, <2>3
<1>6. Plain(cs, m) /\ Plain(new, m) BY <1>1 DEF Plain, new
<1>7. OneFrame(cs, new, m, th) BY <1>1, <1>2, <1>6 DEF OneFrame, Stands
<1>8. CallsAbove(cs, m) = CallsIn(Last(cs)) /\ CallsAbove(new, m) = 0 BY <1>1 DEF CallsAbove
<1>9. Follows(cs, new, m, th, t, t2)
  <2>1. t2.status = "ok" BY ReadyFacts DEF SameFields
  <2>2. t2.nCcalls = DepthAt(new, Len(new)) BY <1>1, <1>3, <1>4, ReadyFacts
  <2>3. Len(t2.ci) = Len(t.ci) - CallsAbove(cs, m) + CallsAbove(new, m) /\ Len(t2.ci) = Len(t.ci) - CallsAbove(cs, m)
    BY <1>8, FieldTypes
  <2>4. \A j \in 1..CallsAbove(new, m) : FALSE BY <1>8
  <2>5. Steady(cs, m) /\ Steady(new, m)
    <3>1. cs[m] = Last(Front(cs)) /\ cs[m + 1] = Last(cs) /\ ~ (m < Len(new)) BY <1>1 DEF new
    <3> QED BY <3>1 DEF Steady, NoContinue
  <2> QED BY <1>1, <1>5, <1>8, <2>1, <2>2, <2>3, <2>4, <2>5 DEF Follows, SameFields
<1> QED BY <1>7, <1>9, Change DEF new

LEMMA ReplaceFrame ==
  ASSUME NEW cs, NEW th, NEW t, Ready(cs, th, t), Last(cs).k \in {"execute", "cfunc"},
         NEW f \in Frames, f.L = th, f.k \in {"execute", "poscall"}, StandsOn(f, Last(Front(cs))),
         NoContinue(f, Last(Front(cs))),
         NEW t2, IsState(t2), SameFields(t, t2), Calls(t, t2, CallsIn(Last(cs)), f),
         t2.nCcalls = t.nCcalls, t2.allowhook = t.allowhook
  PROVE  Ready(Append(Front(cs), f), th, t2) /\ Step(cs, Append(Front(cs), f), {th})
<1> DEFINE new == Append(Front(cs), f)
           m == Len(cs) - 1
<1>1. /\ cs \in Seq(Frames) /\ new \in Seq(Frames) /\ m \in Nat \ {0} /\ Len(new) = m + 1 /\ Len(cs) = m + 1
      /\ Last(cs) = cs[m + 1] /\ new[m + 1] = f
      /\ (\A i \in 1..m : new[i] = cs[i]) /\ cs[m].L = th /\ cs[m + 1].L = th /\ Last(Front(cs)) = cs[m]
  BY ReadyFacts, TopFrame
<1> HIDE DEF new, m
<1>2. SameUpTo(cs, new, m) BY <1>1 DEF SameUpTo, Like
<1>3. DepthAt(new, m) = DepthAt(cs, m) /\ (NoHook(new, m, th) <=> NoHook(cs, m, th))
  BY <1>1, <1>2, SameCounts, SameSearches
<1>4. DepthAt(cs, m + 1) = DepthAt(cs, m) /\ DepthAt(new, m + 1) = DepthAt(cs, m)
  <2>1. m + 1 \in Nat \ {0} /\ (m + 1) - 1 = m /\ m \in Nat BY <1>1
  <2>2. DepthAt(cs, m) \in Nat BY <2>1, DepthType
  <2>3. DepthAt(cs, m + 1) = DepthAt(cs, m) + 0 BY SMTT(30), <1>1, <2>1, DepthNext
  <2>4. DepthAt(new, m + 1) = DepthAt(new, m) + 0 BY SMTT(30), <1>1, <2>1, DepthNext
  <2> QED BY <1>3, <2>2, <2>3, <2>4
<1>5. NoHook(new, m + 1, th) <=> t.allowhook
  <2>1. NoHook(cs, m + 1, th) <=> NoHook(cs, m, th) BY <1>1 DEF NoHook
  <2>2. NoHook(new, m + 1, th) <=> NoHook(new, m, th) BY <1>1 DEF NoHook
  <2>3. t.allowhook <=> NoHook(cs, m + 1, th) BY <1>1, ReadyFacts
  <2> QED BY <1>3, <2>1, <2>2, <2>3
<1>6. Plain(cs, m) /\ Plain(new, m)
  <2>1. new[m] = cs[m] BY <1>1
  <2> QED BY <1>1, <2>1 DEF Plain
<1>7. Stands(new, m, th)
  <2>1. new[m] = cs[m] /\ new[m + 1] = f BY <1>1
  <2>2. DepthAt(new, m + 1) <= LUAI_MAXCCALLS + ErrorCCalls BY <1>1, <1>4, ReadyFacts
  <2> QED BY <1>1, <2>1, <2>2 DEF Stands
<1>8. OneFrame(cs, new, m, th) BY <1>1, <1>2, <1>6, <1>7 DEF OneFrame
<1>9. CallsAbove(cs, m) = CallsIn(Last(cs)) /\ CallsAbove(new, m) = CallsIn(f) BY <1>1 DEF CallsAbove
<1>10. Follows(cs, new, m, th, t, t2)
  <2>1. t2.status = "ok" BY ReadyFacts DEF SameFields
  <2>2. t2.nCcalls = DepthAt(new, Len(new)) BY <1>1, <1>4, ReadyFacts
  <2>3. Steady(cs, m) /\ Steady(new, m)
    <3>1. cs[m] = Last(Front(cs)) /\ cs[m + 1] = Last(cs) /\ new[m] = cs[m] /\ new[m + 1] = f BY <1>1
    <3> QED BY <3>1 DEF Steady, NoContinue
  <2> QED BY <1>1, <1>5, <1>9, <2>1, <2>2, <2>3 DEF Follows, Calls, SameFields
<1> QED BY <1>8, <1>10, Change DEF new

(* A change that concerns neither the functions nor the control fields, and *)
(* luaV_execute's copy of the base.                                        *)
LEMMA Quiet ==
  ASSUME NEW cs, NEW th, NEW t, Ready(cs, th, t), NEW t2, Keeps(t, t2),
         NEW new \in Seq(Frames), Len(new) = Len(cs), \A i \in 1..Len(cs) : Like(cs[i], new[i])
  PROVE  Ready(new, th, t2) /\ Step(cs, new, {th})
<1> DEFINE m == Len(cs)
<1>1. cs \in Seq(Frames) /\ m \in Nat \ {0} /\ Len(new) = m BY ReadyFacts
<1>2. SameUpTo(cs, new, m) BY <1>1 DEF SameUpTo
<1>3. DepthAt(new, m) = DepthAt(cs, m) /\ (NoHook(new, m, th) <=> NoHook(cs, m, th))
  BY <1>1, <1>2, SameCounts, SameSearches
<1>4. OneFrame(cs, new, m, th)
  <2>1. ~ (m < Len(cs)) /\ ~ (m < Len(new)) BY <1>1
  <2> QED BY <1>1, <1>2, <2>1 DEF OneFrame, Plain, Stands
<1>5. CallsAbove(cs, m) = 0 /\ CallsAbove(new, m) = 0 BY <1>1 DEF CallsAbove
<1>6. IsState(t2) /\ SameControl(t, t2) BY DEF Keeps
<1>7. Follows(cs, new, m, th, t, t2)
  <2>1. Len(t2.ci) = Len(t.ci) - CallsAbove(cs, m) + CallsAbove(new, m)
    BY <1>5, <1>6, FieldTypes, ReadyFacts DEF SameControl, SameCalls
  <2>2. \A j \in 1..(Len(t.ci) - CallsAbove(cs, m)) : Kind(t2.ci[j]) = Kind(t.ci[j])
    BY <1>5, <1>6, FieldTypes, ReadyFacts DEF SameControl, SameCalls
  <2>3. \A j \in 1..CallsAbove(new, m) : FALSE BY <1>5
  <2>4. Steady(cs, m) /\ Steady(new, m) BY <1>1 DEF Steady
  <2> QED BY <1>1, <1>3, <1>6, <2>1, <2>2, <2>3, <2>4, ReadyFacts DEF Follows, SameControl
<1> HIDE DEF m
<1> QED BY <1>4, <1>6, <1>7, Change
LEMMA ReadyKeeps ==
  ASSUME NEW cs, NEW th, NEW t, Ready(cs, th, t), NEW t2, Keeps(t, t2)
  PROVE  Ready(cs, th, t2)
BY Zenon, Quiet, ReadyFacts DEF Like
LEMMA ReadyReload ==
  ASSUME NEW cs, NEW th, NEW t, Ready(cs, th, t)
  PROVE  Ready(Reloaded(cs, t), th, t) /\ Step(cs, Reloaded(cs, t), {th})
<1> DEFINE f == Reload(Last(cs), t)
<1>1. /\ cs \in Seq(Frames) /\ Len(cs) \in Nat \ {0} /\ cs[Len(cs)] \in Frames /\ Last(cs) = cs[Len(cs)] /\ IsState(t)
      /\ th \in Threads
  BY ReadyFacts
<1>2. f \in Frames /\ Like(Last(cs), f)
  <2>1. CASE Last(cs).k = "execute"
    <3>1. t.base \in Int BY <1>1, FieldTypes
    <3>2. Last(cs) \in ExecuteFrame
      BY <1>1, <2>1 DEF Frames, Simple, ExecuteFrame, CallFrame, PcallFrames, ResumeFrame, ErrormsgFrame, HookFrames, PoscallFrame
    <3>3. f = [Last(cs) EXCEPT !.base = t.base] BY <2>1 DEF Reload
    <3>4. f \in ExecuteFrame /\ f.k = "execute" /\ f.L = Last(cs).L /\ f.nexeccalls = Last(cs).nexeccalls
      BY <3>1, <3>2, <3>3 DEF ExecuteFrame
    <3> QED BY <2>1, <3>4 DEF Frames, Like
  <2>2. CASE Last(cs).k # "execute" BY <1>1, <2>2 DEF Reload, Like
  <2> QED BY <2>1, <2>2
<1> HIDE DEF f
<1>3. Reloaded(cs, t) = Append(Front(cs), f) BY DEF Reloaded, f
<1>4. /\ Reloaded(cs, t) \in Seq(Frames) /\ Len(Reloaded(cs, t)) = Len(cs) /\ Reloaded(cs, t)[Len(cs)] = f
      /\ \A i \in 1..(Len(cs) - 1) : Reloaded(cs, t)[i] = cs[i]
  <2>1. /\ Front(cs) \in Seq(Frames) /\ Len(Front(cs)) = Len(cs) - 1
        /\ \A i \in 1..(Len(cs) - 1) : Front(cs)[i] = cs[i]
    <3>1. cs \in Seq(Frames) /\ Len(cs) \in Nat \ {0} BY <1>1
    <3> QED BY <3>1, FrontFacts
  <2> QED BY <1>1, <1>2, <1>3, <2>1
<1>5. \A i \in 1..Len(cs) : Like(cs[i], Reloaded(cs, t)[i]) BY <1>1, <1>2, <1>4 DEF Like
<1> QED BY Zenon, <1>1, <1>4, <1>5, Quiet, KeepsSelf

(***************************************************************************)
(* From the invariant to the thread that runs, and back.                   *)
(***************************************************************************)
LEMMA SmallestMember ==
  ASSUME NEW S \in SUBSET Nat, S # {}
  PROVE  \E n \in S : \A m \in S : n <= m
<1>1. PICK n \in S : \A m \in S : ~ (<<m, n>> \in OpToRel(<, Nat))
  BY Zenon, NatLessThanWellFounded, WFMin
<1>2. \A m \in S : ~ (m < n)
  BY Zenon, <1>1 DEF OpToRel
<1> QED BY <1>2
LEMMA ExistsTop ==
  ASSUME NEW cs, Len(cs) \in Nat, NEW th, NEW i \in 1..Len(cs), cs[i].L = th
  PROVE  \E n \in 1..Len(cs) : IsTop(cs, n, th)
<1> DEFINE S == {Len(cs) - j : j \in {j \in 1..Len(cs) : cs[j].L = th}}
<1>1. S \in SUBSET Nat /\ S # {} OBVIOUS
<1>2. PICK s \in S : \A x \in S : s <= x BY Zenon, <1>1, SmallestMember
<1>3. PICK n \in 1..Len(cs) : cs[n].L = th /\ s = Len(cs) - n BY <1>2
<1>4. ASSUME NEW j \in (n + 1)..Len(cs), cs[j].L = th PROVE FALSE
  <2>1. Len(cs) - j \in S BY <1>3, <1>4
  <2>2. s <= Len(cs) - j BY Zenon, <1>2, <2>1
  <2> QED BY <1>3, <2>2
<1> QED BY <1>3, <1>4 DEF IsTop

(* The frames of a coroutine are those from its lua_resume on.              *)
LEMMA AtFirst ==
  ASSUME NEW cs, NEW th, NEW t, Ready(cs, th, t), Last(cs).k = "resume"
  PROVE  /\ CallsBelow(cs, th, Len(cs)) = 0 /\ Len(t.ci) = 1 /\ t.allowhook /\ t.errfunc.at = 0
         /\ Suspended(t) /\ DepthAt(cs, Len(cs)) >= 1 /\ AtResume(cs, Len(cs), t)
<1> DEFINE n == Len(cs)
<1>1. /\ cs \in Seq(Frames) /\ n \in Nat \ {0} /\ th = cs[n].L /\ FrameAt(cs, n) /\ Last(cs) = cs[n] /\ IsState(t)
      /\ t.status = "ok" /\ t.nCcalls = DepthAt(cs, n) /\ (t.allowhook <=> NoHook(cs, n, th))
  BY ReadyFacts
<1>2. ResumeAt(cs, n) /\ \A j \in 1..(n - 1) : cs[j].L # th BY <1>1 DEF FrameAt, ResumeAt
<1>3. CallsBelow(cs, th, n) = 0
  <2>1. CallsIn(cs[n]) = 0 BY <1>1 DEF CallsIn
  <2>2. \A j \in 1..n : cs[j].L = th => j = n BY <1>1, <1>2
  <2>3. CallSet(cs, th, n) = {} BY <1>1, <2>1, <2>2 DEF CallSet
  <2> QED BY Zenon, <2>3, FS_EmptySet DEF CallsBelow, CallSet
<1> PICK b \in 1..Len(t.ci) : AgreesFrom(cs, n, t.ci, th, b) /\ Len(t.ci) = b + CallsBelow(cs, th, n)
  BY DEF Ready, Placed, Runs
<1>4. ~ Continuing(cs, n, th) BY <1>1, <1>2 DEF Continuing, Resumes
<1>5. b = 1 BY <1>1, <1>4, FieldTypes DEF AgreesFrom
<1>6. Len(t.ci) = 1 BY <1>3, <1>5
<1>7. t.allowhook
  <2>1. cs[n].k # "hook" BY <1>1
  <2>2. NoHook(cs, n, th) BY <1>1, <1>2, <2>1 DEF NoHook
  <2> QED BY <1>1, <2>2
<1>8. t.errfunc.at = 0
  <2>1. HandlerIn(cs, n, th, t.errfunc) BY DEF Ready, Placed, Protection
  <2>2. \A p \in 1..n : ~ IsPcall(cs[p], th) BY <1>1, <1>2 DEF IsPcall
  <2> QED BY <2>1, <2>2 DEF HandlerIn
<1>9. Suspended(t) BY Zenon, <1>1, <1>6, <1>7, <1>8 DEF Suspended
<1>10. DepthAt(cs, n) >= 1
  <2>1. DepthAt(cs, n) = DepthAt(cs, n - 1) + 1 BY <1>1, DepthNext
  <2>2. DepthAt(cs, n - 1) \in Nat BY <1>1, DepthType
  <2> QED BY <2>1, <2>2
<1>11. cs[n].status = "ok" BY <1>1 DEF Ready, Placed, WaitAt
<1> QED BY Zenon, <1>1, <1>3, <1>6, <1>7, <1>8, <1>9, <1>10, <1>11 DEF AtResume

LEMMA ReadyThread ==
  ASSUME NEW cs, NEW th, NEW t, Ready(cs, th, t)
  PROVE  ThreadAt(cs, Len(cs), t, th) /\ ThreadOK(cs, t, th)
<1>1. /\ cs \in Seq(Frames) /\ Len(cs) \in Nat \ {0} /\ th = cs[Len(cs)].L /\ Last(cs) = cs[Len(cs)]
      /\ Protection(cs, Len(cs), t, th) /\ Runs(cs, Len(cs), t, th) /\ WaitAt(cs, Len(cs))
      /\ (th = MainThread => t.baseCcalls = 0)
  BY ReadyFacts DEF Ready, Placed
<1>2. cs[Len(cs)].k = "pcall" => cs[Len(cs)].status = "ok" BY <1>1 DEF WaitAt
<1>3. cs[Len(cs)].k = "resume" => AtResume(cs, Len(cs), t) BY <1>1, AtFirst
<1>4. ThreadAt(cs, Len(cs), t, th) BY <1>1, <1>2, <1>3 DEF ThreadAt
<1>5. \A n \in 1..Len(cs) : IsTop(cs, n, th) => n = Len(cs) BY <1>1 DEF IsTop
<1>6. \E i \in 1..Len(cs) : cs[i].L = th BY <1>1
<1> QED BY <1>1, <1>4, <1>5, <1>6 DEF ThreadOK

LEMMA RunningReady ==
  ASSUME IInv, cstack # <<>>, F.k # "resume", F.k = "pcall" => F.status = "ok"
  PROVE  Ready(cstack, L, l) /\ cstack \in Seq(Frames) /\ Step(cstack, cstack, {L}) /\ L \in Threads /\ DOMAIN lstate = Threads
<1>1. StackOK(cstack) /\ \A th \in Threads : IsState(lstate[th]) /\ ThreadOK(cstack, lstate[th], th)
  BY DEF IInv, Good
<1>2. cstack \in Seq(Frames) /\ Len(cstack) \in Nat \ {0} BY <1>1 DEF StackOK
<1>3. F = cstack[Len(cstack)] /\ F \in Frames BY <1>2 DEF F, Last
<1>4. L \in Threads /\ L = cstack[Len(cstack)].L BY <1>3, FrameTypes DEF L
<1>5. IsTop(cstack, Len(cstack), L) BY <1>2, <1>4 DEF IsTop
<1>6. ThreadAt(cstack, Len(cstack), l, L) /\ (L = MainThread => l.baseCcalls = 0) BY <1>1, <1>2, <1>4, <1>5 DEF ThreadOK, l
<1>7. Protection(cstack, Len(cstack), l, L) /\ Runs(cstack, Len(cstack), l, L) BY <1>3, <1>6 DEF ThreadAt
<1>8. WaitAt(cstack, Len(cstack)) BY <1>3 DEF WaitAt
<1>9. IsState(l) BY <1>1, <1>4 DEF l
<1>10. Step(cstack, cstack, {L}) BY <1>2, StepSelf
<1> QED BY <1>1, <1>2, <1>4, <1>6, <1>7, <1>8, <1>9, <1>10 DEF Ready, Placed, IInv

LEMMA FinishStep ==
  ASSUME IInv, cstack # <<>>, UNCHANGED uses, DOMAIN lstate' = Threads, StackOK(cstack'), cstack' # <<>>, NEW X, Step(cstack, cstack', X),
         \A th \in Threads : th \notin X => lstate'[th] = lstate[th],
         \A th \in Threads : th \in X => IsState(lstate'[th]) /\ ThreadOK(cstack', lstate'[th], th)
  PROVE  IInv'
<1>1. uses \in Programs /\ \A th \in Threads : IsState(lstate[th]) /\ ThreadOK(cstack, lstate[th], th)
  BY DEF IInv, Good
<1>2. ASSUME NEW th \in Threads PROVE IsState(lstate'[th]) /\ ThreadOK(cstack', lstate'[th], th)
  <2>1. CASE th \in X BY <2>1
  <2>2. CASE th \notin X BY <1>1, <2>2, OtherThread
  <2> QED BY <2>1, <2>2
<1> QED BY <1>1, <1>2 DEF IInv, Good
(* A step of the thread th that runs: it goes on, or ends the program.  A   *)
(* coroutine that comes back to its lua_resume has its base in place.      *)
AtBase(cs, t) == Last(cs).k = "resume" /\ Last(cs).status = "ok" /\ t.status = "ok" => t.base = Ci(t).base
Advance(th) ==
  /\ \A u \in Threads : u # th => lstate'[u] = lstate[u]
  /\ IF cstack' = <<>> THEN th = MainThread
     ELSE /\ Last(cstack').L = th /\ Step(cstack, cstack', {th}) /\ AtBase(cstack', lstate'[th])
          /\ lstate'[th].body \in {lstate[th].body, NoBody}
Goes == IInv' /\ Advance(L)
(* Its body, if it has one left, has been taken from it or not.             *)
Runner(th, t) == th = L /\ t.body \in {l.body, NoBody}
LEMMA Finish ==
  ASSUME IInv, cstack # <<>>, NEW th \in Threads, NEW t, Runner(th, t), NEW new, Become(th, t, new), Ready(new, th, t),
         Step(cstack, new, {th}), AtBase(new, t)
  PROVE  Goes
<1>1. DOMAIN lstate = Threads BY DEF IInv
<1>2. lstate' = [lstate EXCEPT ![th] = t] /\ cstack' = new /\ UNCHANGED uses BY DEF Become
<1>3. DOMAIN lstate' = Threads /\ lstate'[th] = t /\ \A u \in Threads : u # th => lstate'[u] = lstate[u] BY <1>1, <1>2
<1>4. IsState(t) /\ ThreadOK(new, t, th) /\ StackOK(new) /\ new # <<>> /\ Last(new).L = th BY ReadyThread, ReadyFacts
<1> HIDE DEF Ready, Placed
<1>5. IInv' BY <1>2, <1>3, <1>4, FinishStep
<1>6. Advance(th) BY <1>2, <1>3, <1>4 DEF Advance, Runner, l
<1> QED BY <1>5, <1>6 DEF Goes, Runner

LEMMA SuspendedKeeps ==
  ASSUME NEW t, IsState(t), NEW t2, IsState(t2), SameCalls(t, t2), t2.status = t.status, t2.allowhook = t.allowhook, t2.errfunc = t.errfunc,
         Suspended(t)
  PROVE  Suspended(t2)
<1>1. t.status = "yield" => (Yielded(t2.ci) <=> Yielded(t.ci))
  <2>1. Len(t.ci) \in Nat \ {0} BY FieldTypes
  <2> QED BY <2>1 DEF Yielded, SameCalls
<1> QED BY <1>1 DEF Suspended, SameCalls
LEMMA AgreesKeeps ==
  ASSUME NEW cs \in Seq(Frames), NEW n \in 0..Len(cs), NEW th, NEW b \in Nat \ {0}, NEW ci, NEW ci2, Len(ci) \in Nat,
         AgreesFrom(cs, n, ci, th, b), Len(ci) >= b + CallsBelow(cs, th, n),
         \A j \in 1..(b + CallsBelow(cs, th, n)) : Kind(ci2[j]) = Kind(ci[j])
  PROVE  AgreesFrom(cs, n, ci2, th, b)
<1>1. ASSUME NEW i \in 1..n, cs[i].L = th PROVE FunctionsAt(cs, i, ci2, th, b)
  <2>1. FunctionsAt(cs, i, ci, th, b) BY <1>1 DEF AgreesFrom
  <2> DEFINE p == CallsBelow(cs, th, i - 1)
             c == CallsIn(cs[i])
             N == CallsBelow(cs, th, n)
  <2>2. p \in Nat /\ c \in Nat /\ N \in Nat /\ CallsBelow(cs, th, i) = p + c
    <3>1. i - 1 \in 0..Len(cs) /\ i \in 1..Len(cs) OBVIOUS
    <3> QED BY Zenon, <1>1, <3>1, CallsBelowType, CallsInType, FrameOf, CallsBelowNext
  <2>3. p + c <= N
    <3>1. i \in 0..n OBVIOUS
    <3> QED BY <2>2, <3>1, CallsBelowGrows
  <2>4. ASSUME NEW m \in 1..c PROVE b + p + m \in 1..(b + N)
    <3> HIDE DEF p, c, N
    <3> QED BY <2>2, <2>3
  <2>5. ASSUME NEW m \in 1..c PROVE Kind(ci2[b + p + m]) = KindIn(cs[i])
    <3>1. Kind(ci[b + p + m]) = KindIn(cs[i]) BY <2>1 DEF FunctionsAt
    <3> QED BY <2>4, <3>1
  <2> QED BY <2>1, <2>5 DEF FunctionsAt
<1>2. \A j \in 2..b : Kind(ci2[j]) = Kind(ci[j])
  <2>1. n \in 0..Len(cs) /\ CallsBelow(cs, th, n) \in Nat BY CallsBelowType
  <2>2. \A j \in 2..b : j \in 1..(b + CallsBelow(cs, th, n)) BY <2>1
  <2> QED BY <2>2
<1> QED BY <1>1, <1>2 DEF AgreesFrom
LEMMA ThreadKeeps ==
  ASSUME NEW cs, StackOK(cs), NEW t, IsState(t), NEW t2, Keeps(t, t2), NEW th, ThreadOK(cs, t, th)
  PROVE  ThreadOK(cs, t2, th)
<1>1. cs \in Seq(Frames) BY DEF StackOK
<1>2. IsState(t2) /\ SameControl(t, t2) /\ SameCalls(t, t2) BY DEF Keeps, SameControl
<1>3. Suspended(t) => Suspended(t2) BY <1>2, SuspendedKeeps DEF SameControl
<1>4. ASSUME NEW n \in 1..Len(cs), ThreadAt(cs, n, t, th) PROVE ThreadAt(cs, n, t2, th)
  <2>1. Protection(cs, n, t2, th) BY <1>2, <1>4 DEF ThreadAt, Protection, SameControl
  <2>2. AtResume(cs, n, t) => AtResume(cs, n, t2) BY <1>2, <1>3 DEF AtResume, SameControl
  <2>3. ASSUME NEW b \in 1..Len(t.ci), AgreesFrom(cs, n, t.ci, th, b), Len(t.ci) >= b + CallsBelow(cs, th, n)
        PROVE  b \in 1..Len(t2.ci) /\ AgreesFrom(cs, n, t2.ci, th, b)
    <3>1. b \in Nat \ {0} /\ Len(t.ci) \in Nat /\ n \in 0..Len(cs) BY FieldTypes
    <3>2. CallsBelow(cs, th, n) \in Nat BY <1>1, <3>1, CallsBelowType
    <3>3. \A j \in 1..(b + CallsBelow(cs, th, n)) : Kind(t2.ci[j]) = Kind(t.ci[j]) BY <1>2, <2>3, <3>1, <3>2 DEF SameCalls
    <3>4. AgreesFrom(cs, n, t2.ci, th, b) BY Zenon, <1>1, <2>3, <3>1, <3>3, AgreesKeeps
    <3> QED BY <1>2, <3>4 DEF SameCalls
  <2>4. Runs(cs, n, t, th) => Runs(cs, n, t2, th)
    <3> SUFFICES ASSUME Runs(cs, n, t, th) PROVE Runs(cs, n, t2, th) OBVIOUS
    <3> PICK b \in 1..Len(t.ci) : AgreesFrom(cs, n, t.ci, th, b) /\ Len(t.ci) = b + CallsBelow(cs, th, n) BY DEF Runs
    <3>1. Len(t.ci) >= b + CallsBelow(cs, th, n) BY FieldTypes
    <3>2. b \in 1..Len(t2.ci) /\ AgreesFrom(cs, n, t2.ci, th, b) BY <2>3, <3>1
    <3>3. Len(t2.ci) = b + CallsBelow(cs, th, n) BY <1>2 DEF SameCalls
    <3> QED BY <1>2, <3>2, <3>3 DEF Runs, SameControl
  <2>5. Lands(cs, n, t, th) => Lands(cs, n, t2, th)
    <3> SUFFICES ASSUME Lands(cs, n, t, th) PROVE Lands(cs, n, t2, th) OBVIOUS
    <3> PICK b \in 1..Len(t.ci) : AgreesFrom(cs, n, t.ci, th, b) /\ Len(t.ci) >= b + CallsBelow(cs, th, n) BY DEF Lands
    <3>2. b \in 1..Len(t2.ci) /\ AgreesFrom(cs, n, t2.ci, th, b) BY <2>3
    <3>3. Len(t2.ci) >= b + CallsBelow(cs, th, n) BY <1>2 DEF SameCalls
    <3> QED BY <1>2, <3>2, <3>3 DEF Lands, SameControl
  <2> QED BY <1>4, <2>1, <2>2, <2>4, <2>5 DEF ThreadAt
<1>5. t2.baseCcalls = t.baseCcalls /\ t2.errorJmp = t.errorJmp BY <1>2 DEF SameControl
<1> QED BY <1>3, <1>4, <1>5 DEF ThreadOK

(* The functions of the top frame are the last of the list.                 *)
LEMMA TopKinds ==
  ASSUME NEW cs, NEW th, NEW t, Ready(cs, th, t)
  PROVE  /\ CallsIn(Last(cs)) \in Nat /\ Len(t.ci) - CallsIn(Last(cs)) >= 1 /\ Len(t.ci) \in Nat
         /\ \A m \in 1..CallsIn(Last(cs)) : Kind(t.ci[Len(t.ci) - CallsIn(Last(cs)) + m]) = KindIn(Last(cs))
<1> DEFINE n == Len(cs)
           c == CallsIn(cs[n])
           p == CallsBelow(cs, th, n - 1)
<1>1. /\ cs \in Seq(Frames) /\ n \in Nat \ {0} /\ th = cs[n].L /\ Last(cs) = cs[n] /\ cs[n] \in Frames /\ IsState(t)
  BY ReadyFacts
<1> PICK b \in 1..Len(t.ci) : AgreesFrom(cs, n, t.ci, th, b) /\ Len(t.ci) = b + CallsBelow(cs, th, n)
  BY DEF Ready, Placed, Runs
<1>2. n \in 1..Len(cs) /\ n - 1 \in 0..Len(cs) BY <1>1
<1>3. c \in Nat /\ p \in Nat /\ CallsBelow(cs, th, n) = p + c
  BY Zenon, <1>1, <1>2, CallsBelowNext, CallsInType, CallsBelowType
<1>4. \A m \in 1..c : Kind(t.ci[b + p + m]) = KindIn(cs[n]) BY <1>1, <1>2 DEF AgreesFrom, FunctionsAt
<1>5. Len(t.ci) \in Nat /\ b \in Nat \ {0} BY <1>1, FieldTypes
<1> HIDE DEF n, c, p
<1>6. Len(t.ci) = b + CallsBelow(cs, th, n) BY DEF n
<1>7. Len(t.ci) - c = b + p /\ Len(t.ci) - c >= 1 BY <1>3, <1>5, <1>6
<1>8. CallsIn(Last(cs)) = c /\ KindIn(Last(cs)) = KindIn(cs[n]) BY <1>1 DEF c, n
<1> QED BY <1>3, <1>4, <1>5, <1>7, <1>8

(***************************************************************************)
(* luaD_throw.                                                             *)
(***************************************************************************)
(* What may be changed of a thread before it throws.                        *)
Throws(t, t2) ==
  /\ IsState(t2) /\ SameFields(t, t2) /\ t2.ci = t.ci /\ t2.nCcalls >= t.nCcalls
Starts(cs, cs2) == cs2 \in Seq(Frames) /\ Len(cs2) >= Len(cs) /\ \A i \in 1..Len(cs) : cs2[i] = cs[i]

(* Above the last protected call of a thread there are only its frames.     *)
LEMMA ThrowsOwn ==
  ASSUME NEW cs, StackOK(cs), cs # <<>>, NEW th, th = cs[Len(cs)].L, NEW e, LastProtected(cs, Len(cs), th, e)
  PROVE  Above(cs, e, {th})
<1>1. Len(cs) \in Nat \ {0} /\ e \in 0..Len(cs) BY DEF StackOK, LastProtected
<1>2. Segment(cs, Len(cs)) BY <1>1 DEF StackOK, FrameAt
<1>3. ASSUME NEW j \in (e + 1)..Len(cs), cs[j].L # th PROVE FALSE
  <2>1. j \in 1..(Len(cs) - 1) BY <1>1, <1>3
  <2>2. PICK r \in (j + 1)..Len(cs) : Resumes(cs[r], th) BY <1>2, <1>3, <2>1 DEF Segment
  <2>3. Protects(cs[r], th) BY <2>2 DEF Resumes, Protects
  <2>4. r \in (e + 1)..Len(cs) BY <1>1, <2>1
  <2> QED BY <2>3, <2>4 DEF LastProtected
<1> QED BY <1>3 DEF Above
(* A thread without protected calls is the main thread, alone.              *)
LEMMA Unprotected ==
  ASSUME NEW cs, NEW th, NEW t, Ready(cs, th, t), t.errorJmp = 0
  PROVE  \A j \in 1..Len(cs) : cs[j].L = th
<1>1. LastProtected(cs, Len(cs), th, 0) BY DEF Ready, Placed, Protection
<1>2. Above(cs, 0, {th}) BY <1>1, ThrowsOwn, ReadyFacts
<1> QED BY <1>2 DEF Above

WithStatus(f, s) == [f EXCEPT !.status = s]
LEMMA StatusFrame ==
  ASSUME NEW f \in Frames, f.k \in {"pcall", "resume"}, NEW s \in Errors
  PROVE  /\ WithStatus(f, s) \in Frames
         /\ WithStatus(f, s).status = s /\ WithStatus(f, s).k = f.k /\ WithStatus(f, s).L = f.L
         /\ f.k = "pcall" => /\ WithStatus(f, s).old_top = f.old_top /\ WithStatus(f, s).ci = f.ci
                             /\ WithStatus(f, s).nCcalls = f.nCcalls /\ WithStatus(f, s).allowhook = f.allowhook
                             /\ WithStatus(f, s).errfunc = f.errfunc
                             /\ WithStatus(f, s).previous = f.previous
         /\ f.k = "resume" => /\ WithStatus(f, s).from = f.from /\ WithStatus(f, s).previous = f.previous
                              /\ WithStatus(f, s).n = f.n
<1>1. CASE f.k = "pcall"
  <2>1. f \in PcallFrames
    BY <1>1 DEF Frames, Simple, ExecuteFrame, CallFrame, PcallFrames, ResumeFrame, ErrormsgFrame, HookFrames, PoscallFrame
  <2>2. WithStatus(f, s) \in PcallFrames BY <2>1 DEF PcallFrames, WithStatus
  <2> QED BY <1>1, <2>1, <2>2 DEF Frames, PcallFrames, WithStatus
<1>2. CASE f.k = "resume"
  <2>1. f \in ResumeFrame
    BY <1>2 DEF Frames, Simple, ExecuteFrame, CallFrame, PcallFrames, ResumeFrame, ErrormsgFrame, HookFrames, PoscallFrame
  <2>2. WithStatus(f, s) \in ResumeFrame BY <2>1 DEF ResumeFrame, WithStatus
  <2> QED BY <1>2, <2>1, <2>2 DEF Frames, ResumeFrame, WithStatus
<1> QED BY <1>1, <1>2

(* The longjmp: cs is cut at its protected frame e, which gets a status.    *)
LEMMA Landed ==
  ASSUME NEW cs, NEW th, NEW t, Ready(cs, th, t), NEW t2, Throws(t, t2), NEW e, e = t.errorJmp, e # 0,
         NEW errcode \in Errors, NEW new \in Seq(Frames), Len(new) = e, \A i \in 1..(e - 1) : new[i] = cs[i],
         new[e] = WithStatus(cs[e], errcode)
  PROVE  StackOK(new) /\ new # <<>> /\ Step(cs, new, {th}) /\ ThreadOK(new, t2, th)
<1> DEFINE n == Len(cs)
           f == cs[e]
<1>1. /\ cs \in Seq(Frames) /\ n \in Nat \ {0} /\ th = cs[n].L /\ IsState(t) /\ t.status = "ok" /\ t.nCcalls = DepthAt(cs, n)
      /\ LastProtected(cs, n, th, e) /\ HandlerIn(cs, n, th, t.errfunc) /\ StackOK(cs) /\ cs # <<>>
      /\ (th = MainThread => t.baseCcalls = 0)
      /\ \A r \in 1..n : Resumes(cs[r], th) => t.baseCcalls = DepthAt(cs, r)
  BY ReadyFacts DEF Ready, Placed, Protection
<1>2. e \in 1..n /\ Protects(f, th) /\ f \in Frames /\ e \in Nat \ {0} /\ \A j \in (e + 1)..n : ~ Protects(cs[j], th)
  BY <1>1 DEF LastProtected
<1>3. /\ new[e] \in Frames /\ new[e].status = errcode /\ new[e].k = f.k /\ new[e].L = f.L /\ f.k \in {"pcall", "resume"}
      /\ f.L = th
      /\ f.k = "pcall" => /\ new[e].old_top = f.old_top /\ new[e].ci = f.ci /\ new[e].nCcalls = f.nCcalls
                          /\ new[e].allowhook = f.allowhook /\ new[e].errfunc = f.errfunc /\ new[e].previous = f.previous
      /\ f.k = "resume" => new[e].from = f.from /\ new[e].previous = f.previous /\ new[e].n = f.n
  BY <1>2, StatusFrame DEF Protects
<1>4. FrameAt(cs, e) BY <1>1, <1>2 DEF StackOK
<1>5. SameUpTo(cs, new, e - 1) BY <1>1, <1>2 DEF SameUpTo, Like
<1> HIDE DEF n, f
<1>6. \A j \in 1..e : new[j].k = cs[j].k /\ new[j].L = cs[j].L /\ (j < e => new[j] = cs[j])
  <2> SUFFICES ASSUME NEW j \in 1..e PROVE new[j].k = cs[j].k /\ new[j].L = cs[j].L /\ (j < e => new[j] = cs[j])
    OBVIOUS
  <2>1. CASE j = e
    <3>1. ~ (j < e) BY <1>2, <2>1
    <3>2. new[e].k = cs[e].k /\ new[e].L = cs[e].L BY <1>3 DEF f
    <3> QED BY <2>1, <3>1, <3>2
  <2>2. CASE j # e
    <3>1. j \in 1..(e - 1) BY <1>2, <2>2
    <3> QED BY <3>1
  <2> QED BY <2>1, <2>2
<1>7. DepthAt(new, e) = DepthAt(cs, e) /\ DepthAt(new, e - 1) = DepthAt(cs, e - 1)
  <2>1. DepthSet(new, e) = DepthSet(cs, e) BY <1>6 DEF DepthSet
  <2>2. DepthSet(new, e - 1) = DepthSet(cs, e - 1) BY <1>2, <1>6 DEF DepthSet
  <2> QED BY Zenon, <2>1, <2>2 DEF DepthAt, DepthSet
<1>8. \A th2 : CallsBelow(new, th2, e - 1) = CallsBelow(cs, th2, e - 1)
  <2>1. e - 1 \in 0..(e - 1) BY <1>2
  <2> QED BY <1>5, <2>1, SameCounts
<1>9. \A th2 : CallsBelow(new, th2, e) = CallsBelow(cs, th2, e) /\ CallsBelow(cs, th2, e) = CallsBelow(cs, th2, e - 1)
  <2> SUFFICES ASSUME NEW th2 PROVE CallsBelow(new, th2, e) = CallsBelow(cs, th2, e) /\ CallsBelow(cs, th2, e) = CallsBelow(cs, th2, e - 1)
    OBVIOUS
  <2>1. CallsIn(new[e]) = 0 /\ CallsIn(cs[e]) = 0 BY <1>3 DEF CallsIn, f
  <2>2. e \in 1..Len(new) /\ e \in 1..Len(cs) /\ e - 1 \in 0..Len(cs) BY <1>1, <1>2 DEF n
  <2>3. CallsBelow(cs, th2, e - 1) \in Nat BY <1>1, <2>2, CallsBelowType
  <2>4. CallsBelow(new, th2, e) = CallsBelow(new, th2, e - 1) + 0 BY <2>1, <2>2, CallsBelowNext
  <2>5. CallsBelow(cs, th2, e) = CallsBelow(cs, th2, e - 1) + 0 
    <3>1. CallsBelow(cs, th2, e) = CallsBelow(cs, th2, e - 1) + (IF cs[e].L = th2 THEN CallsIn(cs[e]) ELSE 0)
      BY <1>1, <2>2, CallsBelowNext
    <3> QED BY <2>1, <3>1
  <2> QED BY <1>8, <2>3, <2>4, <2>5
<1>10. FrameAt(new, e)
  <2>1. e > 1
    <3>1. e = 1 => cs[e].k = "host" BY <1>4 DEF FrameAt
    <3>2. e # 1 BY <1>3, <3>1 DEF f
    <3> QED BY <1>2, <3>2, AboveOne
  <2>2. StandsOn(cs[e], cs[e - 1]) /\ (cs[e].k = "resume" \/ cs[e].L = cs[e - 1].L) BY <1>4, <2>1 DEF FrameAt
  <2>3. StandsOn(new[e], new[e - 1])
    <3>1. new[e - 1] = cs[e - 1] BY <1>2, <2>1
    <3> QED BY <1>3, <2>2, <3>1 DEF StandsOn, f
  <2>4. new[e].k = "resume" => ResumeAt(new, e)
    <3> SUFFICES ASSUME new[e].k = "resume" PROVE ResumeAt(new, e) OBVIOUS
    <3>1. ResumeAt(cs, e) BY <1>3, <1>4 DEF FrameAt, f
    <3>2. new[e - 1] = cs[e - 1] BY <1>2, <2>1
    <3>3. WaitAt(cs, e) BY <1>1, <1>2 DEF Ready, Placed, StackOK, n
    <3>4. new[e].n = Done BY <1>3, <3>3 DEF WaitAt, f
    <3> QED BY <1>3, <1>6, <3>1, <3>2, <3>4 DEF ResumeAt, f
  <2>5. new[e].k = "pcall" => PcallAt(new, e)
    <3> SUFFICES ASSUME new[e].k = "pcall" PROVE PcallAt(new, e) OBVIOUS
    <3>1. PcallAt(cs, e) BY <1>3, <1>4 DEF FrameAt, f
    <3>2. e - 1 \in 0..(e - 1) BY <1>2
    <3> QED BY <1>3, <1>5, <1>7, <3>1, <3>2, SameSearches DEF PcallAt, f
  <2>6. Segment(new, e)
    <3>1. Segment(cs, e) BY <1>4 DEF FrameAt
    <3> QED BY SMTT(30), <1>6, <3>1 DEF Segment, Resumes
  <2>7. DepthAt(new, e) <= LUAI_MAXCCALLS + ErrorCCalls BY <1>4, <1>7 DEF FrameAt
  <2>8. new[e].k = "resume" \/ new[e].L = new[e - 1].L BY <1>2, <1>3, <1>6, <2>1, <2>2 DEF f
  <2> QED BY <1>3, <2>1, <2>3, <2>4, <2>5, <2>6, <2>7, <2>8 DEF FrameAt
<1>11. StackOK(new)
  <2>1. ASSUME NEW i \in ((e - 1) + 1)..Len(new) PROVE FrameAt(new, i)
    <3>1. i = e BY <1>2, <2>1
    <3> QED BY <1>10, <3>1
  <2>2. ASSUME NEW i \in 1..(Len(new) - 1), i >= e - 1 PROVE WaitAt(new, i)
    <3>1. i = e - 1 /\ i \in 1..Len(cs) /\ i < Len(cs) BY <1>1, <1>2, <2>2 DEF n
    <3>2. WaitAt(cs, i) BY <1>1, <3>1 DEF StackOK
    <3>3. i \in 1..(e - 1) BY <1>2, <3>1
    <3> QED BY <1>5, <3>2, <3>3, SameFrame
  <2> QED BY Zenon, <1>1, <1>5, <2>1, <2>2, StackStep
<1>12. Step(cs, new, {th})
  <2>1. Above(cs, e, {th}) BY <1>1, ThrowsOwn DEF n
  <2>2. Above(cs, e - 1, {th})
    <3> SUFFICES ASSUME NEW i \in ((e - 1) + 1)..Len(cs) PROVE cs[i].L \in {th} BY DEF Above
    <3>1. CASE i = e BY <1>3, <3>1 DEF f
    <3>2. CASE i # e
      <4>1. i \in (e + 1)..Len(cs) BY <1>2, <3>2
      <4> QED BY <2>1, <4>1 DEF Above
    <3> QED BY <3>1, <3>2
  <2>3. Above(new, e - 1, {th})
    <3>1. \A i \in ((e - 1) + 1)..Len(new) : i = e BY <1>2
    <3> QED BY <1>3, <3>1 DEF Above
  <2>4. e - 1 \in Nat BY <1>2
  <2> QED BY <1>5, <2>2, <2>3, <2>4 DEF Step
<1>13. Protection(new, e, t2, th)
  <2>1. t2.errorJmp = e /\ t2.errfunc = t.errfunc /\ t2.baseCcalls = t.baseCcalls BY DEF Throws, SameFields
  <2>2. LastProtected(new, e, th, e) BY <1>2, <1>3 DEF LastProtected, Protects
  <2>3. HandlerIn(new, e, th, t.errfunc)
    <3> SUFFICES ASSUME t.errfunc.at # 0
                 PROVE \E p \in 1..e : /\ IsPcall(new[p], th) /\ t.errfunc.at = new[p].old_top - 1
                                       /\ \A j \in (p + 1)..e : ~ IsPcall(new[j], th)
      BY DEF HandlerIn
    <3>1. PICK p \in 1..n : /\ IsPcall(cs[p], th) /\ t.errfunc.at = cs[p].old_top - 1
                            /\ \A j \in (p + 1)..n : ~ IsPcall(cs[j], th)
      BY <1>1 DEF HandlerIn
    <3>2. p \in 1..e
      <4>1. Protects(cs[p], th) BY <3>1 DEF IsPcall, Protects
      <4>2. ~ (p \in (e + 1)..n) BY <1>2, <4>1
      <4> QED BY <1>1, <1>2, <4>2
    <3>3. new[p].old_top = cs[p].old_top /\ IsPcall(new[p], th)
      <4>1. CASE p = e BY <1>3, <3>1, <4>1 DEF IsPcall, f
      <4>2. CASE p # e BY <1>6, <3>1, <3>2, <4>2 DEF IsPcall
      <4> QED BY <4>1, <4>2
    <3>4. ASSUME NEW j \in (p + 1)..e PROVE ~ IsPcall(new[j], th)
      <4>1. j \in (p + 1)..n /\ j \in 1..e BY <1>1, <1>2, <3>2
      <4> QED BY <1>6, <3>1, <4>1 DEF IsPcall
    <3> QED BY <3>1, <3>2, <3>3, <3>4
  <2>4. ASSUME NEW r \in 1..e, Resumes(new[r], th) PROVE t.baseCcalls = DepthAt(new, r)
    <3>0. r \in 1..n BY <1>1, <1>2
    <3>1. r \in 1..n /\ Resumes(cs[r], th) BY <1>6, <2>4, <3>0 DEF Resumes
    <3>2. DepthAt(new, r) = DepthAt(cs, r)
      <4>1. CASE r = e BY <1>7, <4>1
      <4>2. CASE r # e
        <5>1. r \in 0..(e - 1) BY <1>2, <2>4, <4>2
        <5>2. CallsBelow(new, th, r) = CallsBelow(cs, th, r) /\ DepthAt(new, r) = DepthAt(cs, r)
          BY <1>5, <5>1, SameCounts
        <5> QED BY <5>2
      <4> QED BY <4>1, <4>2
    <3> QED BY <1>1, <3>1, <3>2
  <2> QED BY <2>1, <2>2, <2>3, <2>4 DEF Protection
<1>14. new[e].k = "resume" => AtResume(new, e, t2)
  <2> SUFFICES ASSUME new[e].k = "resume" PROVE AtResume(new, e, t2) OBVIOUS
  <2>1. DepthAt(cs, e) = DepthAt(cs, e - 1) + 1 BY <1>2, <1>3, DepthNext DEF f
  <2>2. DepthAt(cs, e - 1) \in Nat /\ DepthAt(cs, e) <= DepthAt(cs, n)
    <3>1. e - 1 \in Nat /\ e \in 0..n /\ n \in Nat BY <1>1, <1>2
    <3> QED BY Zenon, <3>1, DepthType, DepthGrows
  <2>3. t2.nCcalls >= DepthAt(cs, n) /\ t2.status = "ok" /\ t2.nCcalls \in Nat /\ DepthAt(cs, n) \in Nat
    BY <1>1, FieldTypes, DepthType DEF Throws, SameFields
  <2>4. t2.nCcalls >= 1 BY <2>1, <2>2, <2>3
  <2>5. errcode # "ok" OBVIOUS
  <2> QED BY <1>3, <2>3, <2>4, <2>5 DEF AtResume
<1>15. new[e].k = "pcall" => Lands(new, e, t2, th)
  <2> SUFFICES ASSUME new[e].k = "pcall" PROVE Lands(new, e, t2, th) OBVIOUS
  <2>1. PICK b \in 1..Len(t.ci) : AgreesFrom(cs, n, t.ci, th, b) /\ Len(t.ci) = b + CallsBelow(cs, th, n)
    BY DEF Ready, Placed, Runs, n
  <2>2. t2.status = "ok" /\ t2.ci = t.ci BY <1>1 DEF Throws, SameFields
  <2>3. ASSUME NEW i \in 1..e, new[i].L = th PROVE FunctionsAt(new, i, t.ci, th, b)
    <3>0. i \in 1..n BY <1>1, <1>2
    <3>1. i \in 1..n /\ cs[i].L = th BY <1>6, <2>3, <3>0
    <3>2. FunctionsAt(cs, i, t.ci, th, b) BY <2>1, <3>1 DEF AgreesFrom
    <3>3. CASE i = e
      <4>1. CallsIn(new[i]) = 0 /\ cs[i].k = "pcall" BY <1>3, <3>3 DEF CallsIn, f
      <4>2. new[i].ci = cs[i].ci BY <1>3, <3>3, <4>1 DEF f
      <4>3. new[i].ci = b + CallsBelow(new, th, i - 1) BY <1>8, <3>2, <3>3, <4>1, <4>2 DEF FunctionsAt
      <4> QED BY <4>1, <4>3 DEF FunctionsAt
    <3>4. CASE i # e
      <4>1. new[i] = cs[i] /\ i - 1 \in 0..(e - 1) BY <1>2, <1>6, <3>4
      <4>2. CallsBelow(new, th, i - 1) = CallsBelow(cs, th, i - 1) BY <1>5, <4>1, SameCounts
      <4> QED BY <3>2, <4>1, <4>2 DEF FunctionsAt
    <3> QED BY <3>3, <3>4
  <2>4. Continuing(new, e, th) <=> Continuing(cs, n, th)
    <3>1. ASSUME NEW r \in 1..(n - 1), Resumes(cs[r], th), cs[r + 1].k = "poscall" PROVE r \in 1..(e - 1) /\ r + 1 \in 1..(e - 1)
      <4>1. Protects(cs[r], th) BY <3>1 DEF Resumes, Protects
      <4>2. r \in 1..n /\ ~ (r \in (e + 1)..n) BY <1>1, <1>2, <4>1
      <4>3. r + 1 # e /\ r # e BY <1>3, <3>1 DEF f, Resumes
      <4>4. r \in Nat /\ e \in Nat /\ n \in Nat /\ e <= n BY <1>1, <1>2
      <4>5. r <= e BY <4>2, <4>4
      <4> QED BY <4>2, <4>3, <4>4, <4>5
    <3>2. ASSUME NEW r \in 1..(e - 1), Resumes(new[r], th), new[r + 1].k = "poscall" PROVE r \in 1..(n - 1) /\ r + 1 \in 1..(e - 1)
      <4>1. r + 1 # e BY <1>3, <3>2
      <4> QED BY <1>1, <1>2, <4>1
    <3>3. Continuing(cs, n, th) => Continuing(new, e, th)
      <4> SUFFICES ASSUME NEW r \in 1..(n - 1), Resumes(cs[r], th), cs[r + 1].k = "poscall", ~ cs[r + 1].lua
                   PROVE  Continuing(new, e, th)
        BY DEF Continuing
      <4>1. r \in 1..(e - 1) /\ r + 1 \in 1..(e - 1) BY <3>1
      <4>2. new[r] = cs[r] /\ new[r + 1] = cs[r + 1] BY <4>1
      <4> QED BY <4>1, <4>2 DEF Continuing
    <3>4. Continuing(new, e, th) => Continuing(cs, n, th)
      <4> SUFFICES ASSUME NEW r \in 1..(e - 1), Resumes(new[r], th), new[r + 1].k = "poscall", ~ new[r + 1].lua
                   PROVE  Continuing(cs, n, th)
        BY DEF Continuing
      <4>1. r \in 1..(n - 1) /\ r + 1 \in 1..(e - 1) BY <3>2
      <4>2. new[r] = cs[r] /\ new[r + 1] = cs[r + 1] BY <4>1
      <4> QED BY <4>1, <4>2 DEF Continuing
    <3> QED BY <3>3, <3>4
  <2>5. AgreesFrom(new, e, t2.ci, th, b) BY <2>1, <2>2, <2>3, <2>4 DEF AgreesFrom
  <2>6. Len(t2.ci) >= b + CallsBelow(new, th, e)
    <3>1. n \in 0..Len(cs) /\ e \in 0..n BY <1>1, <1>2 DEF n
    <3>2. CallsBelow(cs, th, e) <= CallsBelow(cs, th, n) BY <1>1, <3>1, CallsBelowGrows
    <3>3. CallsBelow(cs, th, e) \in Nat /\ CallsBelow(cs, th, n) \in Nat
      <4>1. e \in 0..Len(cs) BY <3>1
      <4> QED BY <1>1, <3>1, <4>1, CallsBelowType
    <3>4. Len(t.ci) \in Nat BY <1>1, FieldTypes
    <3> QED BY <1>9, <2>1, <2>2, <3>2, <3>3, <3>4
  <2> QED BY <2>2, <2>5, <2>6 DEF Lands
<1>16. ThreadAt(new, e, t2, th)
  <2>1. errcode # "ok" OBVIOUS
  <2> QED BY <1>3, <1>13, <1>14, <1>15, <2>1 DEF ThreadAt
<1>17. ThreadOK(new, t2, th)
  <2>1. ASSUME NEW k \in 1..Len(new), IsTop(new, k, th) PROVE k = e
    <3>1. k \in 1..e BY <1>2
    <3>2. k # e => e \in (k + 1)..Len(new) BY <1>2, <3>1
    <3> QED BY <1>3, <2>1, <3>2 DEF IsTop
  <2>2. e \in 1..Len(new) /\ new[e].L = th BY <1>2, <1>3
  <2>3. th = MainThread => t2.baseCcalls = 0 BY <1>1 DEF Throws, SameFields
  <2> QED BY <1>16, <2>1, <2>2, <2>3 DEF ThreadOK
<1>18. new # <<>> BY <1>2
<1> QED BY <1>11, <1>12, <1>17, <1>18

LEMMA ResetState ==
  ASSUME NEW t, IsState(t)
  PROVE  IsState(resetstack(t)) /\ resetstack(t).errorJmp = 0 /\ resetstack(t).errfunc.at = 0
         /\ resetstack(t).status = t.status
<1> DEFINE first == t.ci[1]
           t1 == luaD_seterrorobj(luaF_close(t, first.base), first.base)
           c == <<first>>
           t2 == [t1 EXCEPT !.ci = c, !.base = first.base, !.errorJmp = 0,
                            !.nCcalls = t.baseCcalls, !.allowhook = TRUE, !.errfunc = NoErrFunc]
<1>1. resetstack(t) = restore_stack_limit(t2) BY DEF resetstack
<1>2. first \in CallInfo /\ first.base \in Int /\ t.baseCcalls \in Nat
  <2>1. t.ci \in Seq(CallInfo) /\ Len(t.ci) \in Nat \ {0} /\ t.baseCcalls \in Nat BY FieldTypes
  <2> QED BY <2>1, CiTypes
<1> HIDE DEF first
<1>3. IsState(t1) /\ t1.status = t.status
  <2>1. IsState(luaF_close(t, first.base)) /\ luaF_close(t, first.base).status = t.status
    BY CloseKeeps DEF Keeps, SameControl
  <2> QED BY Zenon, <1>2, <2>1, SeterrorobjKeeps DEF Keeps, SameControl
<1> HIDE DEF t1
<1>4. c \in Seq(CallInfo) /\ c # <<>> BY <1>2
<1>5. NoErrFunc \in ErrFunc /\ NoErrFunc.at = 0 BY DEF NoErrFunc, ErrFunc
<1> HIDE DEF c
<1>6. t2 \in LuaState /\ t2.ci = c /\ t2.errorJmp = 0 /\ t2.errfunc = NoErrFunc /\ t2.status = t.status
  BY Zenon, <1>2, <1>3, <1>4, <1>5 DEF IsState, LuaState
<1>7. IsState(t2) BY <1>4, <1>6 DEF IsState
<1> HIDE DEF t2
<1> QED BY <1>1, <1>5, <1>6, <1>7, StackLimitKeeps DEF Keeps, SameControl
LEMMA SetStatus ==
  ASSUME NEW t, IsState(t), NEW s \in Errors \cup {"ok", "yield", "none"}
  PROVE  /\ IsState([t EXCEPT !.status = s]) /\ [t EXCEPT !.status = s].ci = t.ci /\ [t EXCEPT !.status = s].status = s
         /\ [t EXCEPT !.status = s].nCcalls = t.nCcalls /\ [t EXCEPT !.status = s].errfunc = t.errfunc
         /\ [t EXCEPT !.status = s].allowhook = t.allowhook /\ [t EXCEPT !.status = s].baseCcalls = t.baseCcalls
         /\ [t EXCEPT !.status = s].errorJmp = t.errorJmp
<1>1. [t EXCEPT !.status = s] \in LuaState BY Zenon DEF IsState, LuaState
<1> QED BY Zenon, <1>1 DEF IsState, LuaState

Cut(cs, e, s) == [SubSeq(cs, 1, e) EXCEPT ![e].status = s]
LEMMA CutStack ==
  ASSUME NEW cs \in Seq(Frames), NEW e \in 1..Len(cs), NEW s \in Errors, cs[e].k \in {"pcall", "resume"}
  PROVE  /\ Cut(cs, e, s) \in Seq(Frames) /\ Len(Cut(cs, e, s)) = e
         /\ \A i \in 1..(e - 1) : Cut(cs, e, s)[i] = cs[i]
         /\ Cut(cs, e, s)[e] = WithStatus(cs[e], s)
<1> DEFINE f == WithStatus(cs[e], s)
           u == SubSeq(cs, 1, e)
           new == [u EXCEPT ![e] = f]
<1>1. u \in Seq(Frames) /\ Len(u) = e /\ \A i \in 1..e : u[i] = cs[i] OBVIOUS
<1>2. f \in Frames
  <2>1. cs[e] \in Frames OBVIOUS
  <2> QED BY <2>1, StatusFrame
<1>3. Cut(cs, e, s) = new
  <2>1. u[e] = cs[e] BY <1>1
  <2> QED BY Zenon, <2>1 DEF WithStatus, Cut
<1> HIDE DEF f, u
<1>4. new \in Seq(Frames) /\ Len(new) = e /\ new[e] = f BY <1>1, <1>2
<1>5. \A i \in 1..(e - 1) : new[i] = cs[i] BY <1>1
<1> QED BY <1>3, <1>4, <1>5 DEF f

LEMMA Throw ==
  ASSUME IInv, cstack # <<>>, NEW th, NEW cs, NEW t, Ready(cs, th, t), Step(cstack, cs, {th}),
         Runner(th, t), NEW t2, Throws(t, t2),
         NEW cs2, Starts(cs, cs2), NEW errcode \in Errors, luaD_throw(th, t2, cs2, errcode)
  PROVE  Goes
<1>0. PICK e : e = t.errorJmp OBVIOUS
<1>1. /\ cs \in Seq(Frames) /\ Len(cs) \in Nat \ {0} /\ th \in Threads /\ IsState(t) /\ t2.errorJmp = e
      /\ DOMAIN lstate = Threads
  BY <1>0, ReadyFacts DEF Throws, SameFields, IInv
<1>2. CASE e # 0
  <2> DEFINE new == Cut(cs2, e, errcode)
  <2>1. Become(th, t2, new)
    <3>1. t2.errorJmp # 0 BY <1>1, <1>2
    <3>2. Become(th, t2, Cut(cs2, t2.errorJmp, errcode)) BY Zenon, <3>1 DEF luaD_throw, Cut
    <3> QED BY <1>1, <3>2
  <2>2. e \in 1..Len(cs) /\ cs[e].k \in {"pcall", "resume"}
    BY <1>0, <1>1, <1>2 DEF Ready, Placed, Protection, LastProtected, Protects
  <2>3. cs2 \in Seq(Frames) /\ e \in 1..Len(cs2) /\ cs2[e] = cs[e] /\ \A i \in 1..(e - 1) : cs2[i] = cs[i]
    BY <1>1, <2>2 DEF Starts
  <2>4. new \in Seq(Frames) /\ Len(new) = e /\ (\A i \in 1..(e - 1) : new[i] = cs[i]) /\ new[e] = WithStatus(cs[e], errcode)
    <3>1. cs2[e].k \in {"pcall", "resume"} BY <2>2, <2>3
    <3>2. new \in Seq(Frames) /\ Len(new) = e /\ (\A i \in 1..(e - 1) : new[i] = cs2[i]) /\ new[e] = WithStatus(cs2[e], errcode)
      BY <2>3, <3>1, CutStack
    <3> HIDE DEF new
    <3> QED BY <2>3, <3>2
  <2> HIDE DEF new
  <2>6. StackOK(new) /\ new # <<>> /\ Step(cs, new, {th}) /\ ThreadOK(new, t2, th)
    BY Zenon, <1>0, <1>2, <2>4, Landed
  <2>7. Step(cstack, new, {th}) BY <2>6, StepTrans
  <2>8. /\ UNCHANGED uses /\ DOMAIN lstate' = Threads /\ cstack' = new /\ lstate'[th] = t2
        /\ \A u \in Threads : u # th => lstate'[u] = lstate[u]
    BY <1>1, <2>1 DEF Become
  <2>9. IsState(t2) /\ t2.body = t.body BY DEF Throws, SameFields
  <2>10. IInv' BY <2>6, <2>7, <2>8, <2>9, FinishStep
  <2>11. Last(new).L = th /\ Last(new).status # "ok"
    <3>1. cs[e] \in Frames /\ Last(new) = new[e] BY <1>1, <2>2, <2>4 DEF Last
    <3>2. new[e].status = errcode /\ new[e].L = cs[e].L BY <2>2, <2>4, <3>1, StatusFrame
    <3>3. cs[e].L = th BY <1>0, <1>1, <1>2 DEF Ready, Placed, Protection, LastProtected, Protects
    <3> QED BY <3>1, <3>2, <3>3
  <2>12. Advance(th) BY <2>6, <2>7, <2>8, <2>9, <2>11 DEF Advance, AtBase, Runner, l
  <2> QED BY <2>10, <2>12 DEF Goes, Runner
<1>3. CASE e = 0
  <2> DEFINE u0 == [t2 EXCEPT !.status = errcode]
             t3 == resetstack(u0)
  <2>1. Become(th, t3, <<>>) BY <1>1, <1>3 DEF luaD_throw
  <2>2. IsState(u0) /\ u0.status = errcode
    <3>1. IsState(t2) /\ errcode \in Errors \cup {"ok", "yield", "none"} BY DEF Throws
    <3> QED BY Zenon, <3>1, SetStatus
  <2>3. IsState(t3) /\ Over(t3)
    <3> HIDE DEF u0
    <3> QED BY <2>2, ResetState DEF Over
  <2> HIDE DEF t3
  <2>4. /\ UNCHANGED uses /\ DOMAIN lstate' = Threads /\ cstack' = <<>> /\ lstate'[th] = t3
        /\ \A u \in Threads : u # th => lstate'[u] = lstate[u]
    BY <1>1, <2>1 DEF Become
  <2>5. \A j \in 1..Len(cs) : cs[j].L = th BY Zenon, <1>0, <1>3, Unprotected
  <2>6. ASSUME NEW u \in Threads, u # th PROVE IsState(lstate[u]) /\ Over(lstate[u])
    <3>1. IsState(lstate[u]) /\ ThreadOK(cstack, lstate[u], u) BY DEF IInv, Good
    <3>4. u \notin {th} BY <2>6
    <3>2. ThreadOK(cs, lstate[u], u) BY Zenon, <3>1, <3>4, OtherThread
    <3>3. ~ \E i \in 1..Len(cs) : cs[i].L = u BY <2>5, <2>6
    <3>5. Suspended(lstate[u]) /\ lstate[u].errorJmp = 0 BY <3>2, <3>3 DEF ThreadOK
    <3> QED BY <3>1, <3>5 DEF Suspended, Over
  <2>7. \A u \in Threads : IsState(lstate'[u]) /\ Over(lstate'[u])
    <3> SUFFICES ASSUME NEW u \in Threads PROVE IsState(lstate'[u]) /\ Over(lstate'[u]) OBVIOUS
    <3>1. CASE u = th BY <2>3, <2>4, <3>1
    <3>2. CASE u # th BY <2>4, <2>6, <3>2
    <3> QED BY <3>1, <3>2
  <2>8. uses \in Programs BY DEF IInv
  <2>9. IInv' BY <2>4, <2>7, <2>8 DEF IInv, Good
  <2>10. th = MainThread
    <3>1. StackOK(cs) BY ReadyFacts
    <3>2. cs[1].L = MainThread BY <1>1, <3>1 DEF StackOK, FrameAt
    <3> QED BY <1>1, <2>5, <3>2
  <2>11. Advance(th) BY <2>4, <2>10 DEF Advance
  <2> QED BY <2>9, <2>11 DEF Goes, Runner
<1> QED BY <1>2, <1>3

LEMMA ThrowHere ==
  ASSUME IInv, cstack # <<>>, NEW th, NEW cs, NEW t, Ready(cs, th, t), Step(cstack, cs, {th}),
         Runner(th, t), NEW errcode \in Errors, luaD_throw(th, t, cs, errcode)
  PROVE  Goes
<1>1. IsState(t) /\ cs \in Seq(Frames) /\ Len(cs) \in Nat BY ReadyFacts
<1>2. t.nCcalls \in Nat BY <1>1, FieldTypes
<1>3. Throws(t, t) BY <1>1, <1>2 DEF Throws, SameFields
<1>4. Starts(cs, cs) BY <1>1 DEF Starts
<1> QED BY <1>3, <1>4, Throw

=============================================================================
