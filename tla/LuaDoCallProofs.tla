--------------------------- MODULE LuaDoCallProofs ---------------------------
(***************************************************************************)
(* Proofs about LuaDo: the calls and returns of Lua and C functions, with  *)
(* their hooks, the start and end of protected calls and of coroutines, and*)
(* the actions of a function that runs keep the invariant.                 *)
(***************************************************************************)
EXTENDS LuaDoStackProofs

USE DEF Errors, CFunction, NotFunction, NoBody, LUA_MULTRET, Done

(***************************************************************************)
(* luaD_precall.                                                           *)
(***************************************************************************)
(* One more function, of kind k.                                            *)
Entered(t, t2, k) ==
  /\ IsState(t2) /\ SameFields(t, t2) /\ t2.nCcalls = t.nCcalls /\ t2.allowhook = t.allowhook
  /\ Len(t2.ci) = Len(t.ci) + 1 /\ Kind(t2.ci[Len(t.ci) + 1]) = k
  /\ \A j \in 1..Len(t.ci) : Kind(t2.ci[j]) = Kind(t.ci[j])
Results == [result : {"entered", "runerror", "errerr"}, t : LuaState]
Precalled(t, r, K) ==
  /\ r \in Results
  /\ \/ r.result = "entered" /\ \E k \in K : Entered(t, r.t, k)
     \/ r.result # "entered" /\ Keeps(t, r.t)
Callees == Bodies \cup {CFunction} \cup {Callable(f) : f \in LuaFunctions \cup {CFunction}}

LEMMA EnteredKeeps ==
  ASSUME NEW t, IsState(t), NEW k, NEW t1, NEW t2, NEW t3, Keeps(t, t1), Entered(t1, t2, k), Keeps(t2, t3)
  PROVE  Entered(t, t3, k)
<1>1. Len(t.ci) \in Nat BY FieldTypes
<1> QED BY <1>1 DEF Keeps, SameControl, SameCalls, Entered, SameFields
LEMMA PrecalledKeeps ==
  ASSUME NEW t, IsState(t), NEW t1, Keeps(t, t1), NEW r, NEW K, Precalled(t1, r, K)
  PROVE  Precalled(t, r, K)
<1>1. CASE r.result = "entered"
  <2>1. PICK k \in K : Entered(t1, r.t, k) BY <1>1 DEF Precalled
  <2>2. Keeps(r.t, r.t) BY <2>1, KeepsSelf DEF Entered
  <2> QED BY <1>1, <2>1, <2>2, EnteredKeeps DEF Precalled
<1>2. CASE r.result # "entered" BY <1>2, KeepsTrans DEF Precalled
<1> QED BY <1>1, <1>2
LEMMA AddCi ==
  ASSUME NEW t, IsState(t), NEW c \in CallInfo
  PROVE  Entered(t, [t EXCEPT !.ci = Append(t.ci, c)], Kind(c))
<1> DEFINE s == Append(t.ci, c)
           t2 == [t EXCEPT !.ci = s]
<1>1. t.ci \in Seq(CallInfo) /\ Len(t.ci) \in Nat BY FieldTypes
<1>2. s \in Seq(CallInfo) /\ Len(s) = Len(t.ci) + 1 /\ s[Len(t.ci) + 1] = c /\ (\A j \in 1..Len(t.ci) : s[j] = t.ci[j]) /\ s # <<>>
  BY <1>1
<1> HIDE DEF s
<1>3. t2 \in LuaState /\ t2.ci = s BY Zenon, <1>2 DEF IsState, LuaState
<1>4. SameFields(t, t2) /\ t2.nCcalls = t.nCcalls /\ t2.allowhook = t.allowhook BY DEF IsState, LuaState, SameFields
<1> QED BY <1>2, <1>3, <1>4 DEF Entered, IsState, s
LEMMA IncCi ==
  ASSUME NEW t, IsState(t), NEW c \in CallInfo
  PROVE  Precalled(t, inc_ci(t, c), {Kind(c)})
<1> DEFINE grown == [t EXCEPT !.size_ci = 2 * t.size_ci]
<1>1. 2 * t.size_ci \in Nat BY FieldTypes
<1>2. Keeps(t, grown) /\ IsState(grown) /\ grown.ci = t.ci BY <1>1, SetSizeCi, SameCi DEF Keeps
<1> HIDE DEF grown
<1>3. Entered(t, [t EXCEPT !.ci = Append(t.ci, c)], Kind(c)) BY AddCi
<1>4. Entered(t, [grown EXCEPT !.ci = Append(grown.ci, c)], Kind(c))
  <2> DEFINE t2 == [grown EXCEPT !.ci = Append(grown.ci, c)]
  <2>1. Entered(grown, t2, Kind(c)) BY <1>2, AddCi
  <2> HIDE DEF t2
  <2>2. Keeps(t2, t2) BY <2>1, KeepsSelf DEF Entered
  <2>3. Entered(t, t2, Kind(c)) BY <1>2, <2>1, <2>2, EnteredKeeps
  <2> QED BY <2>3 DEF t2
<1>5. inc_ci(t, c) \in {[result |-> "entered", t |-> [t EXCEPT !.ci = Append(t.ci, c)]], [result |-> "errerr", t |-> t],
                        [result |-> "runerror", t |-> grown],
                        [result |-> "entered", t |-> [grown EXCEPT !.ci = Append(grown.ci, c)]]}
  BY DEF inc_ci, grown
<1>6. Keeps(t, t) BY KeepsSelf
<1> DEFINE r1 == [result |-> "entered", t |-> [t EXCEPT !.ci = Append(t.ci, c)]]
           r2 == [result |-> "errerr", t |-> t]
           r3 == [result |-> "runerror", t |-> grown]
           r4 == [result |-> "entered", t |-> [grown EXCEPT !.ci = Append(grown.ci, c)]]
<1>7. Precalled(t, r1, {Kind(c)}) BY Zenon, <1>3 DEF Precalled, Results, Entered, IsState
<1>8. Precalled(t, r2, {Kind(c)}) BY <1>6 DEF Precalled, Results, IsState
<1>9. Precalled(t, r3, {Kind(c)}) BY <1>2 DEF Precalled, Results, IsState
<1>10. Precalled(t, r4, {Kind(c)}) BY Zenon, <1>4 DEF Precalled, Results, Entered, IsState
<1>11. inc_ci(t, c) \in {r1, r2, r3, r4} BY <1>5
<1> HIDE DEF r1, r2, r3, r4
<1> QED BY <1>7, <1>8, <1>9, <1>10, <1>11

(* Base and top of an entered function are set.                             *)
LEMMA SetFrame ==
  ASSUME NEW t, IsState(t), NEW r, NEW k, Precalled(t, r, {k}), NEW base \in Int, NEW top \in Int
  PROVE  /\ Precalled(t, IF r.result = "entered" THEN [r EXCEPT !.t.base = base, !.t.top = top] ELSE r, {k})
         /\ Precalled(t, IF r.result = "entered" THEN [r EXCEPT !.t.base = base] ELSE r, {k})
<1>1. CASE r.result # "entered" BY <1>1
<1>2. CASE r.result = "entered"
  <2> DEFINE t1 == [r.t EXCEPT !.base = base]
             t2 == [t1 EXCEPT !.top = top]
             r1 == [r EXCEPT !.t.base = base]
             r2 == [r EXCEPT !.t.base = base, !.t.top = top]
  <2>1. r \in Results /\ Entered(t, r.t, k) BY <1>2 DEF Precalled
  <2>2. IsState(r.t) /\ r.t \in LuaState BY <2>1 DEF Entered, IsState
  <2>3. Keeps(r.t, t1) BY <2>2, SetBase
  <2>4. Keeps(r.t, t2)
    <3> HIDE DEF t1
    <3>1. Keeps(t1, t2) BY <2>3, SetTop DEF Keeps
    <3> HIDE DEF t2
    <3> QED BY <2>3, <3>1, KeepsTrans
  <2>5. r1.result = "entered" /\ r1.t = t1 /\ r1 = [result |-> "entered", t |-> t1] BY <1>2, <2>1 DEF Results
  <2>6. r2.result = "entered" /\ r2.t = t2 /\ r2 = [result |-> "entered", t |-> t2]
    <3>1. r2 = [r1 EXCEPT !.t.top = top] OBVIOUS
    <3> HIDE DEF r1, r2, t1
    <3> QED BY <2>5, <3>1
  <2> HIDE DEF t1, t2, r1, r2
  <2>7. Keeps(r.t, r.t) BY <2>2, KeepsSelf
  <2>8. Entered(t, t1, k) /\ Entered(t, t2, k)
    <3>1. Keeps(t, t) BY KeepsSelf
    <3> QED BY <2>1, <2>3, <2>4, <3>1, EnteredKeeps
  <2> QED BY <1>2, <2>5, <2>6, <2>8 DEF Precalled, Results, Entered, IsState, r1, r2
<1> QED BY <1>1, <1>2

LEMMA PrecallLuaFacts ==
  ASSUME NEW t, IsState(t), NEW func \in Int, NEW p \in LuaFunctions, NEW nresults \in Int
  PROVE  Precalled(t, PrecallLua(t, func, p, nresults), {"lua"})
<1> DEFINE t1 == luaD_checkstack(t, p.maxstacksize)
           a == adjust_params(t1, func, p)
           ci == [func |-> [at |-> restorestack(t1, func), fn |-> p], base |-> a.base,
                  top |-> a.base + p.maxstacksize, nresults |-> nresults]
           t2 == [t1 EXCEPT !.top = a.top]
           r == inc_ci(t2, ci)
<1>1. /\ p.kind = "lua" /\ p.numparams \in Nat /\ p.is_vararg \in BOOLEAN /\ p.maxstacksize \in Nat
  BY FunctionsAssumption
<1>2. Keeps(t, t1) /\ IsState(t1) BY <1>1, CheckstackKeeps DEF Keeps
<1>3. PrecallLua(t, func, p, nresults) = IF r.result = "entered" THEN [r EXCEPT !.t.base = ci.base, !.t.top = ci.top] ELSE r
  BY DEF PrecallLua
<1> HIDE DEF t1
<1>4. t1.top \in Int /\ t1.stack \in Int BY <1>2, FieldTypes
<1>5. a.base \in Int /\ a.top \in Int BY <1>1, <1>4 DEF adjust_params, restorestack
<1>6. restorestack(t1, func) \in Int BY <1>4 DEF restorestack
<1> HIDE DEF a
<1>7. ci \in CallInfo /\ Kind(ci) = "lua" /\ ci.base \in Int /\ ci.top \in Int BY <1>1, <1>5, <1>6 DEF CallInfo, Func, Kind
<1>8. Keeps(t, t2) /\ IsState(t2)
  <2>1. Keeps(t1, t2) BY <1>2, <1>5, SetTop
  <2> HIDE DEF t2
  <2> QED BY <1>2, <2>1, KeepsTrans DEF Keeps
<1> HIDE DEF ci, t2
<1>9. Precalled(t2, r, {"lua"}) BY <1>7, <1>8, IncCi
<1> HIDE DEF r
<1>10. Precalled(t, r, {"lua"}) BY <1>8, <1>9, PrecalledKeeps
<1> QED BY Zenon, <1>3, <1>7, <1>10, SetFrame

LEMMA PrecallCFacts ==
  ASSUME NEW t, IsState(t), NEW func \in Int, NEW nresults \in Int
  PROVE  Precalled(t, PrecallC(t, func, nresults), {"c"})
<1> DEFINE t1 == luaD_checkstack(t, LUA_MINSTACK)
           at == restorestack(t1, func)
           ci == [func |-> [at |-> at, fn |-> CFunction], base |-> at + 1,
                  top |-> t1.top + LUA_MINSTACK, nresults |-> nresults]
           r == inc_ci(t1, ci)
<1>1. Keeps(t, t1) /\ IsState(t1) BY CheckstackKeeps, LimitsAssumption DEF Keeps
<1>2. PrecallC(t, func, nresults) = IF r.result = "entered" THEN [r EXCEPT !.t.base = ci.base] ELSE r
  BY DEF PrecallC
<1> HIDE DEF t1
<1>3. t1.top \in Int /\ t1.stack \in Int BY <1>1, FieldTypes
<1>4. at \in Int BY <1>3 DEF restorestack
<1> HIDE DEF at
<1>5. ci \in CallInfo /\ Kind(ci) = "c" /\ ci.base \in Int BY <1>3, <1>4, LimitsAssumption DEF CallInfo, Func, Kind
<1> HIDE DEF ci
<1>6. Precalled(t1, r, {"c"}) BY <1>1, <1>5, IncCi
<1> HIDE DEF r
<1>7. Precalled(t, r, {"c"}) BY <1>1, <1>6, PrecalledKeeps
<1>8. 0 \in Int OBVIOUS
<1> QED BY Zenon, <1>2, <1>5, <1>7, <1>8, SetFrame

LEMMA PrecallFacts ==
  ASSUME NEW t, IsState(t), NEW func \in Int, NEW fn \in Callees, NEW nresults \in Int
  PROVE  LET r == luaD_precall(t, func, fn, nresults)
         IN  /\ Precalled(t, r, {"lua", "c"})
             /\ fn \in Bodies => Precalled(t, r, {"lua"})
<1> DEFINE f == IF fn.kind = "callable" THEN fn.tm ELSE fn
           t1 == IF fn.kind = "callable" THEN incr_top(t) ELSE t
           r == luaD_precall(t, func, fn, nresults)
<1>1. \A p \in LuaFunctions : p.kind = "lua" BY FunctionsAssumption
<1>2. f \in Bodies \cup {CFunction} /\ (fn \in Bodies => f = fn)
  BY <1>1 DEF Callees, Bodies, Callable
<1>3. Keeps(t, t1) BY KeepsSelf, IncrTopKeeps
<1>4. r = CASE f.kind = "lua" -> PrecallLua(t1, func, f, nresults)
            [] f.kind = "c" -> PrecallC(t1, func, nresults)
            [] OTHER -> [result |-> "runerror", t |-> t]
  BY DEF luaD_precall
<1> HIDE DEF f, t1, r
<1>5. CASE f \in LuaFunctions
  <2>1. r = PrecallLua(t1, func, f, nresults) BY <1>1, <1>4, <1>5
  <2>2. Precalled(t1, r, {"lua"}) BY <1>3, <1>5, <2>1, PrecallLuaFacts DEF Keeps
  <2>3. Precalled(t, r, {"lua"}) BY <1>3, <2>2, PrecalledKeeps
  <2> QED BY <2>3 DEF Precalled, r
<1>6. CASE f = CFunction
  <2>1. r = PrecallC(t1, func, nresults) BY <1>4, <1>6
  <2>2. Precalled(t1, r, {"c"}) BY <1>3, <2>1, PrecallCFacts DEF Keeps
  <2>3. Precalled(t, r, {"c"}) BY <1>3, <2>2, PrecalledKeeps
  <2>4. fn \notin Bodies BY <1>1, <1>2, <1>6 DEF Bodies
  <2> QED BY <2>3, <2>4 DEF Precalled, r
<1>7. CASE f \in {NotFunction, NoBody}
  <2>1. r = [result |-> "runerror", t |-> t] BY <1>4, <1>7
  <2>2. Precalled(t, r, {"lua"}) BY <2>1, KeepsSelf DEF Precalled, Results, IsState
  <2> QED BY <2>2 DEF Precalled, r
<1> QED BY <1>2, <1>5, <1>6, <1>7 DEF Bodies

(***************************************************************************)
(* Where a step has come to: the C stack cs and the state t of its thread.  *)
(***************************************************************************)
At(cs, th, t) == IInv /\ cstack # <<>> /\ Ready(cs, th, t) /\ Step(cstack, cs, {th}) /\ Runner(th, t)

LEMMA AtRunning ==
  ASSUME IInv, cstack # <<>>, F.k # "resume", F.k = "pcall" => F.status = "ok"
  PROVE  At(cstack, L, l)
BY RunningReady DEF At, Runner
LEMMA AtEnd == ASSUME NEW cs, NEW th, NEW t, At(cs, th, t), Become(th, t, cs), AtBase(cs, t) PROVE Goes
<1>1. th \in Threads BY ReadyFacts DEF At
<1> QED BY <1>1, Finish DEF At
LEMMA AtPlain == ASSUME NEW cs, NEW th, NEW t, At(cs, th, t), Become(th, t, cs), Last(cs).k # "resume" PROVE Goes
BY AtEnd DEF AtBase
LEMMA AtPushed ==
  ASSUME NEW cs \in Seq(Frames), NEW f, f.k # "resume", NEW th, NEW t, At(Append(cs, f), th, t), Become(th, t, Append(cs, f))
  PROVE  Goes
<1>1. Last(Append(cs, f)) = f BY DEF Last
<1> QED BY <1>1, AtPlain
LEMMA AtNext ==
  ASSUME NEW cs, NEW th, NEW t, At(cs, th, t), NEW new, NEW t2, Ready(new, th, t2), Step(cs, new, {th}), t2.body = t.body
  PROVE  At(new, th, t2)
<1>1. Runner(th, t2) BY DEF At, Runner
<1> QED BY <1>1, StepTrans DEF At
LEMMA AtKeeps == ASSUME NEW cs, NEW th, NEW t, At(cs, th, t), NEW t2, Keeps(t, t2) PROVE At(cs, th, t2)
<1>1. Runner(th, t2) BY DEF At, Runner, Keeps, SameControl
<1> QED BY <1>1, ReadyKeeps DEF At
LEMMA AtReload == ASSUME NEW cs, NEW th, NEW t, At(cs, th, t) PROVE At(Reloaded(cs, t), th, t)
<1>1. Ready(Reloaded(cs, t), th, t) /\ Step(cs, Reloaded(cs, t), {th}) BY Zenon, ReadyReload DEF At
<1> QED BY <1>1, AtNext
LEMMA ReloadEnds ==
  ASSUME NEW cs, NEW th, NEW t, At(cs, th, t), Become(th, t, Reloaded(cs, t)), Last(cs) \in Frames, Last(cs).k # "resume"
  PROVE  Goes
<1> DEFINE f == Reload(Last(cs), t)
<1>1. IsState(t) BY ReadyFacts DEF At
<1>2. f.k = Last(cs).k
  <2>1. Last(cs).k = "execute" => Last(cs) \in ExecuteFrame
    BY DEF Frames, Simple, CallFrame, PcallFrames, ResumeFrame, ErrormsgFrame, HookFrames, PoscallFrame
  <2> QED BY <2>1 DEF Reload, ExecuteFrame
<1> HIDE DEF f
<1>3. Last(Reloaded(cs, t)) = f BY DEF Reloaded, f, Last
<1>4. At(Reloaded(cs, t), th, t) BY AtReload
<1> QED BY <1>2, <1>3, <1>4, AtPlain
LEMMA AtFacts ==
  ASSUME NEW cs, NEW th, NEW t, At(cs, th, t)
  PROVE  /\ cs \in Seq(Frames) /\ Last(cs) \in Frames /\ cs # <<>> /\ th \in Threads /\ IsState(t) /\ Ready(cs, th, t)
         /\ Last(cs).L = th /\ t.nCcalls <= LUAI_MAXCCALLS + ErrorCCalls /\ t.nCcalls \in Nat /\ t.allowhook \in BOOLEAN
<1>1. IsState(t) /\ t.nCcalls <= LUAI_MAXCCALLS + ErrorCCalls BY ReadyFacts DEF At
<1> QED BY <1>1, ReadyFacts, FieldTypes DEF At

LEMMA AtThrow ==
  ASSUME NEW cs, NEW th, NEW t, At(cs, th, t), NEW errcode \in Errors, luaD_throw(th, t, cs, errcode)
  PROVE  Goes
BY ThrowHere DEF At

LEMMA CallsSame == ASSUME NEW t, IsState(t), NEW t2, SameCalls(t, t2), NEW f, CallsIn(f) = 0 PROVE Calls(t, t2, 0, f)
<1>1. Len(t.ci) \in Nat BY FieldTypes
<1> QED BY <1>1 DEF Calls, SameCalls
LEMMA PushSame ==
  ASSUME NEW cs, NEW th, NEW t, At(cs, th, t),
         NEW f \in Frames, f.L = th, f.k \notin {"resume", "pcall", "hook", "call"}, StandsOn(f, Last(cs)), NoContinue(f, Last(cs)),
         CallsIn(f) = 0, NEW t2, Keeps(t, t2)
  PROVE  At(Append(cs, f), th, t2)
<1>1. IsState(t2) /\ SameFields(t, t2) /\ t2.nCcalls = t.nCcalls + 0 /\ t2.allowhook = t.allowhook /\ SameCalls(t, t2)
  BY AtFacts DEF Keeps, SameControl, SameFields
<1>2. Calls(t, t2, 0, f) BY <1>1, AtFacts, CallsSame
<1>3. Ready(Append(cs, f), th, t2) /\ Step(cs, Append(cs, f), {th}) BY <1>1, <1>2, AtFacts, PushFrame
<1>4. t2.body = t.body BY <1>1 DEF SameFields
<1> QED BY <1>3, <1>4, AtNext
LEMMA ErrormsgTypes ==
  ASSUME NEW th \in Threads, NEW b \in BOOLEAN
  PROVE  LET f == [k |-> "errormsg", L |-> th, called |-> b]
         IN  f \in Frames /\ f.L = th /\ f.k = "errormsg" /\ CallsIn(f) = 0
BY DEF Frames, ErrormsgFrame, CallsIn
LEMMA PushErrormsg ==
  ASSUME NEW cs, NEW th, NEW t, At(cs, th, t), Last(cs).k \in CCode \cup {"execute", "call", "resume"}, NEW t2, Keeps(t, t2),
         NEW b \in BOOLEAN
  PROVE  At(Append(cs, [k |-> "errormsg", L |-> th, called |-> b]), th, t2)
<1> DEFINE f == [k |-> "errormsg", L |-> th, called |-> b]
<1>1. th \in Threads BY AtFacts
<1>2. f \in Frames /\ f.L = th /\ f.k = "errormsg" /\ CallsIn(f) = 0 BY <1>1, ErrormsgTypes
<1> HIDE DEF f
<1>3. StandsOn(f, Last(cs)) /\ NoContinue(f, Last(cs)) BY <1>2 DEF StandsOn, NoContinue
<1>4. At(Append(cs, f), th, t2) BY <1>2, <1>3, PushSame
<1> QED BY <1>4 DEF f
LEMMA Runerror ==
  ASSUME NEW cs, NEW th, NEW t, At(cs, th, t), Last(cs).k \in CCode \cup {"execute", "call", "resume"},
         luaG_runerror(th, t, cs)
  PROVE  Goes
<1> DEFINE t2 == IF f_isLua(Ci(t)) THEN incr_top(incr_top(t)) ELSE incr_top(t)
<1>1. IsState(t) BY AtFacts
<1>2. Keeps(t, incr_top(t)) BY <1>1, IncrTopKeeps
<1>3. Keeps(incr_top(t), incr_top(incr_top(t))) BY <1>2, IncrTopKeeps DEF Keeps
<1>4. Keeps(t, t2) BY <1>2, <1>3, KeepsTrans
<1>5. Become(th, t2, Append(cs, [k |-> "errormsg", L |-> th, called |-> FALSE])) BY DEF luaG_runerror
<1> HIDE DEF t2
<1> DEFINE f == [k |-> "errormsg", L |-> th, called |-> FALSE]
<1>6. f.k # "resume" /\ cs \in Seq(Frames) /\ FALSE \in BOOLEAN BY AtFacts
<1> HIDE DEF f
<1>7. At(Append(cs, f), th, t2) BY Zenon, <1>4, <1>6, PushErrormsg DEF f
<1>8. Become(th, t2, Append(cs, f)) BY Zenon, <1>5 DEF f
<1> QED BY <1>6, <1>7, <1>8, AtPushed

LEMMA CallhookFacts ==
  ASSUME NEW t, IsState(t)
  PROVE  /\ IsState(luaD_callhook(t)) /\ SameCalls(t, luaD_callhook(t)) /\ SameFields(t, luaD_callhook(t))
         /\ luaD_callhook(t).nCcalls = t.nCcalls /\ ~ luaD_callhook(t).allowhook
<1> DEFINE t1 == luaD_checkstack(t, LUA_MINSTACK)
           t2 == SetCiTop(t1, t1.top + LUA_MINSTACK)
           t3 == [t2 EXCEPT !.allowhook = FALSE]
<1>1. luaD_callhook(t) = t3 BY DEF luaD_callhook
<1>2. Keeps(t, t1) /\ LUA_MINSTACK \in Int BY CheckstackKeeps, LimitsAssumption
<1> HIDE DEF t1
<1>3. Keeps(t, t2)
  <2>1. t1.top + LUA_MINSTACK \in Int BY <1>2, FieldTypes DEF Keeps
  <2> QED BY <1>2, <2>1, SetCiTopKeeps, KeepsTrans DEF Keeps
<1> HIDE DEF t2
<1>4. t3 \in LuaState /\ t3.ci = t2.ci /\ SameFields(t2, t3) /\ t3.nCcalls = t2.nCcalls /\ ~ t3.allowhook
  BY Zenon, <1>3 DEF Keeps, IsState, LuaState, SameFields
<1> HIDE DEF t3
<1>5. IsState(t3) BY <1>3, <1>4 DEF Keeps, IsState
<1> QED BY <1>1, <1>3, <1>4, <1>5 DEF Keeps, SameControl, SameCalls, SameFields
LEMMA HookFrameTypes ==
  ASSUME NEW th \in Threads, NEW t, IsState(t), NEW then \in {"call", "return", "tailcall", "count"}
  PROVE  LET f == HookFrame(th, t, then) IN f \in Frames /\ f.L = th /\ f.k = "hook" /\ f.then = then
<1>1. savestack(t, t.top) \in Int /\ savestack(t, Ci(t).top) \in Int BY FieldTypes, LastCi, CiTypes DEF savestack
<1> QED BY <1>1 DEF HookFrame, Frames, HookFrames
LEMMA HookRuns ==
  ASSUME NEW cs, NEW th, NEW t, At(cs, th, t), t.allowhook, NEW then \in {"call", "return", "count"},
         then = "return" => Last(cs).k = "poscall", then # "return" => Last(cs).k \in {"execute", "cfunc"}
  PROVE  At(Append(cs, HookFrame(th, t, then)), th, luaD_callhook(t))
<1> DEFINE f == HookFrame(th, t, then)
           t2 == luaD_callhook(t)
<1>1. IsState(t) /\ th \in Threads BY AtFacts
<1>2. f \in Frames /\ f.L = th /\ f.k = "hook" /\ f.then = then BY <1>1, HookFrameTypes
<1>3. IsState(t2) /\ SameCalls(t, t2) /\ SameFields(t, t2) /\ t2.nCcalls = t.nCcalls /\ ~ t2.allowhook BY <1>1, CallhookFacts
<1> HIDE DEF f, t2
<1>4. CallsIn(f) = 0 BY <1>2 DEF CallsIn
<1>5. StandsOn(f, Last(cs)) /\ NoContinue(f, Last(cs)) BY <1>2 DEF StandsOn, NoContinue
<1>6. Calls(t, t2, 0, f) BY <1>1, <1>3, <1>4, CallsSame
<1>7. t2.nCcalls = t.nCcalls + 0 BY <1>3, AtFacts
<1>8. Ready(Append(cs, f), th, t2) /\ Step(cs, Append(cs, f), {th}) BY Zenon, <1>2, <1>3, <1>5, <1>6, <1>7, AtFacts, PushFrame
<1>9. At(Append(cs, f), th, t2)
  <2>1. t2.body = t.body BY <1>3 DEF SameFields
  <2> QED BY <1>8, <2>1, AtNext
<1> QED BY <1>9 DEF f, t2
LEMMA HookEnds ==
  ASSUME NEW cs, NEW th, NEW t, NEW t0, NEW then, At(Append(cs, HookFrame(th, t, then)), th, t0), cs \in Seq(Frames),
         Become(th, t0, Append(cs, HookFrame(th, t, then)))
  PROVE  Goes
<1>1. HookFrame(th, t, then).k # "resume" BY DEF HookFrame
<1> QED BY Zenon, <1>1, AtPushed
LEMMA WithCallHookEnds ==
  ASSUME NEW cs, NEW th, NEW t, At(cs, th, t), Last(cs).k \in {"execute", "cfunc"}, WithCallHook(th, t, cs)
  PROVE  Goes
<1>1. CASE Become(th, t, cs) BY <1>1, AtPlain
<1>2. CASE t.allowhook /\ Become(th, luaD_callhook(t), Append(cs, HookFrame(th, t, "call")))
  <2>1. At(Append(cs, HookFrame(th, t, "call")), th, luaD_callhook(t)) BY <1>2, HookRuns
  <2> QED BY <1>2, <2>1, HookEnds, AtFacts
<1> QED BY Zenon, <1>1, <1>2 DEF WithCallHook

(***************************************************************************)
(* Calls.                                                                  *)
(***************************************************************************)
LEMMA ExecuteTypes ==
  ASSUME NEW th \in Threads, NEW n \in Nat \ {0}, NEW t, IsState(t)
  PROVE  LET f == Execute(th, n, t)
         IN  f \in Frames /\ f.L = th /\ f.k = "execute" /\ f.nexeccalls = n /\ CallsIn(f) = n /\ KindIn(f) = "lua"
<1>1. t.base \in Int BY FieldTypes
<1> QED BY <1>1 DEF Execute, Frames, ExecuteFrame, CallsIn, KindIn
LEMMA CfuncTypes ==
  ASSUME NEW th \in Threads
  PROVE  LET f == [k |-> "cfunc", L |-> th]
         IN  f \in Frames /\ f.L = th /\ f.k = "cfunc" /\ CallsIn(f) = 1 /\ KindIn(f) = "c"
BY DEF Frames, Simple, CallsIn, KindIn

LEMMA LastKind ==
  ASSUME NEW t, IsState(t), NEW t2, NEW k, Entered(t, t2, k)
  PROVE  IsState(t2) /\ Ci(t2) = t2.ci[Len(t2.ci)] /\ Kind(Ci(t2)) = k /\ (f_isLua(Ci(t2)) <=> k = "lua")
<1>1. IsState(t2) BY DEF Entered
<1>2. Ci(t2) = t2.ci[Len(t2.ci)] BY <1>1, LastCi
<1>3. Kind(Ci(t2)) = k BY <1>2 DEF Entered
<1> QED BY <1>1, <1>2, <1>3 DEF f_isLua, Kind
LEMMA PushEntered ==
  ASSUME NEW cs, NEW th, NEW t, At(cs, th, t), NEW f \in Frames, f.L = th, f.k \in {"execute", "cfunc"}, CallsIn(f) = 1,
         StandsOn(f, Last(cs)), NEW t2, Entered(t, t2, KindIn(f))
  PROVE  At(Append(cs, f), th, t2)
<1>1. IsState(t) /\ t.nCcalls \in Nat /\ t.allowhook \in BOOLEAN BY AtFacts
<1>2. Len(t.ci) \in Nat BY <1>1, FieldTypes
<1>3. Calls(t, t2, 0, f) BY <1>2 DEF Entered, Calls
<1>4. IsState(t2) /\ SameFields(t, t2) /\ t2.nCcalls = t.nCcalls + 0 /\ t2.allowhook = t.allowhook BY <1>1 DEF Entered
<1>5. NoContinue(f, Last(cs)) BY DEF NoContinue
<1>6. Ready(Append(cs, f), th, t2) /\ Step(cs, Append(cs, f), {th}) BY Zenon, <1>3, <1>4, <1>5, AtFacts, PushFrame
<1>7. t2.body = t.body BY <1>4 DEF SameFields
<1> QED BY <1>6, <1>7, AtNext
LEMMA EnterEnds ==
  ASSUME NEW callers, NEW th, NEW t, At(callers, th, t), Last(callers).k \in CCode \cup {"execute", "call", "resume"},
         NEW r, NEW K, Precalled(t, r, K), NEW cs, r.result = "entered" => At(cs, th, r.t) /\ Last(cs).k \in {"execute", "cfunc"},
         Enter(th, r, callers, cs)
  PROVE  Goes
<1>1. r.result \in {"entered", "runerror", "errerr"} BY DEF Precalled, Results
<1>2. CASE r.result = "entered"
  <2>1. WithCallHook(th, r.t, cs) BY <1>2 DEF Enter
  <2> QED BY <1>2, <2>1, WithCallHookEnds
<1>3. CASE r.result = "runerror"
  <2>1. luaG_runerror(th, r.t, callers) BY <1>3 DEF Enter
  <2>2. At(callers, th, r.t) BY <1>3, AtKeeps DEF Precalled
  <2> QED BY <2>1, <2>2, Runerror
<1>4. CASE r.result = "errerr"
  <2>1. luaD_throw(th, r.t, callers, "errerr") BY <1>4 DEF Enter
  <2>2. At(callers, th, r.t) BY <1>4, AtKeeps DEF Precalled
  <2> QED BY <2>1, <2>2, AtThrow
<1> QED BY <1>1, <1>2, <1>3, <1>4
LEMMA EnterNewEnds ==
  ASSUME NEW callers, NEW th, NEW t, At(callers, th, t), NEW r, NEW K, Precalled(t, r, K),
         Last(callers).k \in {"call", "resume"}, K \subseteq {"lua", "c"}, Last(callers).k = "resume" => "c" \notin K,
         EnterNew(th, r, callers)
  PROVE  Goes
<1> DEFINE cs == IF f_isLua(Ci(r.t)) THEN Append(callers, Execute(th, 1, r.t)) ELSE Push(callers, "cfunc", th)
<1>1. Enter(th, r, callers, cs) BY DEF EnterNew
<1>2. IsState(t) /\ th \in Threads /\ callers \in Seq(Frames) BY AtFacts
<1>3. ASSUME r.result = "entered" PROVE At(cs, th, r.t) /\ Last(cs).k \in {"execute", "cfunc"}
  <2> PICK k \in K : Entered(t, r.t, k) BY <1>3 DEF Precalled
  <2>1. IsState(r.t) /\ (f_isLua(Ci(r.t)) <=> k = "lua") BY <1>2, LastKind
  <2>2. CASE k = "lua"
    <3> DEFINE f == Execute(th, 1, r.t)
    <3>1. f \in Frames /\ f.L = th /\ f.k = "execute" /\ CallsIn(f) = 1 /\ KindIn(f) = "lua" BY <1>2, <2>1, ExecuteTypes
    <3>2. cs = Append(callers, f) BY <2>1, <2>2
    <3> HIDE DEF f, cs
    <3>3. StandsOn(f, Last(callers)) BY <3>1 DEF StandsOn
    <3>4. At(Append(callers, f), th, r.t) BY <2>2, <3>1, <3>3, PushEntered
    <3>5. Last(Append(callers, f)) = f BY <1>2, <3>1 DEF Last
    <3> QED BY <3>1, <3>2, <3>4, <3>5
  <2>3. CASE k # "lua"
    <3> DEFINE f == [k |-> "cfunc", L |-> th]
    <3>1. f \in Frames /\ f.L = th /\ f.k = "cfunc" /\ CallsIn(f) = 1 /\ KindIn(f) = "c" BY <1>2, CfuncTypes
    <3>2. cs = Append(callers, f) BY <2>1, <2>3 DEF Push
    <3> HIDE DEF f, cs
    <3>6. k = "c" /\ Last(callers).k = "call" BY <2>3
    <3>3. StandsOn(f, Last(callers)) BY <3>1, <3>6 DEF StandsOn
    <3>4. At(Append(callers, f), th, r.t) BY <3>1, <3>3, <3>6, PushEntered
    <3>5. Last(Append(callers, f)) = f BY <1>2, <3>1 DEF Last
    <3> QED BY <3>1, <3>2, <3>4, <3>5
  <2> QED BY <2>2, <2>3
<1> HIDE DEF cs
<1>4. Last(callers).k \in CCode \cup {"execute", "call", "resume"} OBVIOUS
<1> QED BY <1>1, <1>3, <1>4, EnterEnds

LEMMA AddCcall ==
  ASSUME NEW t, IsState(t), NEW x \in Nat
  PROVE  LET t2 == [t EXCEPT !.nCcalls = x]
         IN  IsState(t2) /\ SameFields(t, t2) /\ t2.ci = t.ci /\ t2.nCcalls = x /\ t2.allowhook = t.allowhook /\ SameCalls(t, t2)
<1> DEFINE t2 == [t EXCEPT !.nCcalls = x]
<1>1. t2 \in LuaState /\ t2.ci = t.ci BY Zenon DEF IsState, LuaState
<1>2. t2.nCcalls = x /\ t2.allowhook = t.allowhook /\ SameFields(t, t2) BY DEF IsState, LuaState, SameFields
<1> HIDE DEF t2
<1>3. IsState(t2) /\ SameCalls(t, t2) BY <1>1 DEF IsState, SameCalls
<1> QED BY <1>1, <1>2, <1>3 DEF t2
LEMMA CallTypes ==
  ASSUME NEW th \in Threads, NEW n \in Int
  PROVE  LET f == [k |-> "call", L |-> th, nresults |-> n]
         IN  f \in Frames /\ f.L = th /\ f.k = "call" /\ CallsIn(f) = 0
BY DEF Frames, CallFrame, CallsIn

LEMMA CallEnds ==
  ASSUME NEW callers, NEW th, NEW t, At(callers, th, t), Last(callers).k \in CCode \cup {"execute", "pcall", "errormsg"},
         NEW func \in Int, NEW fn \in Callees, NEW nresults \in Int, luaD_call(th, t, callers, func, fn, nresults)
  PROVE  Goes
<1> DEFINE t1 == [t EXCEPT !.nCcalls = t.nCcalls + 1]
           f == [k |-> "call", L |-> th, nresults |-> nresults]
           cs == Append(callers, f)
<1>1. IsState(t) /\ th \in Threads /\ t.nCcalls \in Nat /\ callers \in Seq(Frames) /\ t.allowhook \in BOOLEAN BY AtFacts
<1>2. /\ IsState(t1) /\ SameFields(t, t1) /\ t1.ci = t.ci /\ t1.nCcalls = t.nCcalls + 1 /\ t1.allowhook = t.allowhook
      /\ SameCalls(t, t1)
  <2>1. t.nCcalls + 1 \in Nat BY <1>1
  <2> QED BY <1>1, <2>1, AddCcall
<1>3. f \in Frames /\ f.L = th /\ f.k = "call" /\ CallsIn(f) = 0 BY <1>1, CallTypes
<1>4. /\ t1.nCcalls = LUAI_MAXCCALLS => luaG_runerror(th, t1, cs)
      /\ t1.nCcalls >= LUAI_MAXCCALLS + ErrorCCalls /\ t1.nCcalls # LUAI_MAXCCALLS => luaD_throw(th, t1, cs, "errerr")
      /\ t1.nCcalls # LUAI_MAXCCALLS /\ ~ (t1.nCcalls >= LUAI_MAXCCALLS + ErrorCCalls) =>
           EnterNew(th, luaD_precall(t1, func, fn, nresults), cs)
  BY DEF luaD_call
<1>5. LUAI_MAXCCALLS \in Nat /\ ErrorCCalls \in Nat BY LimitsAssumption
<1> HIDE DEF t1, f
<1>6. ASSUME t1.nCcalls <= LUAI_MAXCCALLS + ErrorCCalls PROVE At(cs, th, t1)
  <2>1. StandsOn(f, Last(callers)) /\ NoContinue(f, Last(callers)) BY <1>3 DEF StandsOn, NoContinue
  <2>2. Calls(t, t1, 0, f) BY <1>1, <1>2, <1>3, CallsSame
  <2>3. Ready(Append(callers, f), th, t1) /\ Step(callers, Append(callers, f), {th})
    BY Zenon, <1>1, <1>2, <1>3, <1>6, <2>1, <2>2, AtFacts, PushFrame
  <2>4. t1.body = t.body BY <1>2 DEF SameFields
  <2> QED BY <2>3, <2>4, AtNext
<1>7. Last(cs) = f /\ cs \in Seq(Frames) /\ Starts(callers, cs)
  <2>1. Len(cs) = Len(callers) + 1 /\ Len(callers) \in Nat BY <1>1, <1>3
  <2>2. \A i \in 1..Len(callers) : cs[i] = callers[i] BY <1>1, <1>3
  <2>3. Last(cs) = f /\ cs \in Seq(Frames) BY <1>1, <1>3 DEF Last
  <2> QED BY <2>1, <2>2, <2>3 DEF Starts
<1> HIDE DEF cs
<1>8. CASE t1.nCcalls = LUAI_MAXCCALLS
  <2>1. At(cs, th, t1) BY <1>5, <1>6, <1>8
  <2> QED BY <1>3, <1>4, <1>7, <1>8, <2>1, Runerror
<1>9. CASE t1.nCcalls >= LUAI_MAXCCALLS + ErrorCCalls /\ t1.nCcalls # LUAI_MAXCCALLS
  <2>1. luaD_throw(th, t1, cs, "errerr") BY <1>4, <1>9
  <2>2. Throws(t, t1) BY <1>1, <1>2 DEF Throws
  <2>3. Ready(callers, th, t) /\ Step(cstack, callers, {th}) /\ cstack # <<>> BY DEF At
  <2>4. "errerr" \in Errors /\ IInv /\ Runner(th, t) BY DEF At
  <2> QED BY <1>7, <2>1, <2>2, <2>3, <2>4, Throw
<1>10. CASE t1.nCcalls # LUAI_MAXCCALLS /\ ~ (t1.nCcalls >= LUAI_MAXCCALLS + ErrorCCalls)
  <2>1. At(cs, th, t1) BY <1>1, <1>2, <1>5, <1>6, <1>10
  <2> DEFINE r == luaD_precall(t1, func, fn, nresults)
  <2>2. Precalled(t1, r, {"lua", "c"}) BY Zenon, <1>2, PrecallFacts
  <2>3. EnterNew(th, r, cs) BY <1>4, <1>10
  <2> HIDE DEF r
  <2>4. PICK K : K = {"lua", "c"} BY Zenon
  <2>5. Precalled(t1, r, K) /\ Last(cs).k = "call" BY <1>3, <1>7, <2>2, <2>4
  <2>6. K \subseteq {"lua", "c"} BY <2>4
  <2> QED BY Zenon, <2>1, <2>3, <2>5, <2>6, EnterNewEnds
<1> QED BY <1>8, <1>9, <1>10

(***************************************************************************)
(* luaD_poscall.                                                           *)
(***************************************************************************)
PoscallOn(th, first, lua) == [k |-> "poscall", L |-> th, first |-> first, lua |-> lua]
LEMMA PoscallTypes ==
  ASSUME NEW th \in Threads, NEW first \in Int, NEW lua \in BOOLEAN
  PROVE  LET f == PoscallOn(th, first, lua)
         IN  /\ f \in Frames /\ f.L = th /\ f.k = "poscall" /\ f.lua = lua /\ f.first = first
             /\ CallsIn(f) = (IF lua THEN 0 ELSE 1) /\ KindIn(f) = "c"
BY DEF PoscallOn, Frames, PoscallFrame, CallsIn, KindIn

(* The list of functions loses its last c.                                  *)
Left(t, t2, c) ==
  /\ IsState(t2) /\ SameFields(t, t2) /\ t2.nCcalls = t.nCcalls /\ t2.allowhook = t.allowhook
  /\ Len(t2.ci) = Len(t.ci) - c /\ \A j \in 1..Len(t2.ci) : Kind(t2.ci[j]) = Kind(t.ci[j])
LEMMA LeftSelf == ASSUME NEW t, IsState(t) PROVE Left(t, t, 0)
<1>1. Len(t.ci) \in Nat BY FieldTypes
<1> QED BY <1>1 DEF Left, SameFields
LEMMA PoscallFacts ==
  ASSUME NEW t, IsState(t), Len(t.ci) >= 2, NEW first \in Int
  PROVE  LET t1 == luaD_poscall(t, first) IN  /\ Left(t, t1, 1) /\ Keeps(t1, [t1 EXCEPT !.top = Ci(t1).top])
                                                /\ t1.base = Ci(t1).base
<1> DEFINE n == t.top - restorestack(t, first)
           wanted == IF Ci(t).nresults = LUA_MULTRET THEN n ELSE Ci(t).nresults
           rest == Front(t.ci)
           base == Last(rest).base
           top == Ci(t).func.at + wanted
           t1 == [t EXCEPT !.ci = rest, !.base = base, !.top = top]
<1>1. luaD_poscall(t, first) = t1 BY DEF luaD_poscall
<1>2. t.top \in Int /\ t.stack \in Int /\ t.ci \in Seq(CallInfo) /\ Len(t.ci) \in Nat \ {0} BY FieldTypes
<1>3. Ci(t).nresults \in Int /\ Ci(t).func.at \in Int BY LastCi, CiTypes
<1>4. n \in Int BY <1>2 DEF restorestack
<1> HIDE DEF n
<1>5. top \in Int BY <1>3, <1>4
<1>6. rest \in Seq(CallInfo) /\ Len(rest) = Len(t.ci) - 1 /\ \A i \in 1..(Len(t.ci) - 1) : rest[i] = t.ci[i]
  BY <1>2, FrontFacts
<1> HIDE DEF rest, top
<1>7. base \in Int
  <2>1. Len(rest) \in 1..Len(rest) BY <1>2, <1>6
  <2>2. Last(rest) \in CallInfo BY <1>6, <2>1 DEF Last
  <2> QED BY <2>2, CiTypes
<1>13. base = Last(rest).base OBVIOUS
<1> HIDE DEF base
<1>8. t1 \in LuaState /\ t1.ci = rest /\ t1.base = base BY Zenon, <1>5, <1>6, <1>7 DEF IsState, LuaState
<1>9. SameFields(t, t1) /\ t1.nCcalls = t.nCcalls /\ t1.allowhook = t.allowhook BY DEF IsState, LuaState, SameFields
<1> HIDE DEF t1
<1>10. IsState(t1)
  <2>1. rest # <<>> BY <1>2, <1>6
  <2> QED BY <1>8, <2>1 DEF IsState
<1>11. Left(t, t1, 1) BY <1>6, <1>8, <1>9, <1>10 DEF Left
<1>12. Ci(t1).top \in Int BY <1>10, LastCi, CiTypes
<1>14. t1.base = Ci(t1).base BY <1>8, <1>13 DEF Ci
<1> QED BY <1>1, <1>10, <1>11, <1>12, <1>14, SetTop

LEMMA FrontAppend ==
  ASSUME NEW cs \in Seq(Frames), NEW f \in Frames
  PROVE  /\ Front(Append(cs, f)) = cs /\ Last(Append(cs, f)) = f /\ Append(cs, f) \in Seq(Frames) /\ Append(cs, f) # <<>>
         /\ Len(Append(cs, f)) = Len(cs) + 1 /\ Append(cs, f)[Len(cs) + 1] = f /\ \A i \in 1..Len(cs) : Append(cs, f)[i] = cs[i]
<1> DEFINE s == Append(cs, f)
<1>1. /\ s \in Seq(Frames) /\ Len(s) = Len(cs) + 1 /\ s[Len(cs) + 1] = f /\ (\A i \in 1..Len(cs) : s[i] = cs[i])
      /\ Len(cs) \in Nat
  OBVIOUS
<1> HIDE DEF s
<1>2. Len(s) \in Nat \ {0} BY <1>1
<1>3. Front(s) \in Seq(Frames) /\ Len(Front(s)) = Len(s) - 1 /\ \A i \in 1..(Len(s) - 1) : Front(s)[i] = s[i]
  BY Zenon, <1>1, <1>2, FrontFacts
<1>4. Front(s) = cs
  <2>1. Len(Front(s)) = Len(cs) /\ \A i \in 1..Len(cs) : Front(s)[i] = cs[i] BY <1>1, <1>3
  <2> QED BY <1>3, <2>1
<1> QED BY <1>1, <1>2, <1>4 DEF Last, s

LEMMA AtPop ==
  ASSUME NEW cs, NEW th, NEW t, At(cs, th, t), Last(cs).k \notin {"resume", "pcall", "host", "hook", "call"},
         NoContinue(Last(cs), Last(Front(cs))), NEW t2, NEW c, c = CallsIn(Last(cs)), Left(t, t2, c)
  PROVE  At(Front(cs), th, t2)
<1>1. Ready(cs, th, t) /\ t.nCcalls \in Nat /\ t.allowhook \in BOOLEAN BY AtFacts
<1>3. /\ t2.nCcalls = t.nCcalls - (IF Last(cs).k = "call" THEN 1 ELSE 0)
      /\ t2.allowhook <=> t.allowhook \/ Last(cs).k = "hook"
  BY <1>1 DEF Left
<1>4. IsState(t2) /\ SameFields(t, t2) /\ Len(t2.ci) = Len(t.ci) - CallsIn(Last(cs)) /\ \A j \in 1..Len(t2.ci) : Kind(t2.ci[j]) = Kind(t.ci[j])
  BY DEF Left
<1>2. Ready(Front(cs), th, t2) /\ Step(cs, Front(cs), {th}) BY Zenon, <1>1, <1>3, <1>4, PopFrame
<1>5. t2.body = t.body BY <1>4 DEF SameFields
<1> QED BY <1>2, <1>5, AtNext

(* A thread has one function more than it has in the frames of the C stack  *)
(* when the first of them is its lua_resume.                               *)
LEMMA NoneBefore ==
  ASSUME NEW cs, cs \in Seq(Frames), NEW n \in 1..Len(cs), FrameAt(cs, n), cs[n].k = "resume", NEW th, th = cs[n].L
  PROVE  /\ CallsBelow(cs, th, n) = 0 /\ ~ Continuing(cs, n, th) /\ (\A j \in 1..(n - 1) : cs[j].L # th)
         /\ NoHook(cs, n, th) /\ (\A p \in 1..n : ~ IsPcall(cs[p], th)) /\ ResumeAt(cs, n)
<1>1. ResumeAt(cs, n) /\ \A j \in 1..(n - 1) : cs[j].L # th BY DEF FrameAt, ResumeAt
<1>2. CallsBelow(cs, th, n) = 0
  <2>1. CallsIn(cs[n]) = 0 BY DEF CallsIn
  <2>2. \A j \in 1..n : cs[j].L = th => j = n BY <1>1
  <2>3. CallSet(cs, th, n) = {} BY <2>1, <2>2 DEF CallSet
  <2> QED BY Zenon, <2>3, FS_EmptySet DEF CallsBelow, CallSet
<1>3. ~ Continuing(cs, n, th) BY <1>1 DEF Continuing, Resumes
<1>4. \A j \in 1..n : cs[j].L = th => j = n BY <1>1
<1>5. NoHook(cs, n, th) BY <1>4 DEF NoHook
<1>6. \A p \in 1..n : ~ IsPcall(cs[p], th) BY <1>4 DEF IsPcall
<1> QED BY <1>1, <1>2, <1>3, <1>5, <1>6

(* luaV_execute goes on for all the Lua functions of a coroutine.           *)
LEMMA ContinueRuns ==
  ASSUME NEW cs \in Seq(Frames), NEW pf \in Frames, NEW th, NEW t, Ready(Append(cs, pf), th, t), cs # <<>>,
         Last(cs).k = "resume", pf.k = "poscall", ~ pf.lua, NEW t2, Left(t, t2, 1)
  PROVE  Ready(Append(cs, Continue(th, t2)), th, t2) /\ Step(Append(cs, pf), Append(cs, Continue(th, t2)), {th})
<1> DEFINE old == Append(cs, pf)
           m == Len(cs)
           f == Continue(th, t2)
           new == Append(cs, f)
<1>1. /\ m \in Nat \ {0} /\ old \in Seq(Frames) /\ Len(old) = m + 1 /\ old[m + 1] = pf /\ (\A i \in 1..m : old[i] = cs[i])
      /\ Last(cs) = cs[m]
  BY DEF Last
<1>0. Ready(old, th, t) OBVIOUS
<1> HIDE DEF old, m
<1>2. /\ Ready(old, th, t) /\ StackOK(old) /\ IsState(t) /\ t.nCcalls = DepthAt(old, m + 1) /\ pf.L = th /\ th \in Threads
      /\ (t.allowhook <=> NoHook(old, m + 1, th)) /\ t.status = "ok" /\ DepthAt(old, m + 1) <= LUAI_MAXCCALLS + ErrorCCalls
      /\ t.allowhook \in BOOLEAN
  BY <1>0, <1>1, ReadyFacts
<1>3. FrameAt(old, m + 1) /\ FrameAt(old, m) /\ m \in 1..Len(old)
  <2>1. m + 1 \in 1..Len(old) /\ m \in 1..Len(old) BY <1>1
  <2> QED BY <1>2, <2>1 DEF StackOK
<1>4. old[m].k = "resume" /\ old[m].L = th
  <2>1. old[m] = cs[m] BY <1>1
  <2>2. old[m + 1].L = old[(m + 1) - 1].L /\ (m + 1) - 1 = m
    <3>1. m + 1 > 1 /\ old[m + 1].k # "resume" /\ (m + 1) - 1 = m BY <1>1
    <3> QED BY <1>3, <3>1 DEF FrameAt
  <2> QED BY <1>1, <1>2, <2>1, <2>2
<1>5. /\ CallsBelow(old, th, m) = 0 /\ ~ Continuing(old, m, th) /\ \A j \in 1..(m - 1) : old[j].L # th
  BY <1>1, <1>3, <1>4, NoneBefore
<1>6. CallsBelow(old, th, m + 1) = 1
  <2>1. CallsIn(old[m + 1]) = 1 /\ old[m + 1].L = th BY <1>1, <1>2 DEF CallsIn
  <2>2. m + 1 \in 1..Len(old) /\ (m + 1) - 1 = m BY <1>1
  <2>3. CallsBelow(old, th, m + 1) = CallsBelow(old, th, (m + 1) - 1) + (IF old[m + 1].L = th THEN CallsIn(old[m + 1]) ELSE 0)
    BY <1>1, <2>2, CallsBelowNext
  <2> QED BY <1>5, <2>1, <2>2, <2>3
<1> PICK b \in 1..Len(t.ci) : AgreesFrom(old, m + 1, t.ci, th, b) /\ Len(t.ci) = b + CallsBelow(old, th, m + 1)
  BY <1>1, <1>2 DEF Ready, Runs
<1>7. b > 1
  <2>1. Continuing(old, m + 1, th)
    <3>1. m \in 1..((m + 1) - 1) BY <1>1
    <3> QED BY <1>1, <1>4, <3>1 DEF Continuing, Resumes
  <2> QED BY <2>1 DEF AgreesFrom
<1>8. Len(t2.ci) = b /\ b \in Nat /\ IsState(t2)
  <2>1. Len(t.ci) \in Nat BY <1>2, FieldTypes
  <2> QED BY <1>6, <2>1 DEF Left
<1>9. f \in Frames /\ f.L = th /\ f.k = "execute" /\ f.nexeccalls = b - 1 /\ CallsIn(f) = b - 1 /\ KindIn(f) = "lua"
  <2>1. b - 1 \in Nat \ {0} BY <1>7, <1>8
  <2>2. f = Execute(th, b - 1, t2) BY <1>8 DEF Continue
  <2> QED BY <1>2, <1>8, <2>1, <2>2, ExecuteTypes
<1> HIDE DEF f
<1>10. new \in Seq(Frames) /\ Len(new) = m + 1 /\ new[m + 1] = f /\ (\A i \in 1..m : new[i] = cs[i]) BY <1>1, <1>9 DEF m
<1> HIDE DEF new
<1>11. \A i \in 1..m : new[i] = old[i] BY <1>1, <1>10
<1>12. SameUpTo(old, new, m) BY <1>1, <1>10, <1>11 DEF SameUpTo, Like
<1>13. DepthAt(new, m + 1) = DepthAt(old, m + 1)
  <2>0. m \in 0..m BY <1>1
  <2>1. DepthAt(new, m) = DepthAt(old, m) BY <1>1, <1>12, <2>0, SameCounts
  <2>2. m + 1 \in Nat \ {0} /\ (m + 1) - 1 = m BY <1>1
  <2>3. DepthAt(new, m + 1) = DepthAt(new, m) + 0 BY Zenon, <1>9, <1>10, <2>2, DepthNext
  <2>4. DepthAt(old, m + 1) = DepthAt(old, m) + 0 BY Zenon, <1>1, <2>2, DepthNext
  <2> QED BY <2>1, <2>3, <2>4
<1>14. OneFrame(old, new, m, th)
  <2>1. new[m] = old[m] /\ old[m].L = th /\ new[m + 1] = f BY <1>1, <1>4, <1>10, <1>11
  <2>2. Plain(old, m) /\ Plain(new, m) BY <1>1, <1>2, <1>9, <2>1 DEF Plain
  <2>3. Stands(new, m, th) BY <1>2, <1>4, <1>9, <1>13, <2>1 DEF Stands, StandsOn
  <2> QED BY <1>1, <1>10, <1>12, <2>2, <2>3 DEF OneFrame
<1>15. StackOK(new) /\ new # <<>> /\ th = new[Len(new)].L /\ WaitAt(new, Len(new)) /\ Step(old, new, {th})
  BY <1>2, <1>14, ChangeStack DEF Ready
<1>16. Protection(new, Len(new), t2, th) BY <1>2, <1>14, ChangeProtection DEF Ready, Left, SameFields
<1>17. CallsBelow(new, th, m) = 0 /\ CallsBelow(new, th, m + 1) = b - 1
  <2>1. CallsBelow(new, th, m) = 0 BY <1>1, <1>5, <1>12, SameCounts
  <2>2. m + 1 \in 1..Len(new) /\ (m + 1) - 1 = m BY <1>1, <1>10
  <2>3. CallsBelow(new, th, m + 1) = CallsBelow(new, th, (m + 1) - 1) + (IF new[m + 1].L = th THEN CallsIn(new[m + 1]) ELSE 0)
    BY <1>10, <2>2, CallsBelowNext
  <2> QED BY <1>8, <1>9, <1>10, <2>1, <2>2, <2>3
<1>18. AgreesFrom(new, m + 1, t2.ci, th, 1)
  <2>1. ASSUME NEW i \in 1..(m + 1), new[i].L = th PROVE FunctionsAt(new, i, t2.ci, th, 1)
    <3>1. i = m \/ i = m + 1
      <4>1. ASSUME i \in 1..(m - 1) PROVE FALSE
        <5>1. i \in 1..m BY <1>1, <4>1
        <5> QED BY <1>5, <1>11, <2>1, <4>1, <5>1
      <4> QED BY <1>1, <4>1
    <3>2. CASE i = m
      <4>1. new[i].k = "resume" BY <1>1, <1>4, <1>11, <3>2
      <4>2. CallsIn(new[i]) = 0 BY <4>1 DEF CallsIn
      <4> QED BY <4>1, <4>2 DEF FunctionsAt
    <3>3. CASE i = m + 1
      <4>1. CallsBelow(new, th, i - 1) = 0 /\ new[i] = f BY <1>1, <1>10, <1>17, <3>3
      <4>2. ASSUME NEW j \in 1..(b - 1) PROVE Kind(t2.ci[1 + 0 + j]) = "lua"
        <5>1. 1 + 0 + j \in 2..b /\ 1 + 0 + j \in 1..Len(t2.ci) BY <1>8
        <5>2. Kind(t2.ci[1 + 0 + j]) = Kind(t.ci[1 + 0 + j]) BY <5>1 DEF Left
        <5> QED BY <5>1, <5>2 DEF AgreesFrom
      <4> QED BY <1>9, <4>1, <4>2 DEF FunctionsAt
    <3> QED BY <3>1, <3>2, <3>3
  <2>2. ~ Continuing(new, m + 1, th)
    <3> SUFFICES ASSUME NEW r \in 1..((m + 1) - 1), Resumes(new[r], th), new[r + 1].k = "poscall" PROVE FALSE BY DEF Continuing
    <3>1. r \in 1..m /\ new[r].L = th BY <1>1 DEF Resumes
    <3>2. r = m
      <4>1. r \notin 1..(m - 1) BY <1>5, <1>11, <3>1
      <4> QED BY <1>1, <3>1, <4>1
    <3> QED BY <1>9, <1>10, <3>2
  <2>3. \A j \in 2..1 : FALSE OBVIOUS
  <2> QED BY <2>1, <2>2, <2>3 DEF AgreesFrom
<1>19. Runs(new, m + 1, t2, th)
  <2>1. Len(t2.ci) = 1 + CallsBelow(new, th, m + 1) /\ 1 \in 1..Len(t2.ci) BY <1>7, <1>8, <1>17
  <2>2. t2.status = "ok" /\ t2.nCcalls = DepthAt(new, m + 1) BY <1>2, <1>13 DEF Left, SameFields
  <2>3. t2.allowhook <=> NoHook(new, m + 1, th)
    <3>1. NoHook(new, m, th) <=> NoHook(old, m, th) BY <1>1, <1>12, SameSearches
    <3>2. NoHook(new, m + 1, th) <=> NoHook(new, m, th) BY <1>1, <1>9, <1>10 DEF NoHook
    <3>3. NoHook(old, m + 1, th) <=> NoHook(old, m, th) BY <1>1 DEF NoHook
    <3>4. t2.allowhook = t.allowhook BY DEF Left
    <3> QED BY <1>2, <3>1, <3>2, <3>3, <3>4
  <2> QED BY <1>18, <2>1, <2>2, <2>3 DEF Runs
<1>20. th = MainThread => t2.baseCcalls = 0 BY <1>2 DEF Ready, Placed, Left, SameFields
<1>21. Ready(new, th, t2) BY <1>8, <1>10, <1>15, <1>16, <1>19, <1>20 DEF Ready, Placed
<1> QED BY <1>15, <1>21 DEF old, new, f

(***************************************************************************)
(* What follows luaD_poscall, from the C stack cs with luaD_poscall on it.  *)
(***************************************************************************)
LEMMA AfterPosCallEnds ==
  ASSUME NEW cs \in Seq(Frames), NEW pf \in Frames, pf.k = "poscall", NEW th, NEW t, At(Append(cs, pf), th, t),
         NEW first \in Int, AfterPosCall(th, t, first, cs, pf.lua)
  PROVE  Goes
<1> DEFINE old == Append(cs, pf)
           g == Last(cs)
           t1 == luaD_poscall(t, first)
           t2 == IF Ci(t).nresults # LUA_MULTRET THEN [t1 EXCEPT !.top = Ci(t1).top] ELSE t1
<1>0. At(old, th, t) OBVIOUS
<1>1. Front(old) = cs /\ Last(old) = pf /\ old \in Seq(Frames) BY FrontAppend
<1>2. /\ pf.lua /\ g.nexeccalls = 1 => Become(th, t1, Front(cs))
      /\ pf.lua /\ g.nexeccalls > 1 /\ g.nexeccalls # 1 => Become(th, t2, Append(Front(cs), Execute(th, g.nexeccalls - 1, t2)))
      /\ ~ pf.lua /\ g.k = "execute" => Become(th, t2, Reloaded(cs, t2))
      /\ ~ pf.lua /\ g.k = "resume" => Become(th, t2, Append(cs, Continue(th, t2)))
      /\ ~ pf.lua /\ g.k \notin {"execute", "resume"} => Become(th, t1, cs)
  BY DEF AfterPosCall
<1> HIDE DEF old
<1>3. Ready(old, th, t) /\ IsState(t) /\ th \in Threads /\ t.nCcalls \in Nat /\ t.allowhook \in BOOLEAN BY <1>0, AtFacts
<1>4. /\ cs # <<>> /\ g \in Frames /\ Len(cs) \in Nat \ {0} /\ g = cs[Len(cs)] /\ StandsOn(pf, g)
  <2>1. cs # <<>> /\ StandsOn(pf, g) BY <1>1, <1>3, TopFrame
  <2> QED BY <2>1 DEF Last
<1>5. pf.lua \in BOOLEAN /\ (pf.lua => g.k = "execute") /\ (~ pf.lua => g.k \in {"call", "execute", "resume"})
  BY <1>4, FrameTypes DEF StandsOn
<1>6. CallsIn(pf) = IF pf.lua THEN 0 ELSE 1 BY DEF CallsIn
<1> HIDE DEF g
<1>7. CASE pf.lua
  <2>1. NoContinue(pf, g) BY <1>7 DEF NoContinue
  <2>2. Left(t, t, 0) BY <1>3, LeftSelf
  <2>3. At(cs, th, t)
    <3>1. PICK c : c = CallsIn(Last(old)) OBVIOUS
    <3>2. c = 0 BY <1>1, <1>6, <1>7, <3>1
    <3>3. Left(t, t, c) BY <2>2, <3>2
    <3>4. At(Front(old), th, t) BY <1>0, <1>1, <2>1, <3>1, <3>3, AtPop DEF g
    <3> QED BY <1>1, <3>4
  <2>4. PICK n : n = g.nexeccalls OBVIOUS
  <2>5. g.k = "execute" /\ CallsIn(g) = n /\ n \in Nat \ {0} /\ KindIn(g) = "lua"
    BY <1>4, <1>5, <1>7, <2>4, FrameTypes DEF CallsIn, KindIn
  <2>6. /\ Len(t.ci) - n >= 1 /\ Len(t.ci) \in Nat /\ \A m \in 1..n : Kind(t.ci[Len(t.ci) - n + m]) = "lua"
    <3>1. Ready(cs, th, t) BY <2>3, AtFacts
    <3>2. /\ Len(t.ci) - CallsIn(Last(cs)) >= 1 /\ Len(t.ci) \in Nat
          /\ \A m \in 1..CallsIn(Last(cs)) : Kind(t.ci[Len(t.ci) - CallsIn(Last(cs)) + m]) = KindIn(Last(cs))
      BY <3>1, TopKinds
    <3> QED BY <2>5, <3>2 DEF g
  <2>7. Len(t.ci) >= 2 BY <2>5, <2>6
  <2>8. Left(t, t1, 1) /\ Keeps(t1, [t1 EXCEPT !.top = Ci(t1).top]) BY <1>3, <2>7, PoscallFacts
  <2>14. t1.base = Ci(t1).base BY <1>3, <2>7, PoscallFacts
  <2>9. Left(t, t2, 1)
    <3> HIDE DEF t1
    <3>1. Keeps(t1, t2) BY <2>8, KeepsSelf DEF Left
    <3> HIDE DEF t2
    <3>2. Len(t1.ci) \in Nat /\ Len(t1.ci) = Len(t.ci) - 1 BY <2>8, FieldTypes DEF Left
    <3> QED BY <2>8, <3>1, <3>2 DEF Left, Keeps, SameControl, SameCalls, SameFields
  <2> HIDE DEF t1, t2
  <2>10. CASE n = 1
    <3>1. Become(th, t1, Front(cs)) BY <1>2, <1>7, <2>4, <2>10
    <3>2. NoContinue(Last(cs), Last(Front(cs))) /\ CallsIn(Last(cs)) = 1 /\ Last(cs).k = "execute" BY <2>5, <2>10 DEF NoContinue, g
    <3>3. At(Front(cs), th, t1)
      <4>1. PICK c : c = CallsIn(Last(cs)) OBVIOUS
      <4>2. Left(t, t1, c) BY <2>8, <3>2, <4>1
      <4> QED BY <2>3, <3>2, <4>1, <4>2, AtPop
    <3>4. AtBase(Front(cs), t1) BY <2>14 DEF AtBase
    <3> QED BY <3>1, <3>3, <3>4, AtEnd
  <2>11. CASE n > 1
    <3> DEFINE f == Execute(th, n - 1, t2)
    <3>1. Become(th, t2, Append(Front(cs), f)) BY <1>2, <1>7, <2>4, <2>11
    <3>2. f \in Frames /\ f.L = th /\ f.k = "execute" /\ CallsIn(f) = n - 1 /\ KindIn(f) = "lua"
      <4>1. PICK k : k = n - 1 OBVIOUS
      <4>2. k \in Nat \ {0} BY <2>5, <2>11, <4>1
      <4>3. IsState(t2) BY <2>9 DEF Left
      <4>4. f = Execute(th, k, t2) BY <4>1
      <4> HIDE DEF f
      <4>5. LET e == Execute(th, k, t2)
            IN  e \in Frames /\ e.L = th /\ e.k = "execute" /\ e.nexeccalls = k /\ CallsIn(e) = k /\ KindIn(e) = "lua"
        BY <1>3, <4>2, <4>3, ExecuteTypes
      <4> QED BY <4>1, <4>4, <4>5
    <3> HIDE DEF f
    <3>3. Ready(cs, th, t) /\ Last(cs).k = "execute" /\ CallsIn(Last(cs)) = n BY <2>3, <2>5, AtFacts DEF g
    <3>4. StandsOn(Last(cs), Last(Front(cs))) BY <3>3, TopFrame
    <3>5. StandsOn(f, Last(Front(cs))) BY <3>2, <3>3, <3>4 DEF StandsOn
    <3>6. NoContinue(f, Last(Front(cs))) BY <3>2 DEF NoContinue
    <3>7. Calls(t, t2, CallsIn(Last(cs)), f)
      <4>1. Len(t2.ci) = Len(t.ci) - 1 /\ \A j \in 1..Len(t2.ci) : Kind(t2.ci[j]) = Kind(t.ci[j]) BY Zenon, <2>9 DEF Left
      <4>2. Len(t2.ci) = Len(t.ci) - n + (n - 1) BY <2>5, <2>6, <4>1
      <4>3. \A j \in 1..(Len(t.ci) - n) : Kind(t2.ci[j]) = Kind(t.ci[j])
        <5>1. \A j \in 1..(Len(t.ci) - n) : j \in 1..Len(t2.ci) BY <2>5, <2>6, <4>1
        <5> QED BY <4>1, <5>1
      <4>4. \A j \in 1..(n - 1) : Kind(t2.ci[Len(t.ci) - n + j]) = "lua"
        <5>1. \A j \in 1..(n - 1) : j \in 1..n /\ Len(t.ci) - n + j \in 1..Len(t2.ci) BY <2>5, <2>6, <4>1
        <5> QED BY Zenon, <2>6, <4>1, <5>1
      <4> QED BY <3>2, <3>3, <4>2, <4>3, <4>4 DEF Calls
    <3>8. IsState(t2) /\ SameFields(t, t2) /\ t2.nCcalls = t.nCcalls /\ t2.allowhook = t.allowhook BY <2>9 DEF Left
    <3>9. Ready(Append(Front(cs), f), th, t2) /\ Step(cs, Append(Front(cs), f), {th})
      BY Zenon, <3>2, <3>3, <3>5, <3>6, <3>7, <3>8, ReplaceFrame
    <3>10. t2.body = t.body BY <3>8 DEF SameFields
    <3>11. At(Append(Front(cs), f), th, t2) BY <2>3, <3>9, <3>10, AtNext
    <3>12. Front(cs) \in Seq(Frames) BY <1>4, FrontFacts
    <3> QED BY <3>1, <3>2, <3>11, <3>12, AtPushed
  <2> QED BY <2>5, <2>10, <2>11
<1>8. CASE ~ pf.lua
  <2>1. Len(t.ci) >= 2
    <3>1. Len(t.ci) - CallsIn(Last(old)) >= 1 /\ Len(t.ci) \in Nat BY <1>3, TopKinds
    <3> QED BY <1>1, <1>6, <1>8, <3>1
  <2>2. Left(t, t1, 1) /\ Keeps(t1, [t1 EXCEPT !.top = Ci(t1).top]) BY <1>3, <2>1, PoscallFacts
  <2>3. Keeps(t1, t2) /\ IsState(t1)
    <3> HIDE DEF t1
    <3> QED BY <2>2, KeepsSelf DEF Left
  <2>4. Left(t, t2, 1)
    <3> HIDE DEF t1, t2
    <3>2. Len(t1.ci) \in Nat /\ Len(t1.ci) = Len(t.ci) - 1 BY <2>2, <2>3, FieldTypes DEF Left
    <3> QED BY <2>2, <2>3, <3>2 DEF Left, Keeps, SameControl, SameCalls, SameFields
  <2> HIDE DEF t1, t2
  <2>5. ASSUME g.k # "resume" PROVE At(cs, th, t1)
    <3>1. NoContinue(pf, g) BY <2>5 DEF NoContinue
    <3>2. PICK c : c = CallsIn(Last(old)) OBVIOUS
    <3>3. Left(t, t1, c) BY <1>1, <1>6, <1>8, <2>2, <3>2
    <3>4. At(Front(old), th, t1) BY <1>0, <1>1, <3>1, <3>2, <3>3, AtPop DEF g
    <3> QED BY <1>1, <3>4
  <2>6. CASE g.k = "execute"
    <3>1. Become(th, t2, Reloaded(cs, t2)) BY <1>2, <1>8, <2>6
    <3>2. At(cs, th, t2) BY <2>3, <2>5, <2>6, AtKeeps
    <3> QED BY <1>4, <2>6, <3>1, <3>2, ReloadEnds DEF g
  <2>7. CASE g.k = "call"
    <3>1. Become(th, t1, cs) BY <1>2, <1>8, <2>7
    <3> QED BY <2>5, <2>7, <3>1, AtPlain DEF g
  <2>8. CASE g.k = "resume"
    <3>1. Become(th, t2, Append(cs, Continue(th, t2))) BY <1>2, <1>8, <2>8
    <3>2. Ready(Append(cs, pf), th, t) BY <1>3 DEF old
    <3>3. Last(cs).k = "resume" BY <2>8 DEF g
    <3>4. Ready(Append(cs, Continue(th, t2)), th, t2) /\ Step(Append(cs, pf), Append(cs, Continue(th, t2)), {th})
      BY Zenon, <1>4, <1>8, <2>4, <3>2, <3>3, ContinueRuns
    <3>5. t2.body = t.body BY <2>4 DEF Left, SameFields
    <3>6. At(Append(cs, Continue(th, t2)), th, t2) BY <1>0, <3>4, <3>5, AtNext DEF old
    <3>7. Continue(th, t2).k # "resume" BY DEF Continue, Execute
    <3> QED BY <3>1, <3>6, <3>7, AtPushed
  <2> QED BY <1>5, <1>8, <2>6, <2>7, <2>8
<1> QED BY <1>5, <1>7, <1>8

LEMMA ReturnEnds ==
  ASSUME NEW cs \in Seq(Frames), NEW th \in Threads, NEW t, NEW lua \in BOOLEAN, NEW n \in Int, IsState(t),
         At(Append(cs, PoscallOn(th, savestack(t, t.top - n), lua)), th, t), Return(th, t, n, cs, lua)
  PROVE  Goes
<1> DEFINE first == savestack(t, t.top - n)
           pf == PoscallOn(th, first, lua)
           hf == HookFrame(th, t, "return")
<1>1. first \in Int BY FieldTypes DEF savestack
<1>2. pf \in Frames /\ pf.L = th /\ pf.k = "poscall" /\ pf.lua = lua BY <1>1, PoscallTypes
<1>3. hf \in Frames BY HookFrameTypes
<1>4. \/ AfterPosCall(th, t, first, cs, lua)
      \/ t.allowhook /\ Become(th, luaD_callhook(t), cs \o <<pf, hf>>)
  BY Zenon DEF Return, PoscallOn
<1> HIDE DEF first, pf, hf
<1>5. At(Append(cs, pf), th, t) BY DEF first, pf
<1>6. CASE AfterPosCall(th, t, first, cs, lua) BY <1>1, <1>2, <1>5, <1>6, AfterPosCallEnds
<1>7. CASE t.allowhook /\ Become(th, luaD_callhook(t), cs \o <<pf, hf>>)
  <2>1. Last(Append(cs, pf)) = pf BY <1>2, FrontAppend
  <2>2. At(Append(Append(cs, pf), hf), th, luaD_callhook(t)) BY <1>2, <1>5, <1>7, <2>1, HookRuns DEF hf
  <2>3. cs \o <<pf, hf>> = Append(Append(cs, pf), hf) BY <1>2, <1>3
  <2>4. Append(cs, pf) \in Seq(Frames) BY <1>2
  <2>5. hf.k # "resume" BY DEF hf, HookFrame
  <2>6. Become(th, luaD_callhook(t), Append(Append(cs, pf), hf)) BY Zenon, <1>7, <2>3
  <2> QED BY Zenon, <2>2, <2>4, <2>5, <2>6, AtPushed
<1> QED BY <1>4, <1>6, <1>7

(***************************************************************************)
(* lua_resume: the protected part.                                         *)
(***************************************************************************)
Started(f) == [f EXCEPT !.n = Done]
LEMMA StartedTypes ==
  ASSUME NEW f \in Frames, f.k = "resume"
  PROVE  /\ Started(f) \in Frames /\ Started(f).k = "resume" /\ Started(f).L = f.L /\ Started(f).from = f.from
         /\ Started(f).status = f.status /\ Started(f).previous = f.previous /\ Started(f).n = Done
<1>1. f \in ResumeFrame
  BY DEF Frames, Simple, ExecuteFrame, CallFrame, PcallFrames, ResumeFrame, ErrormsgFrame, HookFrames, PoscallFrame
<1>2. Started(f) \in ResumeFrame BY <1>1 DEF ResumeFrame, Started
<1> QED BY <1>1, <1>2 DEF Frames, ResumeFrame, Started

LEMMA StartedStack ==
  ASSUME NEW cs, StackOK(cs), NEW n \in Nat \ {0}, n = Len(cs), cs[n].k = "resume", cs[n].status = "ok",
         NEW new \in Seq(Frames), Len(new) = n, \A i \in 1..(n - 1) : new[i] = cs[i], new[n] = Started(cs[n]),
         NEW th, th = cs[n].L
  PROVE  StackOK(new) /\ Step(cs, new, {th}) /\ DepthAt(new, n) = DepthAt(cs, n)
<1>1. cs \in Seq(Frames) /\ n \in 1..Len(cs) /\ cs[n] \in Frames /\ FrameAt(cs, n) BY DEF StackOK
<1>2. /\ new[n].k = "resume" /\ new[n].L = th /\ new[n].from = cs[n].from /\ new[n].status = "ok"
      /\ new[n].previous = cs[n].previous /\ new[n].n = Done
  BY <1>1, StartedTypes
<1>3. \A j \in 1..n : new[j].k = cs[j].k /\ new[j].L = cs[j].L /\ (j < n => new[j] = cs[j])
  <2> SUFFICES ASSUME NEW j \in 1..n PROVE new[j].k = cs[j].k /\ new[j].L = cs[j].L /\ (j < n => new[j] = cs[j])
    OBVIOUS
  <2>1. CASE j = n BY <1>2, <2>1
  <2>2. CASE j # n
    <3>1. j \in 1..(n - 1) BY <2>2
    <3> QED BY <3>1
  <2> QED BY <2>1, <2>2
<1>4. SameUpTo(cs, new, n - 1) BY <1>1 DEF SameUpTo, Like
<1>5. DepthAt(new, n) = DepthAt(cs, n)
  <2>1. DepthSet(new, n) = DepthSet(cs, n) BY <1>3 DEF DepthSet
  <2> QED BY Zenon, <2>1 DEF DepthAt, DepthSet
<1>6. FrameAt(new, n)
  <2>1. n > 1
    <3>1. n # 1 BY <1>1 DEF FrameAt
    <3> QED BY <3>1
  <2>2. new[n - 1] = cs[n - 1] BY <2>1
  <2>3. StandsOn(new[n], new[n - 1]) BY <1>1, <1>2, <2>1, <2>2 DEF FrameAt, StandsOn
  <2>4. ResumeAt(new, n)
    <3>1. ResumeAt(cs, n) BY <1>1 DEF FrameAt
    <3> QED BY <1>2, <1>3, <2>2, <3>1 DEF ResumeAt
  <2>5. Segment(new, n)
    <3>1. Segment(cs, n) BY <1>1 DEF FrameAt
    <3> QED BY <1>3, <3>1 DEF Segment, Resumes
  <2>6. DepthAt(new, n) <= LUAI_MAXCCALLS + ErrorCCalls BY <1>1, <1>5 DEF FrameAt
  <2> QED BY <1>2, <2>1, <2>3, <2>4, <2>5, <2>6 DEF FrameAt
<1>7. StackOK(new)
  <2>1. ASSUME NEW i \in ((n - 1) + 1)..Len(new) PROVE FrameAt(new, i)
    <3>1. i = n BY <2>1
    <3> QED BY <1>6, <3>1
  <2>2. ASSUME NEW i \in 1..(Len(new) - 1), i >= n - 1 PROVE WaitAt(new, i)
    <3>1. i \in 1..Len(cs) /\ i < Len(cs) /\ i \in 1..(n - 1) BY <2>2
    <3>2. WaitAt(cs, i) BY <3>1 DEF StackOK
    <3> QED BY <1>4, <3>1, <3>2, SameFrame
  <2> QED BY <1>4, <2>1, <2>2, StackStep
<1>9. Step(cs, new, {th})
  <2>1. Above(cs, n - 1, {th}) /\ Above(new, n - 1, {th})
    <3>1. \A i \in ((n - 1) + 1)..n : i = n OBVIOUS
    <3> QED BY <1>2, <3>1 DEF Above
  <2> QED BY <1>4, <2>1 DEF Step
<1> QED BY <1>5, <1>7, <1>9
LEMMA StartedProtection ==
  ASSUME NEW cs \in Seq(Frames), NEW n \in Nat \ {0}, n = Len(cs), cs[n].k = "resume",
         NEW new \in Seq(Frames), Len(new) = n, \A i \in 1..(n - 1) : new[i] = cs[i], new[n] = Started(cs[n]),
         NEW th, NEW t, Protection(cs, n, t, th)
  PROVE  Protection(new, n, t, th)
<1>1. cs[n] \in Frames OBVIOUS
<1>2. new[n].k = "resume" /\ new[n].L = cs[n].L BY <1>1, StartedTypes
<1>3. \A j \in 1..n : new[j].k = cs[j].k /\ new[j].L = cs[j].L /\ (j < n => new[j] = cs[j])
  <2> SUFFICES ASSUME NEW j \in 1..n PROVE new[j].k = cs[j].k /\ new[j].L = cs[j].L /\ (j < n => new[j] = cs[j])
    OBVIOUS
  <2>1. CASE j = n BY <1>2, <2>1
  <2>2. CASE j # n
    <3>1. j \in 1..(n - 1) BY <2>2
    <3> QED BY <3>1
  <2> QED BY <2>1, <2>2
<1>4. LastProtected(new, n, th, t.errorJmp)
  <2>1. \A j \in 1..n : Protects(new[j], th) <=> Protects(cs[j], th) BY <1>3 DEF Protects
  <2>2. LastProtected(cs, n, th, t.errorJmp) BY DEF Protection
  <2>3. t.errorJmp # 0 => Protects(new[t.errorJmp], th)
    <3>1. t.errorJmp # 0 => t.errorJmp \in 1..n BY <2>2 DEF LastProtected
    <3> QED BY <2>1, <2>2, <3>1 DEF LastProtected
  <2>4. t.errorJmp \in 0..n BY <2>2 DEF LastProtected
  <2>5. \A j \in (t.errorJmp + 1)..n : j \in 1..n BY <2>4
  <2> QED BY <2>1, <2>2, <2>3, <2>4, <2>5 DEF LastProtected
<1>5. HandlerIn(new, n, th, t.errfunc)
  <2>1. HandlerIn(cs, n, th, t.errfunc) BY DEF Protection
  <2>2. \A j \in 1..n : IsPcall(new[j], th) <=> IsPcall(cs[j], th) BY <1>3 DEF IsPcall
  <2>3. \A j \in 1..n : IsPcall(cs[j], th) => new[j] = cs[j]
    <3> SUFFICES ASSUME NEW j \in 1..n, IsPcall(cs[j], th) PROVE new[j] = cs[j] OBVIOUS
    <3>1. j # n BY DEF IsPcall
    <3>2. j < n BY <3>1
    <3> QED BY <1>3, <3>2
  <2> QED BY <2>1, <2>2, <2>3 DEF HandlerIn
<1>6. \A r \in 1..n : Resumes(new[r], th) => t.baseCcalls = DepthAt(new, r)
  <2> SUFFICES ASSUME NEW r \in 1..n, Resumes(new[r], th) PROVE t.baseCcalls = DepthAt(new, r) OBVIOUS
  <2>1. Resumes(cs[r], th) BY <1>3 DEF Resumes
  <2>2. DepthSet(new, r) = DepthSet(cs, r) BY <1>3 DEF DepthSet
  <2>3. DepthAt(new, r) = DepthAt(cs, r) BY Zenon, <2>2 DEF DepthAt, DepthSet
  <2> QED BY <2>1, <2>3 DEF Protection
<1> QED BY <1>4, <1>5, <1>6 DEF Protection

ProtectionKept(cs, new, n, th) == \A t : Protection(cs, n, t, th) => Protection(new, n, t, th)
StartsTop(cs0, cs, n, th) ==
  /\ StackOK(cs0) /\ cs0 # <<>> /\ Last(cs0).k = "resume" /\ Last(cs0).status = "ok" /\ n \in Nat \ {0} /\ n = Len(cs0)
  /\ cs = Append(Front(cs0), Started(Last(cs0))) /\ th = Last(cs0).L
LEMMA StartedTop ==
  ASSUME NEW cs0, NEW cs, NEW n, NEW th, StartsTop(cs0, cs, n, th)
  PROVE  /\ n \in Nat \ {0} /\ cs \in Seq(Frames) /\ Len(cs) = n /\ cs # <<>> /\ Last(cs) = cs[n]
         /\ StackOK(cs) /\ WaitAt(cs, n) /\ cs[n].k = "resume" /\ cs[n].L = th /\ Step(cs0, cs, {th}) /\ FrameAt(cs, n)
         /\ DepthAt(cs, n) = DepthAt(cs0, n)
         /\ ProtectionKept(cs0, cs, n, th)
<1> USE DEF StartsTop
<1>1. cs0 \in Seq(Frames) /\ n \in Nat \ {0} /\ Last(cs0) = cs0[n] /\ cs0[n] \in Frames BY DEF StackOK, Last
<1> DEFINE f == Started(Last(cs0))
<1>2. f \in Frames BY <1>1, StartedTypes
<1>3. Front(cs0) \in Seq(Frames) /\ Len(Front(cs0)) = n - 1 /\ \A i \in 1..(n - 1) : Front(cs0)[i] = cs0[i]
  BY <1>1, FrontFacts
<1>4. f = Started(cs0[n]) BY <1>1
<1> HIDE DEF f
<1>5. cs = Append(Front(cs0), f) BY DEF f
<1>6. cs \in Seq(Frames) /\ Len(cs) = n /\ cs[n] = f /\ (\A i \in 1..(n - 1) : cs[i] = cs0[i]) /\ cs # <<>> /\ Last(cs) = cs[n]
  BY <1>1, <1>2, <1>3, <1>5 DEF Last
<1>7. StackOK(cs) /\ Step(cs0, cs, {th}) /\ DepthAt(cs, n) = DepthAt(cs0, n) BY ZenonT(40), <1>1, <1>4, <1>6, StartedStack
<1>10. cs[n].k = "resume" /\ cs[n].L = th /\ WaitAt(cs, n)
  <2>1. cs0[n].k = "resume" /\ cs0[n].L = th /\ cs0[n].status = "ok" BY <1>1
  <2>2. cs[n] = Started(cs0[n]) BY <1>4, <1>6
  <2>3. /\ Started(cs0[n]).k = "resume" /\ Started(cs0[n]).L = cs0[n].L /\ Started(cs0[n]).status = cs0[n].status
        /\ Started(cs0[n]).n = Done
    BY <1>1, <2>1, StartedTypes
  <2>4. cs[n].k = "resume" /\ cs[n].L = cs0[n].L /\ cs[n].status = cs0[n].status /\ cs[n].n = Done BY <2>2, <2>3
  <2> QED BY <2>1, <2>4 DEF WaitAt
<1>11. ASSUME NEW t, Protection(cs0, n, t, th) PROVE Protection(cs, n, t, th)
  <2>1. cs0[n].k = "resume" /\ cs[n] = Started(cs0[n]) BY <1>1, <1>4, <1>6
  <2> QED BY Zenon, <1>1, <1>6, <1>11, <2>1, StartedProtection
<1>8. n \in 1..Len(cs) BY <1>1, <1>6
<1>9. FrameAt(cs, n) BY <1>7, <1>8 DEF StackOK
<1> QED BY <1>1, <1>6, <1>7, <1>9, <1>10, <1>11 DEF ProtectionKept

(* A coroutine starts or goes on: cs is the C stack, n its length.          *)
LEMMA Resumed ==
  ASSUME IInv, cstack # <<>>, F.k = "resume", F.n # Done, NEW cs, cs = Append(Callers, [F EXCEPT !.n = Done])
  PROVE  /\ L \in Threads /\ IsState(l) /\ l.status \in {"ok", "yield"} /\ Suspended(l) /\ cs \in Seq(Frames) /\ cs # <<>>
         /\ Last(cs) = cs[Len(cs)] /\ Len(cs) \in Nat \ {0} /\ Last(cs).k = "resume" /\ Last(cs).L = L /\ FrameAt(cs, Len(cs))
         /\ l.nCcalls = DepthAt(cs, Len(cs)) /\ Step(cstack, cs, {L})
         /\ \A t : IsState(t) /\ t.errfunc = l.errfunc /\ t.errorJmp = l.errorJmp /\ t.baseCcalls = l.baseCcalls => Placed(cs, L, t)
<1> DEFINE n == Len(cstack)
<1>1. StackOK(cstack) /\ \A th \in Threads : IsState(lstate[th]) /\ ThreadOK(cstack, lstate[th], th)
  BY DEF IInv, Good
<1>2. cstack \in Seq(Frames) /\ n \in Nat \ {0} BY <1>1 DEF StackOK
<1>3. F = cstack[n] /\ F \in Frames BY <1>2 DEF F, Last
<1>4. L \in Threads /\ L = cstack[n].L BY <1>3, FrameTypes DEF L
<1>5. IsTop(cstack, n, L) BY <1>2, <1>4 DEF IsTop
<1>6. ThreadAt(cstack, n, l, L) /\ (L = MainThread => l.baseCcalls = 0) BY SMTT(30), <1>1, <1>2, <1>4, <1>5 DEF ThreadOK, l
<1>7. Protection(cstack, n, l, L) /\ AtResume(cstack, n, l) BY <1>3, <1>6 DEF ThreadAt
<1>8. F.status = "ok"
  <2>1. ResumeAt(cstack, n)
    <3>1. FrameAt(cstack, n) BY <1>1, <1>2 DEF StackOK
    <3> QED BY <1>3, <3>1 DEF FrameAt
  <2> QED BY <1>3, <2>1 DEF ResumeAt
<1>9. IsState(l) BY <1>1, <1>4 DEF l
<1>10. /\ n \in Nat \ {0} /\ cs \in Seq(Frames) /\ Len(cs) = n /\ cs # <<>> /\ Last(cs) = cs[n]
       /\ StackOK(cs) /\ WaitAt(cs, n) /\ cs[n].k = "resume" /\ cs[n].L = L /\ Step(cstack, cs, {L}) /\ FrameAt(cs, n)
       /\ DepthAt(cs, n) = DepthAt(cstack, n)
       /\ ProtectionKept(cstack, cs, n, L)
  <2>1. cs = Append(Front(cstack), Started(Last(cstack))) /\ L = Last(cstack).L BY DEF Callers, F, L, Started
  <2>2. Last(cstack).k = "resume" /\ Last(cstack).status = "ok" BY <1>8 DEF F
  <2>3. StackOK(cstack) BY <1>1
  <2>4. StartsTop(cstack, cs, n, L) BY <1>2, <2>1, <2>2, <2>3 DEF StartsTop
  <2> HIDE DEF n
  <2> QED BY ZenonT(40), <2>4, StartedTop
<1> HIDE DEF n
<1>16. l.status \in {"ok", "yield"} /\ Suspended(l) /\ l.nCcalls = DepthAt(cs, n) BY <1>3, <1>7, <1>8, <1>10 DEF AtResume
<1>18. ASSUME NEW t, IsState(t), t.errfunc = l.errfunc, t.errorJmp = l.errorJmp, t.baseCcalls = l.baseCcalls PROVE Placed(cs, L, t)
  <2>1. Protection(cstack, n, t, L) BY <1>7, <1>18 DEF Protection
  <2>2. Protection(cs, n, t, L) BY <1>10, <2>1 DEF ProtectionKept
  <2> QED BY <1>6, <1>10, <1>18, <2>2 DEF Placed
<1> QED BY Zenon, <1>4, <1>9, <1>10, <1>16, <1>18

LEMMA StartReady ==
  ASSUME NEW cs, NEW th, NEW t, Placed(cs, th, t), Last(cs).k = "resume", t.status = "ok", Suspended(t),
         t.nCcalls = DepthAt(cs, Len(cs))
  PROVE  Ready(cs, th, t)
<1> DEFINE n == Len(cs)
<1>1. /\ StackOK(cs) /\ cs # <<>> /\ cs \in Seq(Frames) /\ n \in Nat \ {0} /\ th = cs[n].L /\ IsState(t) /\ FrameAt(cs, n)
      /\ Last(cs) = cs[n] /\ cs[n].k = "resume" /\ n \in 1..Len(cs)
  BY DEF Placed, StackOK, Last
<1>2. CallsBelow(cs, th, n) = 0 /\ ~ Continuing(cs, n, th) /\ (\A j \in 1..(n - 1) : cs[j].L # th) /\ NoHook(cs, n, th)
  BY <1>1, NoneBefore
<1>3. Len(t.ci) = 1 /\ t.allowhook = TRUE BY <1>1, FieldTypes DEF Suspended
<1>4. AgreesFrom(cs, n, t.ci, th, 1)
  <2>1. ASSUME NEW i \in 1..n, cs[i].L = th PROVE FunctionsAt(cs, i, t.ci, th, 1)
    <3>1. i = n
      <4>1. ~ (i \in 1..(n - 1)) BY <1>2, <2>1
      <4> QED BY <1>1, <4>1
    <3>2. CallsIn(cs[i]) = 0 BY <1>1, <3>1 DEF CallsIn
    <3> QED BY <1>1, <3>1, <3>2 DEF FunctionsAt
  <2> QED BY <1>2, <2>1 DEF AgreesFrom
<1>5. Runs(cs, n, t, th)
  <2>1. 1 \in 1..Len(t.ci) /\ Len(t.ci) = 1 + CallsBelow(cs, th, n) BY <1>2, <1>3
  <2> QED BY <1>2, <1>3, <1>4, <2>1 DEF Runs
<1> QED BY <1>5 DEF Ready

LEMMA GoesOn ==
  ASSUME NEW cs, NEW th, NEW t, Placed(cs, th, t), Last(cs).k = "resume", t.status = "ok", Yielded(t.ci), t.allowhook,
         t.nCcalls = DepthAt(cs, Len(cs)), NEW f \in Frames, f.L = th, f.k = "poscall", ~ f.lua
  PROVE  Ready(Append(cs, f), th, t) /\ Step(cs, Append(cs, f), {th})
<1> DEFINE n == Len(cs)
           new == Append(cs, f)
           b == Len(t.ci) - 1
<1>1. /\ StackOK(cs) /\ cs # <<>> /\ cs \in Seq(Frames) /\ n \in Nat \ {0} /\ th = cs[n].L /\ IsState(t) /\ FrameAt(cs, n)
      /\ Last(cs) = cs[n] /\ cs[n].k = "resume" /\ n \in 1..Len(cs) /\ (th = MainThread => t.baseCcalls = 0)
  BY DEF Placed, StackOK, Last
<1>2. CallsBelow(cs, th, n) = 0 /\ ~ Continuing(cs, n, th) /\ (\A j \in 1..(n - 1) : cs[j].L # th) /\ NoHook(cs, n, th)
  BY <1>1, NoneBefore
<1>3. new \in Seq(Frames) /\ Len(new) = n + 1 /\ new[n + 1] = f /\ (\A i \in 1..n : new[i] = cs[i]) /\ new # <<>>
  BY <1>1, FrontAppend
<1>4. SameUpTo(cs, new, n) BY <1>1, <1>3 DEF SameUpTo, Like
<1>5. n + 1 \in Nat \ {0} /\ (n + 1) - 1 = n /\ n + 1 \in 1..Len(new) /\ n \in 0..n /\ n \in 1..n BY <1>1, <1>3
<1>6. DepthAt(new, n) = DepthAt(cs, n) /\ CallsBelow(new, th, n) = 0 BY <1>2, <1>4, <1>5, SameCounts
<1>7. DepthAt(new, n + 1) = DepthAt(cs, n)
  <2>1. DepthAt(new, n + 1) = DepthAt(new, (n + 1) - 1) + (IF new[n + 1].k \in {"call", "resume"} THEN 1 ELSE 0)
    BY Zenon, <1>5, DepthNext
  <2>2. DepthAt(cs, n) \in Nat BY <1>1, DepthType
  <2> QED BY <1>3, <1>5, <1>6, <2>1, <2>2
<1>8. CallsBelow(new, th, n + 1) = 1
  <2>1. CallsBelow(new, th, n + 1) = CallsBelow(new, th, (n + 1) - 1) + (IF new[n + 1].L = th THEN CallsIn(new[n + 1]) ELSE 0)
    BY ZenonT(40), <1>3, <1>5, CallsBelowNext
  <2>2. CallsIn(f) = 1 BY DEF CallsIn
  <2> QED BY <1>3, <1>5, <1>6, <2>1, <2>2
<1> HIDE DEF n, new
<1>9. OneFrame(cs, new, n, th)
  <2>1. Plain(cs, n) BY DEF Plain, n
  <2>2. Plain(new, n) BY <1>1, <1>3, <1>5 DEF Plain
  <2>3. Stands(new, n, th)
    <3>1. StandsOn(new[n + 1], new[n]) BY <1>1, <1>3, <1>5 DEF StandsOn
    <3>2. DepthAt(cs, n) <= LUAI_MAXCCALLS + ErrorCCalls BY <1>1 DEF FrameAt
    <3> QED BY <1>3, <1>7, <3>1, <3>2 DEF Stands
  <2> QED BY <1>1, <1>3, <1>4, <2>1, <2>2, <2>3 DEF OneFrame, n
<1>10. StackOK(new) /\ new # <<>> /\ th = new[Len(new)].L /\ WaitAt(new, Len(new)) /\ Step(cs, new, {th}) BY Zenon, <1>9, ChangeStack
<1>11. Protection(new, Len(new), t, th) BY <1>9, ChangeProtection
<1>12. NoHook(new, n + 1, th)
  <2> SUFFICES ASSUME NEW j \in 1..(n + 1) PROVE ~ (new[j].k = "hook" /\ new[j].L = th) BY DEF NoHook
  <2>1. CASE j = n + 1 BY <1>3, <2>1
  <2>2. CASE j # n + 1
    <3>1. j \in 1..n BY <1>1, <2>2
    <3> QED BY <1>2, <1>3, <3>1 DEF NoHook
  <2> QED BY <2>1, <2>2
<1>13. Len(t.ci) \in Nat /\ b \in 1..Len(t.ci) /\ b > 1 /\ Len(t.ci) = b + 1 /\ Kind(t.ci[b + 1]) = "c"
       /\ \A j \in 2..b : Kind(t.ci[j]) = "lua"
  BY <1>1, FieldTypes DEF Yielded
<1> HIDE DEF b
<1>14. Continuing(new, n + 1, th)
  <2>1. n \in 1..((n + 1) - 1) /\ Resumes(new[n], th) BY <1>1, <1>3, <1>5 DEF Resumes
  <2> QED BY <1>3, <2>1 DEF Continuing
<1>15. AgreesFrom(new, n + 1, t.ci, th, b)
  <2>1. ASSUME NEW i \in 1..(n + 1), new[i].L = th PROVE FunctionsAt(new, i, t.ci, th, b)
    <3>1. i = n \/ i = n + 1
      <4>1. ~ (i \in 1..(n - 1))
        <5> SUFFICES ASSUME i \in 1..(n - 1) PROVE FALSE OBVIOUS
        <5>1. i \in 1..n BY <1>1
        <5> QED BY <1>2, <1>3, <2>1, <5>1
      <4> QED BY <1>1, <4>1
    <3>2. CASE i = n
      <4>1. CallsIn(new[i]) = 0 /\ new[i].k = "resume" BY <1>1, <1>3, <1>5, <3>2 DEF CallsIn
      <4> QED BY <4>1 DEF FunctionsAt
    <3>3. CASE i = n + 1
      <4>1. CallsIn(new[i]) = 1 /\ KindIn(new[i]) = "c" /\ new[i].k = "poscall" BY <1>3, <3>3 DEF CallsIn, KindIn
      <4>2. CallsBelow(new, th, i - 1) = 0 BY <1>5, <1>6, <3>3
      <4>3. \A m \in 1..1 : Kind(t.ci[b + 0 + m]) = "c" BY <1>13
      <4> QED BY <4>1, <4>2, <4>3 DEF FunctionsAt
    <3> QED BY <3>1, <3>2, <3>3
  <2> QED BY <1>13, <1>14, <2>1 DEF AgreesFrom
<1>16. Runs(new, Len(new), t, th)
  <2>1. Len(t.ci) = b + CallsBelow(new, th, n + 1) BY <1>8, <1>13
  <2>2. t.nCcalls = DepthAt(new, n + 1) BY <1>7 DEF n
  <2>3. Len(new) = n + 1 BY <1>3
  <2> QED BY <1>12, <1>13, <1>15, <2>1, <2>2, <2>3 DEF Runs
<1> QED BY <1>1, <1>10, <1>11, <1>16 DEF Ready, Placed, new

LEMMA SetBody ==
  ASSUME NEW t, IsState(t), NEW b \in Bodies, NEW t2, t2 = [t EXCEPT !.body = b]
  PROVE  /\ IsState(t2) /\ t2.ci = t.ci /\ t2.status = t.status /\ t2.nCcalls = t.nCcalls /\ t2.errfunc = t.errfunc
         /\ t2.allowhook = t.allowhook /\ t2.baseCcalls = t.baseCcalls /\ t2.errorJmp = t.errorJmp /\ t2.body = b
         /\ t2.top = t.top /\ t2.base = t.base /\ t2.stack = t.stack
<1>1. t2 \in LuaState BY Zenon DEF IsState, LuaState
<1> QED BY Zenon, <1>1 DEF IsState, LuaState

(* A coroutine starts, or goes on from its yield.                           *)
LEMMA ResumeStep ==
  ASSUME IInv, resume
  PROVE  Goes
<1> DEFINE cs == Append(Callers, [F EXCEPT !.n = Done])
           t1 == [l EXCEPT !.body = NoBody]
           t == [l EXCEPT !.status = "ok"]
           firstArg == l.top - F.n
           r == luaD_precall(t1, savestack(l, firstArg - 1), l.body, LUA_MULTRET)
<1>1. cstack # <<>> /\ F.k = "resume" /\ F.n # Done BY DEF resume
<1>2. PICK cs1 : cs1 = cs BY Zenon
<1>3. /\ L \in Threads /\ IsState(l) /\ l.status \in {"ok", "yield"} /\ Suspended(l) /\ cs1 \in Seq(Frames) /\ cs1 # <<>>
      /\ Last(cs1) = cs1[Len(cs1)] /\ Len(cs1) \in Nat \ {0} /\ Last(cs1).k = "resume" /\ Last(cs1).L = L /\ FrameAt(cs1, Len(cs1))
      /\ l.nCcalls = DepthAt(cs1, Len(cs1)) /\ Step(cstack, cs1, {L})
      /\ \A u : IsState(u) /\ u.errfunc = l.errfunc /\ u.errorJmp = l.errorJmp /\ u.baseCcalls = l.baseCcalls => Placed(cs1, L, u)
  BY Zenon, <1>1, <1>2, Resumed
<1>4. F \in Frames /\ F.n \in Int
  <2>1. cstack \in Seq(Frames) BY <1>1 DEF IInv, Good, StackOK
  <2>2. F \in Frames BY <1>1, <2>1 DEF F, Last
  <2> QED BY <1>1, <2>2, FrameTypes
<1>5. /\ l.status = "ok" => EnterNew(L, r, cs1)
      /\ l.status = "yield" => Return(L, t, F.n, cs1, FALSE)
  BY Zenon, <1>2, <1>3 DEF resume
<1>6. savestack(l, firstArg - 1) \in Int /\ l.body \in Bodies
  BY <1>3, <1>4, FieldTypes DEF savestack
<1>7. CASE l.status = "ok"
  <2>1. /\ IsState(t1) /\ t1.ci = l.ci /\ t1.status = l.status /\ t1.nCcalls = l.nCcalls /\ t1.errfunc = l.errfunc
        /\ t1.allowhook = l.allowhook /\ t1.baseCcalls = l.baseCcalls /\ t1.errorJmp = l.errorJmp /\ t1.body = NoBody
    <3>1. PICK b \in Bodies : b = NoBody BY Zenon DEF Bodies
    <3>2. t1 = [l EXCEPT !.body = b] BY <3>1
    <3> HIDE DEF t1
    <3> QED BY <1>3, <3>1, <3>2, SetBody
  <2> HIDE DEF t1
  <2>2. Placed(cs1, L, t1) BY <1>3, <2>1
  <2>3. Suspended(t1) BY <1>3, <2>1 DEF Suspended
  <2>4. Ready(cs1, L, t1) BY <1>3, <1>7, <2>1, <2>2, <2>3, StartReady
  <2>5. At(cs1, L, t1) BY <1>1, <1>3, <2>1, <2>4 DEF At, Runner
  <2>6. l.body \in Callees /\ LUA_MULTRET \in Int BY <1>6 DEF Callees
  <2>7. Precalled(t1, r, {"lua"}) BY Zenon, <1>6, <2>1, <2>6, PrecallFacts
  <2> HIDE DEF r
  <2>8. PICK K : K = {"lua"} BY Zenon
  <2>9. K \subseteq {"lua", "c"} /\ "c" \notin K /\ Precalled(t1, r, K) BY <2>7, <2>8
  <2> QED BY <1>3, <1>5, <1>7, <2>5, <2>9, EnterNewEnds
<1>8. CASE l.status = "yield"
  <2>1. IsState(t) /\ t.ci = l.ci /\ t.status = "ok" /\ t.nCcalls = l.nCcalls /\ t.errfunc = l.errfunc
        /\ t.allowhook = l.allowhook /\ t.baseCcalls = l.baseCcalls /\ t.errorJmp = l.errorJmp
    BY ZenonT(40), <1>3, SetStatus
  <2>9. t.body = l.body BY <1>3 DEF IsState, LuaState
  <2> HIDE DEF t
  <2>2. Placed(cs1, L, t) BY <1>3, <2>1
  <2>3. Yielded(t.ci) /\ t.allowhook BY <1>3, <1>8, <2>1 DEF Suspended
  <2>4. PICK f : f = PoscallOn(L, savestack(t, t.top - F.n), FALSE) BY Zenon
  <2>5. f \in Frames /\ f.L = L /\ f.k = "poscall" /\ f.lua = FALSE
    <3>1. savestack(t, t.top - F.n) \in Int BY <1>4, <2>1, FieldTypes DEF savestack
    <3>2. PICK x \in Int, no \in BOOLEAN : x = savestack(t, t.top - F.n) /\ no = FALSE BY <3>1
    <3>3. f = PoscallOn(L, x, no) /\ L \in Threads BY <1>3, <2>4, <3>2
    <3> QED BY <3>2, <3>3, PoscallTypes
  <2>6. Ready(Append(cs1, f), L, t) /\ Step(cs1, Append(cs1, f), {L}) BY Zenon, <1>3, <2>1, <2>2, <2>3, <2>5, GoesOn
  <2>7. At(Append(cs1, f), L, t) BY <1>1, <1>3, <2>6, <2>9, StepTrans DEF At, Runner
  <2> QED BY Zenon, <1>3, <1>4, <1>5, <1>8, <2>1, <2>4, <2>7, ReturnEnds
<1> QED BY <1>3, <1>7, <1>8

(***************************************************************************)
(* luaD_pcall.                                                             *)
(***************************************************************************)
(* The thread goes from t to t2 when its pcall frame f goes onto cs.        *)
StartsPcall(cs, th, t, f, t2) ==
  /\ f \in Frames /\ f.k = "pcall" /\ f.L = th /\ f.status = "ok" /\ f.previous = t.errorJmp /\ f.nCcalls = t.nCcalls
  /\ f.allowhook = t.allowhook /\ f.errfunc = t.errfunc /\ f.ci = Len(t.ci)
  /\ IsState(t2) /\ SameCalls(t, t2) /\ t2.status = t.status /\ t2.nCcalls = t.nCcalls /\ t2.allowhook = t.allowhook
  /\ t2.baseCcalls = t.baseCcalls /\ t2.errorJmp = Len(cs) + 1
  /\ t2.errfunc.at # 0 => t2.errfunc.at = f.old_top - 1

LEMMA PcallFrameAt ==
  ASSUME NEW cs, NEW th, NEW t, Ready(cs, th, t), Last(cs).k \in CCode, NEW f, NEW t2, StartsPcall(cs, th, t, f, t2),
         NEW n \in Nat \ {0}, n = Len(cs)
  PROVE  /\ Append(cs, f) \in Seq(Frames) /\ SameUpTo(cs, Append(cs, f), n) /\ FrameAt(Append(cs, f), n + 1)
         /\ DepthAt(Append(cs, f), n + 1) = DepthAt(cs, n) /\ Len(Append(cs, f)) = n + 1 /\ Append(cs, f)[n + 1] = f
<1> USE DEF StartsPcall
<1> DEFINE new == Append(cs, f)
<1>1. /\ cs \in Seq(Frames) /\ cs # <<>> /\ cs[n] \in Frames /\ th = cs[n].L /\ FrameAt(cs, n) /\ IsState(t) /\ StackOK(cs)
      /\ t.status = "ok" /\ t.nCcalls = DepthAt(cs, n) /\ (t.allowhook <=> NoHook(cs, n, th)) /\ cs[n] = Last(cs)
      /\ t.allowhook \in BOOLEAN
  BY ReadyFacts
<1>2. Protection(cs, n, t, th) BY DEF Ready, Placed
<1>3. new \in Seq(Frames) /\ Len(new) = n + 1 /\ new[n + 1] = f /\ (\A i \in 1..n : new[i] = cs[i]) /\ new # <<>>
  BY <1>1, FrontAppend
<1>4. SameUpTo(cs, new, n) BY <1>1, <1>3 DEF SameUpTo, Like
<1>5. n + 1 \in Nat \ {0} /\ (n + 1) - 1 = n /\ n + 1 \in 1..Len(new) /\ n \in 0..n /\ n \in 1..n /\ n + 1 > 1 /\ n + 1 # 1 BY <1>3
<1>6. DepthAt(new, n) = DepthAt(cs, n) BY <1>4, <1>5, SameCounts
<1>7. DepthAt(new, n + 1) = DepthAt(cs, n)
  <2>1. DepthAt(new, n + 1) = DepthAt(new, (n + 1) - 1) + (IF new[n + 1].k \in {"call", "resume"} THEN 1 ELSE 0)
    BY Zenon, <1>5, DepthNext
  <2>2. DepthAt(cs, n) \in Nat BY DepthType
  <2> QED BY <1>3, <1>5, <1>6, <2>1, <2>2
<1> HIDE DEF new
<1>8. PcallAt(new, n + 1)
  <2>1. LastProtected(new, n, th, t.errorJmp) /\ HandlerIn(new, n, th, t.errfunc) /\ (NoHook(cs, n, th) <=> NoHook(new, n, th))
    BY Zenon, <1>2, <1>4, <1>5, SameSearches DEF Protection
  <2> QED BY <1>1, <1>3, <1>5, <1>6, <2>1 DEF PcallAt
<1>9. Segment(new, n + 1)
  <2> SUFFICES ASSUME NEW j \in 1..n, cs[j].L # th PROVE \E r \in (j + 1)..(n + 1) : Resumes(new[r], th)
    BY <1>3, <1>5 DEF Segment
  <2>1. j \in 1..(n - 1) BY <1>1
  <2>2. Segment(cs, n) BY <1>1 DEF FrameAt
  <2>3. PICK r \in (j + 1)..n : Resumes(cs[r], th) BY Zenon, <1>1, <2>1, <2>2 DEF Segment
  <2>4. r \in 1..n /\ r \in (j + 1)..(n + 1) BY <2>1
  <2> QED BY <1>3, <2>3, <2>4
<1>10. FrameAt(new, n + 1)
  <2>1. StandsOn(new[n + 1], new[n]) /\ new[n + 1].L = new[n].L BY <1>1, <1>3, <1>5 DEF StandsOn, CCode
  <2>2. DepthAt(cs, n) <= LUAI_MAXCCALLS + ErrorCCalls BY <1>1 DEF FrameAt
  <2> QED BY <1>3, <1>5, <1>7, <1>8, <1>9, <2>1, <2>2 DEF FrameAt
<1> QED BY <1>3, <1>4, <1>7, <1>10 DEF new

LEMMA PcallPushed ==
  ASSUME NEW cs, NEW th, NEW t, Ready(cs, th, t), Last(cs).k \in CCode, NEW f, NEW t2, StartsPcall(cs, th, t, f, t2)
  PROVE  Ready(Append(cs, f), th, t2) /\ Step(cs, Append(cs, f), {th})
<1> DEFINE new == Append(cs, f)
           n == Len(cs)
<1>1. /\ cs \in Seq(Frames) /\ cs # <<>> /\ cs[n] \in Frames /\ th = cs[n].L /\ FrameAt(cs, n) /\ IsState(t) /\ StackOK(cs)
      /\ t.status = "ok" /\ t.nCcalls = DepthAt(cs, n) /\ (t.allowhook <=> NoHook(cs, n, th)) /\ cs[n] = Last(cs)
      /\ n \in Nat \ {0} /\ t.allowhook \in BOOLEAN
  BY ReadyFacts
<1>2. f \in Frames /\ f.k = "pcall" /\ f.L = th /\ f.status = "ok" /\ f.ci = Len(t.ci) BY DEF StartsPcall
<1>3. new \in Seq(Frames) /\ Len(new) = n + 1 /\ new[n + 1] = f /\ (\A i \in 1..n : new[i] = cs[i]) /\ new # <<>>
  BY <1>1, <1>2, FrontAppend
<1>4. /\ IsState(t2) /\ SameCalls(t, t2) /\ t2.status = t.status /\ t2.nCcalls = t.nCcalls /\ t2.allowhook = t.allowhook
      /\ t2.baseCcalls = t.baseCcalls /\ t2.errorJmp = n + 1 /\ (t2.errfunc.at # 0 => t2.errfunc.at = f.old_top - 1)
  BY DEF StartsPcall
<1>5. SameUpTo(cs, new, n) /\ FrameAt(new, n + 1) /\ DepthAt(new, n + 1) = DepthAt(cs, n) BY <1>1, PcallFrameAt
<1>6. Protection(cs, n, t, th) /\ WaitAt(cs, n) /\ (th = MainThread => t.baseCcalls = 0) /\ Runs(cs, n, t, th) BY DEF Ready, Placed
<1> HIDE DEF n, new
<1>7. n \in 0..n /\ n \in 1..n /\ n + 1 \in 1..(n + 1) /\ n + 1 \in Nat /\ n \in 0..Len(new) /\ n + 1 # 0 /\ (n + 1) - 1 = n BY <1>1, <1>3
<1>8. StackOK(new)
  <2>1. ASSUME NEW i \in (n + 1)..Len(new) PROVE FrameAt(new, i)
    <3>1. i = n + 1 BY <1>3, <2>1
    <3> QED BY <1>5, <3>1
  <2>2. ASSUME NEW i \in 1..(Len(new) - 1), i >= n PROVE WaitAt(new, i)
    <3>1. i = n BY <1>1, <1>3, <2>2
    <3>2. WaitAt(new, n) BY <1>5, <1>6, <1>7, SameFrame
    <3> QED BY <3>1, <3>2
  <2> QED BY <1>1, <1>5, <2>1, <2>2, StackStep
<1>9. Step(cs, new, {th})
  <2>1. Above(cs, n, {th})
    <3>1. \A i \in (n + 1)..Len(cs) : FALSE BY <1>1 DEF n
    <3> QED BY <3>1 DEF Above
  <2>2. Above(new, n, {th})
    <3>1. \A i \in (n + 1)..Len(new) : i = n + 1 BY <1>1, <1>3
    <3> QED BY <1>2, <1>3, <3>1 DEF Above
  <2> QED BY <1>1, <1>5, <2>1, <2>2 DEF Step
<1>10. Protection(new, n + 1, t2, th)
  <2>1. LastProtected(new, n + 1, th, n + 1)
    <3>1. \A j \in ((n + 1) + 1)..(n + 1) : FALSE BY <1>1
    <3> QED BY <1>1, <1>2, <1>3, <3>1 DEF LastProtected, Protects
  <2>2. HandlerIn(new, n + 1, th, t2.errfunc)
    <3>1. \A j \in ((n + 1) + 1)..(n + 1) : FALSE BY <1>1
    <3>2. IsPcall(new[n + 1], th) BY <1>2, <1>3 DEF IsPcall
    <3> QED BY <1>3, <1>4, <1>7, <3>1, <3>2 DEF HandlerIn
  <2>3. ASSUME NEW r \in 1..(n + 1), Resumes(new[r], th) PROVE t.baseCcalls = DepthAt(new, r)
    <3>1. r # n + 1 BY <1>2, <1>3, <2>3 DEF Resumes
    <3>2. r \in 1..n /\ r \in 0..n BY <1>1, <3>1
    <3>3. DepthAt(new, r) = DepthAt(cs, r) BY <1>5, <3>2, SameCounts
    <3>4. Resumes(cs[r], th) BY <1>3, <2>3, <3>2
    <3> QED BY <1>6, <3>2, <3>3, <3>4 DEF Protection
  <2> QED BY <1>4, <2>1, <2>2, <2>3 DEF Protection
<1>11. PICK b \in 1..Len(t.ci) : AgreesFrom(cs, n, t.ci, th, b) /\ Len(t.ci) = b + CallsBelow(cs, th, n) BY <1>6 DEF Runs
<1>12. CallsBelow(cs, th, n) \in Nat /\ CallsBelow(new, th, n) = CallsBelow(cs, th, n) /\ b \in Nat \ {0} /\ Len(t.ci) \in Nat
       /\ n \in 0..Len(cs)
  <2>1. n \in 0..Len(cs) BY <1>1 DEF n
  <2>2. Len(t.ci) \in Nat BY <1>1, FieldTypes
  <2> QED BY <1>1, <1>5, <1>7, <2>1, <2>2, CallsBelowType, SameCounts
<1>13. CallsBelow(new, th, n + 1) = CallsBelow(cs, th, n)
  <2>1. CallsBelow(new, th, n + 1) = CallsBelow(new, th, (n + 1) - 1) + (IF new[n + 1].L = th THEN CallsIn(new[n + 1]) ELSE 0)
    <3>1. n + 1 \in 1..Len(new) BY <1>3, <1>7
    <3> QED BY <1>3, <3>1, CallsBelowNext
  <2>2. CallsIn(f) = 0 BY <1>2 DEF CallsIn
  <2> QED BY <1>3, <1>7, <1>12, <2>1, <2>2
<1>14. AgreesFrom(new, n, t2.ci, th, b)
  <2>1. Len(t.ci) >= b + CallsBelow(cs, th, n) BY <1>11, <1>12
  <2>2. \A j \in 1..(b + CallsBelow(cs, th, n)) : Kind(t2.ci[j]) = Kind(t.ci[j]) BY <1>4, <1>11 DEF SameCalls
  <2>3. AgreesFrom(cs, n, t2.ci, th, b) BY Zenon, <1>1, <1>11, <1>12, <2>1, <2>2, AgreesKeeps
  <2> QED BY <1>5, <1>7, <2>3, SameAgrees
<1>15. AgreesFrom(new, n + 1, t2.ci, th, b)
  <2>1. ASSUME NEW i \in 1..(n + 1), new[i].L = th PROVE FunctionsAt(new, i, t2.ci, th, b)
    <3>1. CASE i = n + 1
      <4>1. CallsIn(f) = 0 BY <1>2 DEF CallsIn
      <4> QED BY <1>2, <1>3, <1>7, <1>11, <1>12, <3>1, <4>1 DEF FunctionsAt
    <3>2. CASE i # n + 1
      <4>1. i \in 1..n BY <1>1, <3>2
      <4> QED BY <1>14, <2>1, <4>1 DEF AgreesFrom
    <3> QED BY <3>1, <3>2
  <2>2. Continuing(new, n + 1, th) <=> Continuing(new, n, th)
    <3>1. Steady(new, n)
      <4>1. new[n].k # "resume" BY <1>1, <1>3, <1>7 DEF CCode
      <4> QED BY <4>1 DEF Steady
    <3>2. Len(new) \in {n, n + 1} BY <1>3
    <3>3. Continuing(new, Len(new), th) <=> Continuing(new, n, th) BY <1>1, <1>3, <3>1, <3>2, ContinuingBelow
    <3> QED BY <1>3, <3>3
  <2> QED BY <1>14, <2>1, <2>2 DEF AgreesFrom
<1>16. NoHook(new, n + 1, th) <=> NoHook(cs, n, th)
  <2>1. \A j \in 1..n : j \in 1..(n + 1) BY <1>1
  <2>2. \A j \in 1..(n + 1) : j \in 1..n \/ j = n + 1 BY <1>1
  <2> QED BY <1>2, <1>3, <2>1, <2>2 DEF NoHook
<1>17. Runs(new, n + 1, t2, th)
  <2>1. Len(t2.ci) = Len(t.ci) BY <1>4 DEF SameCalls
  <2>2. t2.status = "ok" /\ t2.nCcalls = DepthAt(new, n + 1) BY <1>1, <1>4, <1>5 DEF n
  <2>3. t2.allowhook <=> NoHook(new, n + 1, th) BY <1>1, <1>4, <1>16 DEF n
  <2> QED BY <1>11, <1>13, <1>15, <2>1, <2>2, <2>3 DEF Runs
<1>18. WaitAt(new, n + 1) BY <1>2, <1>3 DEF WaitAt
<1> QED BY <1>2, <1>3, <1>4, <1>6, <1>8, <1>9, <1>10, <1>17, <1>18 DEF Ready, Placed, new

(* The thread goes from t to t2 when its pcall frame, the last of cs, is left. *)
EndsPcall(cs, th, t, f, t2) ==
  /\ StackOK(cs) /\ cs # <<>> /\ f = Last(cs) /\ f.k = "pcall" /\ th = f.L
  /\ IsState(t) /\ (th = MainThread => t.baseCcalls = 0) /\ Protection(cs, Len(cs), t, th) /\ Lands(cs, Len(cs), t, th)
  /\ IsState(t2) /\ t2.status = "ok" /\ t2.errorJmp = f.previous /\ t2.errfunc = f.errfunc /\ t2.nCcalls = f.nCcalls
  /\ t2.allowhook = f.allowhook /\ t2.baseCcalls = t.baseCcalls
  /\ Len(t2.ci) = f.ci /\ \A j \in 1..f.ci : Kind(t2.ci[j]) = Kind(t.ci[j])

LEMMA PcallPopped ==
  ASSUME NEW cs, NEW th, NEW t, NEW f, NEW t2, EndsPcall(cs, th, t, f, t2)
  PROVE  Ready(Front(cs), th, t2) /\ Step(cs, Front(cs), {th})
<1> DEFINE new == Front(cs)
           m == Len(cs) - 1
<1>1. cs \in Seq(Frames) /\ Len(cs) \in Nat \ {0} /\ f = cs[Len(cs)] /\ f \in Frames /\ f.k = "pcall" /\ th = f.L
      /\ StackOK(cs) /\ FrameAt(cs, Len(cs)) /\ IsState(t) /\ IsState(t2) /\ f.allowhook \in BOOLEAN
  <2>1. StackOK(cs) /\ cs # <<>> /\ f = Last(cs) /\ f.k = "pcall" /\ th = f.L /\ IsState(t) /\ IsState(t2) BY DEF EndsPcall
  <2>2. cs \in Seq(Frames) /\ Len(cs) \in Nat \ {0} /\ f = cs[Len(cs)] BY <2>1 DEF StackOK, Last
  <2>3. Len(cs) \in 1..Len(cs) /\ f \in Frames BY <2>2
  <2> QED BY <2>1, <2>2, <2>3, FrameTypes DEF StackOK
<1>2. Len(cs) > 1
  <2>1. Len(cs) = 1 => cs[1].k = "host" BY <1>1 DEF FrameAt
  <2>2. Len(cs) # 1 BY <1>1, <2>1
  <2> QED BY Zenon, <1>1, <2>2, AboveOne
<1>3. m \in Nat \ {0} /\ Len(cs) = m + 1 /\ m \in 1..Len(cs) /\ m < Len(cs) /\ m + 1 \in 1..Len(cs) /\ (m + 1) - 1 = m
      /\ m \in 0..m /\ m \in 1..m /\ m \in 0..Len(cs) /\ m + 1 \in Nat \ {0} /\ m \in Nat /\ m \in 0..(m + 1)
  BY <1>1, <1>2
<1>4. new \in Seq(Frames) /\ Len(new) = m /\ (\A i \in 1..m : new[i] = cs[i]) BY <1>1, FrontFacts
<1> HIDE DEF m, new
<1>5. f = cs[m + 1] /\ cs[m].L = th /\ PcallAt(cs, m + 1) /\ WaitAt(cs, m) /\ FrameAt(cs, m + 1)
  BY <1>1, <1>2, <1>3 DEF FrameAt, StackOK
<1>6. SameUpTo(cs, new, m) BY <1>1, <1>3, <1>4 DEF SameUpTo, Like
<1>7. DepthAt(new, m) = DepthAt(cs, m) /\ (NoHook(cs, m, th) <=> NoHook(new, m, th))
      /\ CallsBelow(new, th, m) = CallsBelow(cs, th, m) /\ CallsBelow(cs, th, m) \in Nat
  BY <1>1, <1>3, <1>6, SameCounts, SameSearches, CallsBelowType
<1>8. /\ LastProtected(cs, m, th, f.previous) /\ f.nCcalls = DepthAt(cs, m) /\ (f.allowhook <=> NoHook(cs, m, th))
      /\ HandlerIn(cs, m, th, f.errfunc)
  BY <1>1, <1>3, <1>5 DEF PcallAt
<1>9. StackOK(new)
  <2>1. \A i \in (m + 1)..Len(new) : FrameAt(new, i) BY <1>3, <1>4
  <2>2. \A i \in 1..(Len(new) - 1) : i >= m => WaitAt(new, i) BY <1>3, <1>4
  <2> QED BY <1>1, <1>6, <2>1, <2>2, StackStep
<1>10. Step(cs, new, {th})
  <2>1. Above(cs, m, {th})
    <3>1. \A i \in (m + 1)..Len(cs) : i = m + 1 BY <1>3
    <3> QED BY <1>1, <1>5, <3>1 DEF Above
  <2>2. Above(new, m, {th})
    <3>1. \A i \in (m + 1)..Len(new) : FALSE BY <1>3, <1>4
    <3> QED BY <3>1 DEF Above
  <2> QED BY <1>3, <1>6, <2>1, <2>2 DEF Step
<1>11. WaitAt(new, m) BY <1>3, <1>5, <1>6, SameFrame
<1>12. /\ t2.status = "ok" /\ t2.errorJmp = f.previous /\ t2.errfunc = f.errfunc /\ t2.nCcalls = f.nCcalls
       /\ t2.allowhook = f.allowhook /\ t2.baseCcalls = t.baseCcalls /\ (th = MainThread => t.baseCcalls = 0)
       /\ Len(t2.ci) = f.ci /\ (\A j \in 1..f.ci : Kind(t2.ci[j]) = Kind(t.ci[j]))
       /\ Protection(cs, m + 1, t, th) /\ Lands(cs, m + 1, t, th)
  BY <1>3 DEF EndsPcall
<1>13. Protection(new, m, t2, th)
  <2>1. LastProtected(new, m, th, f.previous) /\ HandlerIn(new, m, th, f.errfunc) BY <1>3, <1>6, <1>8, SameSearches
  <2>2. ASSUME NEW r \in 1..m, Resumes(new[r], th) PROVE t.baseCcalls = DepthAt(new, r)
    <3>1. r \in 0..m /\ r \in 1..(m + 1) BY <1>3
    <3>2. DepthAt(new, r) = DepthAt(cs, r) BY <1>6, <3>1, SameCounts
    <3>3. Resumes(cs[r], th) BY <1>4, <2>2
    <3> QED BY <1>12, <3>1, <3>2, <3>3 DEF Protection
  <2> QED BY <1>12, <2>1, <2>2 DEF Protection
<1>14. PICK b \in 1..Len(t.ci) : AgreesFrom(cs, m + 1, t.ci, th, b) /\ Len(t.ci) >= b + CallsBelow(cs, th, m + 1)
  BY <1>12 DEF Lands
<1>15. b \in Nat \ {0} /\ Len(t.ci) \in Nat BY <1>1, FieldTypes
<1>16. CallsBelow(cs, th, m + 1) = CallsBelow(cs, th, m)
  <2>1. CallsBelow(cs, th, m + 1) = CallsBelow(cs, th, (m + 1) - 1) + (IF cs[m + 1].L = th THEN CallsIn(cs[m + 1]) ELSE 0)
    BY <1>1, <1>3, CallsBelowNext
  <2>2. CallsIn(f) = 0 BY <1>1 DEF CallsIn
  <2> QED BY <1>3, <1>5, <1>7, <2>1, <2>2
<1>17. f.ci = b + CallsBelow(cs, th, m)
  <2>1. FunctionsAt(cs, m + 1, t.ci, th, b) BY <1>1, <1>3, <1>5, <1>14 DEF AgreesFrom
  <2> QED BY <1>1, <1>3, <1>5, <2>1 DEF FunctionsAt
<1>18. AgreesFrom(cs, m, t.ci, th, b)
  <2>1. \A i \in 1..m : i \in 1..(m + 1) BY <1>3
  <2>2. Continuing(cs, m + 1, th) <=> Continuing(cs, m, th)
    <3>1. Steady(cs, m)
      <4>1. cs[m + 1].k # "poscall" BY <1>1, <1>5
      <4> QED BY <4>1 DEF Steady
    <3> QED BY <1>1, <1>3, <3>1, ContinuingBelow
  <2> QED BY <1>14, <2>1, <2>2 DEF AgreesFrom
<1>19. AgreesFrom(new, m, t2.ci, th, b)
  <2>1. \A j \in 1..(b + CallsBelow(cs, th, m)) : Kind(t2.ci[j]) = Kind(t.ci[j]) BY <1>12, <1>17
  <2>2. Len(t.ci) >= b + CallsBelow(cs, th, m) BY <1>14, <1>16
  <2>3. AgreesFrom(cs, m, t2.ci, th, b) BY Zenon, <1>1, <1>3, <1>15, <1>18, <2>1, <2>2, AgreesKeeps
  <2> QED BY <1>3, <1>6, <2>3, SameAgrees
<1>20. Runs(new, m, t2, th)
  <2>1. Len(t2.ci) = b + CallsBelow(new, th, m) BY <1>7, <1>12, <1>17
  <2>2. b \in 1..Len(t2.ci)
    <3>1. Len(t2.ci) \in Nat BY <1>1, FieldTypes
    <3> QED BY <1>7, <1>15, <2>1, <3>1
  <2> QED BY <1>7, <1>8, <1>12, <1>19, <2>1, <2>2 DEF Runs
<1>21. new # <<>> /\ th = new[m].L /\ m = Len(new) BY <1>3, <1>4, <1>5
<1> QED BY <1>1, <1>9, <1>10, <1>11, <1>12, <1>13, <1>20, <1>21 DEF Ready, Placed, new

LEMMA TopIsLua ==
  ASSUME IInv, InLua
  PROVE  Kind(Ci(l)) = "lua"
<1>0. cstack # <<>> /\ F.k = "execute" BY DEF InLua
<1>1. At(cstack, L, l) BY <1>0, AtRunning
<1>2. Ready(cstack, L, l) /\ IsState(l) /\ Last(cstack) \in Frames BY <1>1, AtFacts
<1>3. Last(cstack).k = "execute" BY <1>0 DEF F
<1>4. CallsIn(Last(cstack)) \in Nat \ {0} /\ KindIn(Last(cstack)) = "lua" BY <1>2, <1>3, FrameTypes DEF CallsIn, KindIn
<1>5. PICK c : c = CallsIn(Last(cstack)) OBVIOUS
<1>6. \A m \in 1..c : Kind(l.ci[Len(l.ci) - c + m]) = "lua" BY <1>2, <1>4, <1>5, TopKinds
<1>7. c \in 1..c /\ Len(l.ci) \in Nat BY <1>2, <1>4, <1>5, FieldTypes
<1>8. Len(l.ci) - c + c = Len(l.ci) BY <1>4, <1>5, <1>7
<1>9. Kind(l.ci[Len(l.ci)]) = "lua" BY <1>6, <1>7, <1>8
<1> QED BY <1>2, <1>9, LastCi

(***************************************************************************)
(* The actions.                                                            *)
(***************************************************************************)
LEMMA LuaFacts ==
  ASSUME IInv, InLua
  PROVE  /\ At(cstack, L, l) /\ Last(cstack) = F /\ F.k = "execute" /\ IsState(l) /\ L \in Threads /\ F \in Frames
         /\ F.base \in Int /\ F.nexeccalls \in Nat \ {0} /\ F.L = L /\ cstack \in Seq(Frames) /\ cstack # <<>>
<1>1. cstack # <<>> /\ F.k = "execute" BY DEF InLua
<1>2. At(cstack, L, l) BY <1>1, AtRunning
<1>3. cstack \in Seq(Frames) /\ Last(cstack) \in Frames /\ L \in Threads /\ IsState(l) BY <1>2, AtFacts
<1>4. F = Last(cstack) /\ L = F.L BY DEF F, L
<1> QED BY <1>1, <1>2, <1>3, <1>4, FrameTypes

LEMMA CFacts ==
  ASSUME IInv, InC
  PROVE  /\ At(cstack, L, l) /\ Last(cstack) = F /\ F.k \in CCode /\ IsState(l) /\ L \in Threads /\ F \in Frames
         /\ F.L = L /\ cstack \in Seq(Frames) /\ cstack # <<>> /\ floor \in Int
<1>1. cstack # <<>> /\ F.k \in CCode BY DEF InC, CCode
<1>2. At(cstack, L, l) BY <1>1, AtRunning DEF CCode
<1>3. cstack \in Seq(Frames) /\ Last(cstack) \in Frames /\ L \in Threads /\ IsState(l) BY <1>2, AtFacts
<1>4. F = Last(cstack) /\ L = F.L BY DEF F, L
<1>5. floor \in Int
  <2>1. F.k = "hook" => F.top \in Int BY <1>3, <1>4, FrameTypes
  <2> QED BY <1>3, <2>1, FieldTypes DEF floor, restorestack
<1> QED BY <1>1, <1>2, <1>3, <1>4, <1>5

LEMMA InputTypes == Values \subseteq Callees /\ NArgs \subseteq Nat /\ NResults \subseteq Int
BY LimitsAssumption DEF Values, Functions, Callees, Callable, Bodies

LEMMA LuaErrorStep == ASSUME IInv, LuaError PROVE Goes
BY LuaFacts, Runerror DEF LuaError
LEMMA MemoryErrorStep == ASSUME IInv, MemoryError PROVE Goes
<1>1. (InLua \/ InC) /\ luaD_throw(L, l, cstack, "errmem") BY DEF MemoryError
<1>2. At(cstack, L, l) BY <1>1, LuaFacts, CFacts
<1> QED BY <1>1, <1>2, AtThrow
LEMMA TraceexecStep == ASSUME IInv, traceexec PROVE Goes
<1>1. InLua /\ l.allowhook /\ Become(L, luaD_callhook(l), Append(cstack, HookFrame(L, l, "count"))) BY Zenon DEF traceexec
<1>2. At(cstack, L, l) /\ Last(cstack).k = "execute" BY <1>1, LuaFacts
<1>3. At(Append(cstack, HookFrame(L, l, "count")), L, luaD_callhook(l)) BY <1>1, <1>2, HookRuns
<1> QED BY <1>1, <1>3, LuaFacts, HookEnds
LEMMA SetlistStep == ASSUME IInv, OP_SETLIST PROVE Goes
<1>1. InLua /\ Become(L, [l EXCEPT !.top = Ci(l).top], cstack) BY DEF OP_SETLIST
<1>2. Ci(l).top \in Int BY <1>1, LuaFacts, LastCi, CiTypes
<1>3. Keeps(l, [l EXCEPT !.top = Ci(l).top]) BY <1>1, <1>2, LuaFacts, SetTop
<1>4. At(cstack, L, [l EXCEPT !.top = Ci(l).top]) BY <1>1, <1>3, LuaFacts, AtKeeps
<1> QED BY <1>1, <1>4, LuaFacts, AtPlain
LEMMA CloseStep == ASSUME IInv, OP_CLOSE PROVE Goes
<1>1. InLua /\ Become(L, luaF_close(l, F.base), cstack) BY DEF OP_CLOSE
<1>2. At(cstack, L, luaF_close(l, F.base)) BY <1>1, LuaFacts, CloseKeeps, AtKeeps
<1> QED BY <1>1, <1>2, LuaFacts, AtPlain
LEMMA ClosureStep == ASSUME IInv, OP_CLOSURE PROVE Goes
<1>1. InLua /\ Become(L, [l EXCEPT !.openupval = l.openupval \cup {F.base}], cstack)
  BY LuaFacts, FieldTypes DEF OP_CLOSURE
<1>2. l.openupval \cup {F.base} \in SUBSET Int BY <1>1, LuaFacts, FieldTypes
<1>3. Keeps(l, [l EXCEPT !.openupval = l.openupval \cup {F.base}]) BY Zenon, <1>1, <1>2, LuaFacts, SetOpenupval
<1>4. At(cstack, L, [l EXCEPT !.openupval = l.openupval \cup {F.base}]) BY <1>1, <1>3, LuaFacts, AtKeeps
<1> QED BY <1>1, <1>4, LuaFacts, AtPlain
LEMMA VarargStep == ASSUME IInv, OP_VARARG PROVE Goes
<1> DEFINE n == (Ci(l).base - Ci(l).func.at) - Ci(l).func.fn.numparams - 1
           t == luaD_checkstack(l, n)
           t2 == [t EXCEPT !.top = t.base + n]
<1>1. InLua /\ Become(L, t2, Reloaded(cstack, t)) /\ Ci(l).func.fn.is_vararg BY DEF OP_VARARG
<1>2. At(cstack, L, l) /\ IsState(l) BY <1>1, LuaFacts
<1>3. n \in Int
  <2>1. Ci(l) \in CallInfo BY <1>2, LastCi
  <2>2. Ci(l).base \in Int /\ Ci(l).func.at \in Int /\ Ci(l).func.fn \in LuaFunctions \cup {CFunction, NotFunction} BY <2>1, CiTypes
  <2>3. Kind(Ci(l)) = "lua" BY <1>1, LuaFacts, TopIsLua
  <2>4. Ci(l).func.fn \in LuaFunctions BY <2>2, <2>3 DEF Kind
  <2>5. Ci(l).func.fn.numparams \in Int BY <2>4, FunctionsAssumption
  <2> QED BY <2>2, <2>5
<1> HIDE DEF n
<1>4. Keeps(l, t) /\ IsState(t) BY <1>2, <1>3, CheckstackKeeps DEF Keeps
<1> HIDE DEF t
<1>5. Keeps(t, t2)
  <2>1. t.base + n \in Int BY <1>3, <1>4, FieldTypes
  <2> QED BY <1>4, <2>1, SetTop
<1>6. Reloaded(cstack, t) = Reloaded(cstack, t2) BY <1>4, FieldTypes DEF Reloaded, Reload
<1> HIDE DEF t2
<1>7. At(cstack, L, t2) BY <1>2, <1>4, <1>5, KeepsTrans, AtKeeps
<1>8. Become(L, t2, Reloaded(cstack, t2)) BY <1>1, <1>6
<1> QED BY <1>1, <1>7, <1>8, LuaFacts, ReloadEnds

LEMMA KeepsTop ==
  ASSUME NEW t, IsState(t), NEW t2, Keeps(t, t2)
  PROVE  Kind(Ci(t2)) = Kind(Ci(t))
<1>1. Len(t2.ci) = Len(t.ci) /\ Kind(t2.ci[Len(t.ci)]) = Kind(t.ci[Len(t.ci)]) /\ IsState(t2)
  BY SMTT(30), FieldTypes DEF Keeps, SameControl, SameCalls
<1> QED BY <1>1, LastCi
LEMMA OffsetType == ASSUME NEW t, IsState(t), NEW x \in Int PROVE savestack(t, x) \in Int /\ restorestack(t, x) \in Int
BY FieldTypes DEF savestack, restorestack

LEMMA SiteTypes ==
  ASSUME IInv, InLua, NEW site \in CallSites
  PROVE  site[1] \in Int /\ site[2] \in Int
<1>1. l.top \in Int /\ F.base \in Int BY LuaFacts, FieldTypes
<1>2. Ci(l).func.fn \in LuaFunctions
  <2>1. Ci(l).func.fn \in LuaFunctions \cup {CFunction, NotFunction} BY LuaFacts, LastCi, CiTypes
  <2>2. Kind(Ci(l)) = "lua" BY TopIsLua
  <2> QED BY <2>1, <2>2 DEF Kind
<1>3. Ci(l).func.fn.maxstacksize \in Int BY <1>2, FunctionsAssumption
<1> QED BY <1>1, <1>3, InputTypes DEF CallSites

(* The state of a call instruction with its operands in place.              *)
LEMMA SiteReady ==
  ASSUME IInv, InLua, NEW site \in CallSites, NEW t, t = [l EXCEPT !.top = site[2]]
  PROVE  /\ At(cstack, L, t) /\ IsState(t) /\ Keeps(l, t) /\ t.allowhook = l.allowhook /\ Kind(Ci(t)) = "lua"
         /\ savestack(t, site[1]) \in Int
<1>1. IsState(l) /\ At(cstack, L, l) BY LuaFacts
<1>2. site[1] \in Int /\ site[2] \in Int BY SiteTypes
<1>3. Keeps(l, t) /\ IsState(t) BY <1>1, <1>2, SetTop DEF Keeps
<1>4. At(cstack, L, t) BY <1>1, <1>3, AtKeeps
<1>5. Kind(Ci(t)) = "lua" BY <1>1, <1>3, KeepsTop, TopIsLua
<1>6. savestack(t, site[1]) \in Int BY <1>2, <1>3, OffsetType
<1> QED BY <1>3, <1>4, <1>5, <1>6 DEF Keeps, SameControl

LEMMA GrowExecute ==
  ASSUME NEW cs, NEW th, NEW t, At(cs, th, t), Last(cs).k = "execute", NEW t2, Entered(t, t2, "lua"),
         NEW f \in Frames, f.k = "execute", f.L = th, f.nexeccalls = Last(cs).nexeccalls + 1
  PROVE  At(Append(Front(cs), f), th, t2)
<1>1. Ready(cs, th, t) /\ Last(cs) \in Frames /\ IsState(t) BY AtFacts
<1>2. PICK c : c = CallsIn(Last(cs)) OBVIOUS
<1>3. c = Last(cs).nexeccalls /\ c \in Nat \ {0} /\ CallsIn(f) = c + 1 /\ KindIn(f) = "lua" /\ KindIn(Last(cs)) = "lua"
  BY <1>1, <1>2, FrameTypes DEF CallsIn, KindIn
<1>4. PICK n : n = Len(t.ci) BY Zenon
<1>5. n \in Nat /\ n - c >= 1 /\ \A m \in 1..c : Kind(t.ci[n - c + m]) = "lua" BY Zenon, <1>1, <1>2, <1>3, <1>4, TopKinds
<1>6. Len(t2.ci) = n + 1 /\ Kind(t2.ci[n + 1]) = "lua" /\ \A j \in 1..n : Kind(t2.ci[j]) = Kind(t.ci[j])
  BY <1>4 DEF Entered
<1>7. Calls(t, t2, c, f)
  <2>1. Len(t2.ci) = n - c + (c + 1) BY <1>3, <1>5, <1>6
  <2>2. \A j \in 1..(n - c) : j \in 1..n BY <1>3, <1>5
  <2>3. ASSUME NEW j \in 1..(c + 1) PROVE Kind(t2.ci[n - c + j]) = "lua"
    <3>1. CASE j = c + 1
      <4>1. n - c + j = n + 1 BY <1>3, <1>5, <3>1
      <4> QED BY <1>6, <4>1
    <3>2. CASE j # c + 1
      <4>1. j \in 1..c /\ n - c + j \in 1..n BY <1>3, <1>5, <3>2
      <4> QED BY <1>5, <1>6, <4>1
    <3> QED BY <3>1, <3>2
  <2> QED BY <1>3, <1>4, <1>6, <2>1, <2>2, <2>3 DEF Calls
<1>8. StandsOn(f, Last(Front(cs))) /\ NoContinue(f, Last(Front(cs)))
  <2>1. StandsOn(Last(cs), Last(Front(cs))) BY <1>1, TopFrame
  <2> QED BY <2>1 DEF StandsOn, NoContinue
<1>9. Ready(Append(Front(cs), f), th, t2) /\ Step(cs, Append(Front(cs), f), {th})
  <2>1. IsState(t2) /\ SameFields(t, t2) /\ t2.nCcalls = t.nCcalls /\ t2.allowhook = t.allowhook BY DEF Entered
  <2> QED BY <1>1, <1>2, <1>7, <1>8, <2>1, ReplaceFrame
<1>10. t2.body = t.body BY DEF Entered, SameFields
<1> QED BY <1>9, <1>10, AtNext

LEMMA CallStep == ASSUME IInv, NEW fn \in Values, NEW n \in NResults, OP_CALL(fn, n) PROVE Goes
<1>1. InLua BY DEF OP_CALL
<1>2. PICK site \in CallSites :
        LET t == [l EXCEPT !.top = site[2]]
            r == luaD_precall(t, savestack(t, site[1]), fn, n)
        IN  Enter(L, r, cstack,
                    IF f_isLua(Ci(r.t)) /\ r.result = "entered"
                    THEN Append(Callers, Execute(L, F.nexeccalls + 1, r.t))
                    ELSE Push(cstack, "cfunc", L))
  BY Zenon DEF OP_CALL
<1>3. PICK t : t = [l EXCEPT !.top = site[2]] BY Zenon
<1>4. PICK r : r = luaD_precall(t, savestack(t, site[1]), fn, n) OBVIOUS
<1>5. PICK cs : cs = IF f_isLua(Ci(r.t)) /\ r.result = "entered"
                     THEN Append(Callers, Execute(L, F.nexeccalls + 1, r.t))
                     ELSE Push(cstack, "cfunc", L)
  BY Zenon
<1>6. Enter(L, r, cstack, cs) BY <1>2, <1>3, <1>4, <1>5
<1>7. At(cstack, L, t) /\ IsState(t) /\ savestack(t, site[1]) \in Int BY <1>1, <1>3, SiteReady
<1>8. Precalled(t, r, {"lua", "c"})
  <2>1. fn \in Callees /\ n \in Int BY InputTypes
  <2> QED BY <1>4, <1>7, <2>1, PrecallFacts
<1>9. ASSUME r.result = "entered" PROVE At(cs, L, r.t) /\ Last(cs).k \in {"execute", "cfunc"}
  <2>1. PICK k \in {"lua", "c"} : Entered(t, r.t, k) BY <1>8, <1>9 DEF Precalled
  <2>2. (f_isLua(Ci(r.t)) <=> k = "lua") /\ IsState(r.t) BY <1>7, <2>1, LastKind
  <2>3. CASE k = "lua"
    <3>1. PICK f : f = Execute(L, F.nexeccalls + 1, r.t) OBVIOUS
    <3>2. F.nexeccalls + 1 \in Nat \ {0} BY <1>1, LuaFacts
    <3>3. f \in Frames /\ f.L = L /\ f.k = "execute" /\ f.nexeccalls = F.nexeccalls + 1
      BY <1>1, <2>2, <3>1, <3>2, LuaFacts, ExecuteTypes
    <3>4. cs = Append(Front(cstack), f) BY <1>5, <1>9, <2>2, <2>3, <3>1 DEF Callers
    <3>5. At(Append(Front(cstack), f), L, r.t) BY <1>1, <1>7, <2>1, <2>3, <3>3, LuaFacts, GrowExecute
    <3>6. Last(cs) = f
      <4>1. cs \in Seq(Frames) /\ cs # <<>> BY Zenon, <3>4, <3>5, AtFacts
      <4>2. Front(cstack) \in Seq(Frames)
        <5>1. Len(cstack) \in Nat \ {0} BY <1>1, LuaFacts
        <5> QED BY <1>1, <5>1, LuaFacts, FrontFacts
      <4> QED BY <3>3, <3>4, <4>2, FrontAppend
    <3> QED BY <3>3, <3>4, <3>5, <3>6
  <2>4. CASE k = "c"
    <3>1. PICK f : f = [k |-> "cfunc", L |-> L] BY Zenon
    <3>2. f \in Frames /\ f.L = L /\ f.k = "cfunc" /\ CallsIn(f) = 1 /\ KindIn(f) = "c" BY <1>1, <3>1, LuaFacts, CfuncTypes
    <3>3. cs = Append(cstack, f) BY <1>5, <2>2, <2>4, <3>1 DEF Push
    <3>4. StandsOn(f, Last(cstack)) BY <1>1, <3>2, LuaFacts DEF StandsOn
    <3>5. At(Append(cstack, f), L, r.t) BY <1>7, <2>1, <2>4, <3>2, <3>4, PushEntered
    <3>6. Last(cs) = f BY <1>1, <3>2, <3>3, LuaFacts, FrontAppend
    <3> QED BY <3>2, <3>3, <3>5, <3>6
  <2> QED BY <2>1, <2>3, <2>4
<1>10. PICK K : K = {"lua", "c"} BY Zenon
<1>11. Last(cstack).k = "execute" BY <1>1, LuaFacts
<1> QED BY <1>6, <1>7, <1>8, <1>9, <1>10, <1>11, EnterEnds

LEMMA MoveKeeps ==
  ASSUME NEW t, IsState(t), Kind(Ci(t)) = "lua", NEW r, Entered(t, r, "lua")
  PROVE  Keeps(t, MoveFrameDown(r))
<1> DEFINE n == Len(r.ci)
           prev == r.ci[n - 1]
           new == r.ci[n]
           base == prev.func.at + (new.base - new.func.at)
           top == prev.func.at + (r.top - new.func.at)
           t1 == luaF_close(r, prev.base)
           c == [prev EXCEPT !.func.fn = new.func.fn, !.base = base, !.top = top]
           s == Append(SubSeq(r.ci, 1, n - 2), c)
           t2 == [t1 EXCEPT !.base = base, !.top = top, !.ci = s]
<1>1. /\ IsState(r) /\ SameFields(t, r) /\ r.nCcalls = t.nCcalls /\ r.allowhook = t.allowhook
      /\ Len(r.ci) = Len(t.ci) + 1 /\ Kind(r.ci[Len(t.ci) + 1]) = "lua"
      /\ \A j \in 1..Len(t.ci) : Kind(r.ci[j]) = Kind(t.ci[j])
  BY DEF Entered
<1>2. Len(t.ci) \in Nat \ {0} /\ n = Len(t.ci) + 1 /\ r.ci \in Seq(CallInfo) BY <1>1, FieldTypes
<1>3. prev \in CallInfo /\ new \in CallInfo /\ n - 1 = Len(t.ci) /\ n - 1 \in 1..n /\ n \in 1..n BY <1>2
<1>4. base \in Int /\ top \in Int /\ new.func.fn \in LuaFunctions \cup {CFunction, NotFunction} /\ r.top \in Int
  <2>1. r.top \in Int BY <1>1, FieldTypes
  <2> HIDE DEF prev, new
  <2>2. prev.func.at \in Int BY <1>3, CiTypes
  <2>3. new.func.at \in Int /\ new.base \in Int /\ new.func.fn \in LuaFunctions \cup {CFunction, NotFunction}
    BY <1>3, CiTypes
  <2> QED BY <2>1, <2>2, <2>3
<1>5. Kind(new) = "lua" BY <1>1, <1>2
<1>6. MoveFrameDown(r) = t2 BY DEF MoveFrameDown
<1>7. Keeps(r, t1) /\ IsState(t1) BY <1>1, CloseKeeps DEF Keeps
<1> HIDE DEF t1, base, top
<1>8. c \in CallInfo /\ Kind(c) = "lua"
  <2> HIDE DEF prev, new
  <2>1. c \in CallInfo BY Zenon, <1>3, <1>4 DEF CallInfo, Func
  <2>2. c.func.fn = new.func.fn BY <1>3 DEF CallInfo, Func
  <2> QED BY <1>5, <2>1, <2>2 DEF Kind
<1> HIDE DEF c, new, prev
<1>9. s \in Seq(CallInfo) /\ Len(s) = Len(t.ci) /\ s[Len(t.ci)] = c /\ \A j \in 1..(Len(t.ci) - 1) : s[j] = r.ci[j]
  BY <1>2, <1>3, <1>8
<1>10. \A j \in 1..Len(t.ci) : Kind(s[j]) = Kind(t.ci[j])
  <2> SUFFICES ASSUME NEW j \in 1..Len(t.ci) PROVE Kind(s[j]) = Kind(t.ci[j]) BY Zenon
  <2>1. CASE j = Len(t.ci)
    <3>1. Kind(t.ci[Len(t.ci)]) = "lua" BY LastCi
    <3> QED BY <1>8, <1>9, <2>1, <3>1
  <2>2. CASE j # Len(t.ci)
    <3>1. j \in 1..(Len(t.ci) - 1) BY <1>2, <2>2
    <3> QED BY Zenon, <1>1, <1>9, <3>1
  <2> QED BY Zenon, <2>1, <2>2
<1> HIDE DEF s
<1>11. IsState(t2) /\ t2.ci = s
  <2>1. s # <<>> BY <1>2, <1>9
  <2> QED BY Zenon, <1>4, <1>7, <1>9, <2>1 DEF IsState, LuaState
<1>12. /\ t2.nCcalls = t1.nCcalls /\ t2.baseCcalls = t1.baseCcalls /\ t2.status = t1.status
       /\ t2.errfunc = t1.errfunc /\ t2.allowhook = t1.allowhook /\ t2.errorJmp = t1.errorJmp /\ t2.body = t1.body
  BY <1>7 DEF IsState, LuaState
<1> HIDE DEF t2
<1>13. Keeps(t, t2) BY <1>1, <1>7, <1>9, <1>10, <1>11, <1>12 DEF Keeps, SameControl, SameCalls, SameFields
<1> QED BY <1>6, <1>13

LEMMA TailHook ==
  ASSUME NEW cs, NEW th, NEW t, At(cs, th, t), t.allowhook, Last(cs).k = "execute", NEW r, Entered(t, r, "lua")
  PROVE  At(Append(cs, HookFrame(th, r, "tailcall")), th, luaD_callhook(r))
<1>1. Ready(cs, th, t) /\ IsState(t) /\ th \in Threads BY AtFacts
<1>2. PICK f : f = HookFrame(th, r, "tailcall") OBVIOUS
<1>3. /\ IsState(r) /\ SameFields(t, r) /\ r.nCcalls = t.nCcalls /\ r.allowhook = t.allowhook
      /\ Len(r.ci) = Len(t.ci) + 1 /\ Kind(r.ci[Len(t.ci) + 1]) = "lua"
      /\ \A j \in 1..Len(t.ci) : Kind(r.ci[j]) = Kind(t.ci[j])
  BY DEF Entered
<1>4. f \in Frames /\ f.L = th /\ f.k = "hook" /\ f.then = "tailcall" BY <1>1, <1>2, <1>3, HookFrameTypes
<1>5. CallsIn(f) = 1 /\ KindIn(f) = "lua" /\ StandsOn(f, Last(cs)) /\ NoContinue(f, Last(cs))
  BY <1>4 DEF CallsIn, KindIn, StandsOn, NoContinue
<1>6. PICK t2 : t2 = luaD_callhook(r) OBVIOUS
<1>7. IsState(t2) /\ SameCalls(r, t2) /\ SameFields(r, t2) /\ t2.nCcalls = r.nCcalls /\ ~ t2.allowhook
  BY <1>3, <1>6, CallhookFacts
<1>8. Len(t.ci) \in Nat /\ Len(t2.ci) = Len(r.ci) /\ \A j \in 1..Len(r.ci) : Kind(t2.ci[j]) = Kind(r.ci[j])
  BY <1>1, <1>7, FieldTypes DEF SameCalls
<1>9. Calls(t, t2, 0, f)
  <2>1. Len(t2.ci) = Len(t.ci) - 0 + 1 BY <1>3, <1>8
  <2>2. \A j \in 1..(Len(t.ci) - 0) : Kind(t2.ci[j]) = Kind(t.ci[j]) BY <1>3, <1>8
  <2>3. \A j \in 1..1 : Kind(t2.ci[Len(t.ci) - 0 + j]) = "lua" BY <1>3, <1>8
  <2> QED BY <1>5, <2>1, <2>2, <2>3 DEF Calls
<1>10. SameFields(t, t2) BY <1>3, <1>7 DEF SameFields
<1>11. t2.nCcalls = t.nCcalls + 0 BY <1>1, <1>3, <1>7, FieldTypes
<1>12. Ready(Append(cs, f), th, t2) /\ Step(cs, Append(cs, f), {th})
  BY Zenon, <1>1, <1>3, <1>4, <1>5, <1>7, <1>9, <1>10, <1>11, PushFrame
<1>13. t2.body = t.body BY <1>10 DEF SameFields
<1> QED BY <1>2, <1>6, <1>12, <1>13, AtNext

LEMMA TailcallStep == ASSUME IInv, NEW fn \in Values, OP_TAILCALL(fn) PROVE Goes
<1>1. InLua BY Zenon DEF OP_TAILCALL
<1>2. PICK site \in CallSites :
        LET t == [l EXCEPT !.top = site[2]]
            r == luaD_precall(t, savestack(t, site[1]), fn, LUA_MULTRET)
            moved == MoveFrameDown(r.t)
        IN  IF r.result # "entered" \/ ~ f_isLua(Ci(r.t))
            THEN Enter(L, r, cstack, Push(cstack, "cfunc", L))
            ELSE \/ Become(L, moved, Reloaded(cstack, moved))
                 \/ /\ "call hook" \in uses /\ l.allowhook
                    /\ Become(L, luaD_callhook(r.t), Append(cstack, HookFrame(L, r.t, "tailcall")))
  BY Zenon DEF OP_TAILCALL
<1>3. PICK t : t = [l EXCEPT !.top = site[2]] BY Zenon
<1>4. PICK r : r = luaD_precall(t, savestack(t, site[1]), fn, LUA_MULTRET) OBVIOUS
<1>5. PICK moved : moved = MoveFrameDown(r.t) OBVIOUS
<1>6. IF r.result # "entered" \/ ~ f_isLua(Ci(r.t))
      THEN Enter(L, r, cstack, Push(cstack, "cfunc", L))
      ELSE \/ Become(L, moved, Reloaded(cstack, moved))
           \/ /\ l.allowhook
              /\ Become(L, luaD_callhook(r.t), Append(cstack, HookFrame(L, r.t, "tailcall")))
  BY Zenon, <1>2, <1>3, <1>4, <1>5
<1>7. At(cstack, L, t) /\ IsState(t) /\ savestack(t, site[1]) \in Int /\ Kind(Ci(t)) = "lua" /\ t.allowhook = l.allowhook
  BY <1>1, <1>3, SiteReady
<1>8. Precalled(t, r, {"lua", "c"})
  <2>1. fn \in Callees /\ LUA_MULTRET \in Int BY InputTypes
  <2> QED BY <1>4, <1>7, <2>1, PrecallFacts
<1>9. Last(cstack).k = "execute" BY <1>1, LuaFacts
<1>10. ASSUME r.result = "entered", f_isLua(Ci(r.t)) PROVE Entered(t, r.t, "lua")
  <2>1. PICK k \in {"lua", "c"} : Entered(t, r.t, k) BY <1>8, <1>10 DEF Precalled
  <2> QED BY <1>7, <1>10, <2>1, LastKind
<1>11. CASE r.result # "entered" \/ ~ f_isLua(Ci(r.t))
  <2>1. PICK f : f = [k |-> "cfunc", L |-> L] BY Zenon
  <2>2. f \in Frames /\ f.L = L /\ f.k = "cfunc" /\ CallsIn(f) = 1 /\ KindIn(f) = "c" BY <1>1, <2>1, LuaFacts, CfuncTypes
  <2>3. PICK cs : cs = Append(cstack, f) BY Zenon
  <2>4. Enter(L, r, cstack, cs) BY <1>6, <1>11, <2>1, <2>3 DEF Push
  <2>5. ASSUME r.result = "entered" PROVE At(cs, L, r.t) /\ Last(cs).k \in {"execute", "cfunc"}
    <3>1. PICK k \in {"lua", "c"} : Entered(t, r.t, k) BY <1>8, <2>5 DEF Precalled
    <3>2. k = "c" BY <1>7, <1>11, <2>5, <3>1, LastKind
    <3>4. StandsOn(f, Last(cstack)) BY <1>9, <2>2 DEF StandsOn
    <3>5. At(Append(cstack, f), L, r.t) BY <1>7, <2>2, <3>1, <3>2, <3>4, PushEntered
    <3>6. Last(cs) = f BY <1>1, <2>2, <2>3, LuaFacts, FrontAppend
    <3> QED BY <2>2, <2>3, <3>5, <3>6
  <2>6. PICK K : K = {"lua", "c"} BY Zenon
  <2> QED BY <1>7, <1>8, <1>9, <2>4, <2>5, <2>6, EnterEnds
<1>12. CASE r.result = "entered" /\ f_isLua(Ci(r.t))
  <2>1. Entered(t, r.t, "lua") BY <1>10, <1>12
  <2>2. CASE Become(L, moved, Reloaded(cstack, moved))
    <3>1. Keeps(t, moved) BY <1>5, <1>7, <2>1, MoveKeeps
    <3>2. At(cstack, L, moved) BY <1>7, <3>1, AtKeeps
    <3> QED BY <1>1, <2>2, <3>2, LuaFacts, ReloadEnds
  <2>3. CASE l.allowhook /\ Become(L, luaD_callhook(r.t), Append(cstack, HookFrame(L, r.t, "tailcall")))
    <3>1. At(Append(cstack, HookFrame(L, r.t, "tailcall")), L, luaD_callhook(r.t)) BY Zenon, <1>7, <1>9, <2>1, <2>3, TailHook
    <3> QED BY Zenon, <1>1, <2>3, <3>1, LuaFacts, HookEnds
  <2> QED BY <1>6, <1>12, <2>2, <2>3
<1> QED BY <1>11, <1>12

LEMMA OpReturnStep == ASSUME IInv, NEW n \in NArgs, OP_RETURN(n) PROVE Goes
<1>1. InLua BY DEF OP_RETURN
<1>2. PICK top : top = IF IsOpen THEN l.top ELSE F.base + n OBVIOUS
<1>3. PICK t0 : t0 = luaF_close(l, F.base) OBVIOUS
<1>4. PICK t : t = [t0 EXCEPT !.top = top] BY Zenon
<1>5. Return(L, t, top - F.base, cstack, TRUE) BY Zenon, <1>2, <1>3, <1>4 DEF OP_RETURN
<1>6. At(cstack, L, l) /\ IsState(l) /\ Last(cstack).k = "execute" /\ L \in Threads /\ F.base \in Int /\ cstack \in Seq(Frames)
  BY <1>1, LuaFacts
<1>7. top \in Int BY <1>2, <1>6, FieldTypes, InputTypes
<1>8. Keeps(l, t0) /\ IsState(t0) BY <1>3, <1>6, CloseKeeps DEF Keeps
<1>9. Keeps(l, t) /\ IsState(t) BY <1>4, <1>7, <1>8, SetTop, KeepsTrans DEF Keeps
<1>10. PICK m : m = top - F.base OBVIOUS
<1>11. m \in Int BY <1>6, <1>7, <1>10
<1>12. PICK f, x : x = savestack(t, t.top - m) /\ f = PoscallOn(L, x, TRUE) BY Zenon
<1>13. f \in Frames /\ f.L = L /\ f.k = "poscall" /\ f.lua = TRUE /\ CallsIn(f) = 0
  <2>1. t.top - m \in Int BY <1>9, <1>11, FieldTypes
  <2>2. x \in Int BY <1>9, <1>12, <2>1, OffsetType
  <2>3. f \in Frames /\ f.L = L /\ f.k = "poscall" /\ f.lua = TRUE BY ZenonT(40), <1>6, <1>12, <2>2, PoscallTypes
  <2> QED BY <2>3 DEF CallsIn
<1>14. StandsOn(f, Last(cstack)) /\ NoContinue(f, Last(cstack)) BY <1>6, <1>13 DEF StandsOn, NoContinue
<1>15. At(Append(cstack, f), L, t) BY <1>6, <1>9, <1>13, <1>14, PushSame
<1> QED BY Zenon, <1>5, <1>6, <1>9, <1>10, <1>11, <1>12, <1>15, ReturnEnds

LEMMA CReturnStep == ASSUME IInv, NEW n \in NArgs, CReturn(n) PROVE Goes
<1>1. InC /\ F.k = "cfunc" /\ Return(L, l, n, Callers, FALSE) BY Zenon DEF CReturn
<1>2. At(cstack, L, l) /\ IsState(l) /\ Last(cstack) = F /\ L \in Threads /\ cstack \in Seq(Frames) /\ F \in Frames
  BY <1>1, CFacts
<1>3. n \in Int BY InputTypes
<1>4. PICK f, x : x = savestack(l, l.top - n) /\ f = PoscallOn(L, x, FALSE) BY Zenon
<1>5. f \in Frames /\ f.L = L /\ f.k = "poscall" /\ f.lua = FALSE /\ CallsIn(f) = 1 /\ KindIn(f) = "c"
  <2>1. l.top - n \in Int BY <1>2, <1>3, FieldTypes
  <2>2. x \in Int BY Zenon, <1>2, <1>4, <2>1, OffsetType
  <2>3. f \in Frames /\ f.L = L /\ f.k = "poscall" /\ f.lua = FALSE
    BY <1>2, <1>4, <2>2 DEF PoscallOn, Frames, PoscallFrame
  <2> QED BY <2>3 DEF CallsIn, KindIn
<1>6. Ready(cstack, L, l) BY <1>2, AtFacts
<1>7. Last(Front(cstack)).k \in {"call", "execute"} /\ Front(cstack) \in Seq(Frames)
  <2>1. StandsOn(F, Last(Front(cstack))) /\ Front(cstack) \in Seq(Frames) BY <1>1, <1>2, <1>6, TopFrame
  <2> QED BY <1>1, <2>1 DEF StandsOn
<1>8. StandsOn(f, Last(Front(cstack))) /\ NoContinue(f, Last(Front(cstack))) BY <1>5, <1>7 DEF StandsOn, NoContinue
<1>9. PICK c : c = CallsIn(Last(cstack)) OBVIOUS
<1>10. c = 1 /\ KindIn(Last(cstack)) = "c" BY <1>1, <1>2, <1>9 DEF CallsIn, KindIn
<1>11. Calls(l, l, c, f)
  <2>1. Len(l.ci) \in Nat /\ Len(l.ci) - c >= 1 /\ \A m \in 1..c : Kind(l.ci[Len(l.ci) - c + m]) = "c"
    BY Zenon, <1>6, <1>9, <1>10, TopKinds
  <2>2. Len(l.ci) = Len(l.ci) - c + 1 BY <1>10, <2>1
  <2> QED BY <1>5, <1>10, <2>1, <2>2 DEF Calls
<1>12. Ready(Append(Front(cstack), f), L, l) /\ Step(cstack, Append(Front(cstack), f), {L})
  <2>1. SameFields(l, l) BY DEF SameFields
  <2> QED BY Zenon, <1>1, <1>2, <1>5, <1>6, <1>8, <1>9, <1>11, <2>1, ReplaceFrame
<1>13. At(Append(Callers, f), L, l) BY <1>2, <1>12, AtNext DEF Callers
<1> QED BY Zenon, <1>1, <1>2, <1>3, <1>4, <1>7, <1>13, ReturnEnds DEF Callers

LEMMA MetamethodStep == ASSUME IInv, NEW fn \in Values, NEW m \in {0, 1}, Metamethod(fn, m) PROVE Goes
<1>1. InLua BY DEF Metamethod
<1>2. PICK n : n = 4 - m OBVIOUS
<1>3. PICK t0 : t0 = luaD_checkstack(l, n) OBVIOUS
<1>4. PICK t : t = [t0 EXCEPT !.top = t0.top + n] BY Zenon
<1>5. IsState(l) /\ At(cstack, L, l) /\ Last(cstack).k = "execute" BY <1>1, LuaFacts
<1>6. n \in Int BY <1>2
<1>7. Keeps(l, t0) /\ IsState(t0) BY <1>3, <1>5, <1>6, CheckstackKeeps DEF Keeps
<1>8. t0.top + n \in Int BY <1>6, <1>7, FieldTypes
<1>9. Keeps(l, t) /\ IsState(t) BY <1>4, <1>7, <1>8, SetTop, KeepsTrans DEF Keeps
<1>10. luaD_call(L, t, cstack, savestack(t, t.top - n), fn, m) BY <1>2, <1>3, <1>4 DEF Metamethod
<1>11. savestack(t, t.top - n) \in Int
  <2>1. t.top - n \in Int BY <1>6, <1>9, FieldTypes
  <2> QED BY <1>9, <2>1, OffsetType
<1>12. At(cstack, L, t) BY <1>5, <1>9, AtKeeps
<1>13. PICK func : func = savestack(t, t.top - n) OBVIOUS
<1>14. fn \in Callees /\ m \in Int /\ func \in Int BY <1>11, <1>13, InputTypes
<1> QED BY <1>5, <1>10, <1>12, <1>13, <1>14, CallEnds

LEMMA WithValuesKeeps ==
  ASSUME IInv, InC, NEW n \in Int
  PROVE  Keeps(l, WithValues(n)) /\ IsState(WithValues(n)) /\ At(cstack, L, WithValues(n))
<1>1. floor + n \in Int BY CFacts
<1>2. Keeps(l, WithValues(n)) BY <1>1, CFacts, SetTop DEF WithValues
<1> QED BY <1>2, CFacts, AtKeeps DEF Keeps

LEMMA LuaCallStep == ASSUME IInv, NEW fn \in Values, NEW n \in NArgs, NEW r \in NResults, lua_call(fn, n, r) PROVE Goes
<1>1. InC /\ luaD_call(L, WithValues(n + 1), cstack, savestack(l, floor), fn, r) BY DEF lua_call, CanPush
<1>2. n + 1 \in Int /\ fn \in Callees /\ r \in Int BY InputTypes
<1>3. PICK t : t = WithValues(n + 1) OBVIOUS
<1>4. At(cstack, L, t) BY <1>1, <1>2, <1>3, WithValuesKeeps
<1>5. PICK func : func = savestack(l, floor) OBVIOUS
<1>6. func \in Int BY <1>1, <1>5, CFacts, OffsetType
<1>7. Last(cstack).k \in CCode BY <1>1, CFacts
<1> QED BY <1>1, <1>2, <1>3, <1>4, <1>5, <1>6, <1>7, CallEnds

LEMMA ErrorStep == ASSUME IInv, lua_error PROVE Goes
<1>1. InC /\ Become(L, WithValues(1), Append(cstack, [k |-> "errormsg", L |-> L, called |-> FALSE]))
  BY DEF lua_error, CanPush
<1>2. PICK t : t = WithValues(1) OBVIOUS
<1>3. Keeps(l, t) BY <1>1, <1>2, WithValuesKeeps
<1>4. At(cstack, L, l) /\ Last(cstack).k \in CCode BY <1>1, CFacts
<1>5. At(Append(cstack, [k |-> "errormsg", L |-> L, called |-> FALSE]), L, t) BY Zenon, <1>3, <1>4, PushErrormsg
<1>6. PICK f : f = [k |-> "errormsg", L |-> L, called |-> FALSE] BY Zenon
<1>7. f.k # "resume" BY <1>6
<1> QED BY <1>1, <1>2, <1>5, <1>6, <1>7, CFacts, AtPushed

LEMMA PcallTypes ==
  ASSUME IInv, InC, NEW t, IsState(t), NEW nresults \in Int, NEW old_top \in Int, NEW f, f = PcallFrame(t, nresults, old_top)
  PROVE  /\ f \in Frames /\ f.k = "pcall" /\ f.L = L /\ f.status = "ok" /\ f.previous = t.errorJmp /\ f.nCcalls = t.nCcalls
         /\ f.allowhook = t.allowhook /\ f.errfunc = t.errfunc /\ f.ci = Len(t.ci) /\ f.old_top = old_top
         /\ f.nresults = nresults
<1>1. f \in PcallFrames BY CFacts, FieldTypes DEF PcallFrames, PcallFrame
<1> QED BY <1>1 DEF PcallFrame, Frames

LEMMA PcallEnds ==
  ASSUME IInv, InC, NEW t, Keeps(l, t), NEW tv, Keeps(l, tv), NEW nresults \in Int, NEW old_top \in Int, NEW e \in ErrFunc,
         e.at # 0 => e.at = old_top - 1, NEW t2, t2 = [tv EXCEPT !.errfunc = e, !.errorJmp = Len(cstack) + 1],
         NEW fn \in Callees,
         luaD_call(L, t2, Append(cstack, PcallFrame(t, nresults, old_top)), old_top, fn, nresults)
  PROVE  Goes
<1>1. PICK f : f = PcallFrame(t, nresults, old_top) OBVIOUS
<1>2. IsState(l) /\ At(cstack, L, l) /\ Last(cstack).k \in CCode /\ cstack \in Seq(Frames) BY CFacts
<1>3. IsState(t) /\ IsState(tv) BY DEF Keeps
<1>4. /\ f \in Frames /\ f.k = "pcall" /\ f.L = L /\ f.status = "ok" /\ f.previous = t.errorJmp /\ f.nCcalls = t.nCcalls
      /\ f.allowhook = t.allowhook /\ f.errfunc = t.errfunc /\ f.ci = Len(t.ci) /\ f.old_top = old_top
      /\ f.nresults = nresults
  BY <1>1, <1>3, PcallTypes
<1>5. /\ IsState(t2) /\ SameCalls(tv, t2) /\ t2.status = tv.status /\ t2.nCcalls = tv.nCcalls /\ t2.allowhook = tv.allowhook
      /\ t2.baseCcalls = tv.baseCcalls /\ t2.errorJmp = Len(cstack) + 1 /\ t2.errfunc = e
  <2>1. PICK j : j = Len(cstack) + 1 OBVIOUS
  <2>2. j \in Nat /\ t2 = [tv EXCEPT !.errfunc = e, !.errorJmp = j] BY <1>2, <2>1
  <2>3. /\ IsState(t2) /\ SameCalls(tv, t2) /\ t2.status = tv.status /\ t2.nCcalls = tv.nCcalls /\ t2.allowhook = tv.allowhook
        /\ t2.baseCcalls = tv.baseCcalls /\ t2.errorJmp = j /\ t2.errfunc = e
    BY ZenonT(40), <1>3, <2>2 DEF IsState, LuaState, SameCalls
  <2> QED BY <2>1, <2>3
<1>6. StartsPcall(cstack, L, l, f, t2)
  <2>1. /\ f.previous = l.errorJmp /\ f.nCcalls = l.nCcalls /\ f.allowhook = l.allowhook /\ f.errfunc = l.errfunc
        /\ f.ci = Len(l.ci)
    BY <1>4 DEF Keeps, SameControl, SameCalls
  <2>2. /\ SameCalls(l, t2) /\ t2.status = l.status /\ t2.nCcalls = l.nCcalls /\ t2.allowhook = l.allowhook
        /\ t2.baseCcalls = l.baseCcalls
    BY <1>5 DEF Keeps, SameControl, SameCalls
  <2> QED BY <1>4, <1>5, <2>1, <2>2 DEF StartsPcall
<1>7. Ready(cstack, L, l) BY <1>2, AtFacts
<1>8. Ready(Append(cstack, f), L, t2) /\ Step(cstack, Append(cstack, f), {L}) BY Zenon, <1>2, <1>6, <1>7, PcallPushed
<1>9. At(Append(cstack, f), L, t2)
  <2>1. t2.body = tv.body BY <1>3 DEF IsState, LuaState
  <2>2. t2.body = l.body BY <2>1 DEF Keeps, SameControl
  <2> QED BY <1>2, <1>8, <2>2, AtNext
<1>10. Last(Append(cstack, f)).k = "pcall" BY <1>2, <1>4, FrontAppend
<1> QED BY <1>1, <1>9, <1>10, CallEnds

LEMMA PcallStep ==
  ASSUME IInv, NEW fn \in Values, NEW n \in NArgs, NEW r \in NResults, NEW h \in {NoHandler} \cup Handlers,
         lua_pcall(fn, n, r, h)
  PROVE  Goes
<1>1. PICK below : below = IF h = NoHandler THEN 0 ELSE 1 OBVIOUS
<1>2. PICK e : e = IF h = NoHandler THEN NoErrFunc ELSE SavedHandler(h) OBVIOUS
<1>3. PICK func : func = savestack(l, floor + below) OBVIOUS
<1>4. PICK t : t = WithValues(below + n + 1) OBVIOUS
<1>5. PICK t2 : t2 = [t EXCEPT !.errfunc = e, !.errorJmp = Len(cstack) + 1] OBVIOUS
<1>6. InC /\ luaD_call(L, t2, Append(cstack, PcallFrame(t, r, func)), func, fn, r)
  BY <1>1, <1>2, <1>3, <1>4, <1>5 DEF lua_pcall, CanPush
<1>7. below \in {0, 1} /\ n \in Int /\ r \in Int /\ fn \in Callees BY <1>1, InputTypes
<1>8. floor \in Int /\ l.stack \in Int BY <1>6, CFacts, FieldTypes
<1>9. func \in Int BY <1>3, <1>7, <1>8 DEF savestack
<1>10. Keeps(l, t)
  <2>1. below + n + 1 \in Int BY <1>7
  <2> QED BY <1>4, <1>6, <2>1, WithValuesKeeps
<1>11. e \in ErrFunc /\ (e.at # 0 => e.at = func - 1)
  <2>1. CASE h = NoHandler BY <1>2, <2>1 DEF NoErrFunc, ErrFunc
  <2>2. CASE h # NoHandler
    <3>1. e = [at |-> floor - l.stack, fn |-> h] /\ below = 1 /\ h \in Handlers
      BY <1>1, <1>2, <2>2 DEF SavedHandler, savestack
    <3>2. e \in ErrFunc BY <1>8, <3>1 DEF ErrFunc
    <3>3. e.at = floor - l.stack BY <3>1
    <3>4. func = (floor + 1) - l.stack BY <1>3, <3>1 DEF savestack
    <3> QED BY <1>8, <3>2, <3>3, <3>4
  <2> QED BY <2>1, <2>2
<1> QED BY Zenon, <1>5, <1>6, <1>7, <1>9, <1>10, <1>11, PcallEnds

LEMMA CpcallStep == ASSUME IInv, lua_cpcall PROVE Goes
<1>1. PICK t : t = WithValues(2) OBVIOUS
<1>2. PICK e : e = NoErrFunc OBVIOUS
<1>3. PICK func : func = savestack(l, floor) OBVIOUS
<1>4. PICK t2 : t2 = [t EXCEPT !.errfunc = e, !.errorJmp = Len(cstack) + 1] OBVIOUS
<1>5. InC /\ luaD_call(L, t2, Append(cstack, PcallFrame(l, 0, func)), func, CFunction, 0)
  BY <1>1, <1>2, <1>3, <1>4 DEF lua_cpcall, CanPush
<1>6. IsState(l) /\ func \in Int BY <1>3, <1>5, CFacts, OffsetType
<1>7. Keeps(l, l) /\ Keeps(l, t) BY <1>1, <1>5, <1>6, KeepsSelf, WithValuesKeeps
<1>8. e \in ErrFunc /\ e.at = 0 BY <1>2 DEF NoErrFunc, ErrFunc
<1>9. PICK fn : fn = CFunction BY Zenon
<1>10. fn \in Callees BY <1>9 DEF Callees
<1>11. PICK zero : zero = 0 OBVIOUS
<1>12. zero \in Int BY <1>11
<1>13. luaD_call(L, t2, Append(cstack, PcallFrame(l, zero, func)), func, fn, zero) BY <1>5, <1>9, <1>11
<1> QED BY Zenon, <1>4, <1>5, <1>6, <1>7, <1>8, <1>10, <1>12, <1>13, PcallEnds

=============================================================================
