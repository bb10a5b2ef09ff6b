----------------------------- MODULE LuaDoProofs -----------------------------
(***************************************************************************)
(* Proofs about LuaDo: what concerns several threads keeps the invariant,  *)
(* so do the ends of calls, and what the invariant says of the calls, the  *)
(* errors and the coroutines of every program.                             *)
(***************************************************************************)
EXTENDS LuaDoCallProofs

USE DEF Errors, CFunction, NotFunction, NoBody, LUA_MULTRET, Done

(***************************************************************************)
(* Coroutines.                                                             *)
(***************************************************************************)
LEMMA CallsAtLeast ==
  ASSUME NEW cs \in Seq(Frames), NEW n \in 1..Len(cs), NEW i \in 1..n, NEW th, cs[i].L = th, CallsIn(cs[i]) >= 1
  PROVE  CallsBelow(cs, th, n) >= 1 /\ CallsBelow(cs, th, n) \in Nat
<1>1. i \in 1..Len(cs) /\ i - 1 \in 0..Len(cs) /\ i \in 0..n /\ n \in 0..Len(cs) /\ cs[i] \in Frames OBVIOUS
<1>2. CallsBelow(cs, th, i - 1) \in Nat /\ CallsBelow(cs, th, n) \in Nat /\ CallsBelow(cs, th, i) \in Nat
  <2>1. i \in 0..Len(cs) BY <1>1
  <2> QED BY <1>1, <2>1, CallsBelowType
<1>3. CallsBelow(cs, th, i) = CallsBelow(cs, th, i - 1) + (IF cs[i].L = th THEN CallsIn(cs[i]) ELSE 0) BY <1>1, CallsBelowNext
<1>4. CallsBelow(cs, th, i) <= CallsBelow(cs, th, n) BY <1>1, CallsBelowGrows
<1>5. CallsIn(cs[i]) \in Nat BY <1>1, CallsInType
<1> QED BY <1>2, <1>3, <1>4, <1>5

(* A thread that waits for another one is in a C function.                  *)
LEMMA WaitingFrame ==
  ASSUME NEW cs, StackOK(cs), NEW n \in 1..(Len(cs) - 1), NEW th, IsTop(cs, n, th)
  PROVE  cs[n].k \in CCode /\ cs[n].L = th /\ cs[n + 1].k = "resume"
<1>1. cs \in Seq(Frames) /\ n + 1 \in 1..Len(cs) /\ n + 1 > 1 /\ (n + 1) - 1 = n /\ n + 1 \in (n + 1)..Len(cs) BY DEF StackOK
<1>2. cs[n].L = th /\ cs[n + 1].L # th BY <1>1 DEF IsTop
<1>3. FrameAt(cs, n + 1) BY <1>1 DEF StackOK
<1>4. cs[n + 1].k = "resume" /\ StandsOn(cs[n + 1], cs[n]) BY <1>1, <1>2, <1>3 DEF FrameAt
<1> QED BY <1>2, <1>4 DEF StandsOn

LEMMA InsideCalls ==
  ASSUME NEW cs, StackOK(cs), NEW n \in 1..Len(cs), cs[n].k \in CCode, NEW th, cs[n].L = th, th # MainThread
  PROVE  CallsBelow(cs, th, n) >= 1 /\ CallsBelow(cs, th, n) \in Nat
<1>1. cs \in Seq(Frames) /\ FrameAt(cs, n) /\ cs[n] \in Frames BY DEF StackOK
<1>2. n > 1 /\ StandsOn(cs[n], cs[n - 1]) /\ cs[n].k # "host"
  <2>1. n # 1 BY <1>1 DEF FrameAt
  <2>2. n > 1 BY <2>1
  <2> QED BY <1>1, <2>2 DEF FrameAt, StandsOn
<1>3. CASE cs[n].k = "cfunc"
  <2>1. CallsIn(cs[n]) >= 1 BY <1>3 DEF CallsIn
  <2>2. n \in 1..n OBVIOUS
  <2> QED BY <1>1, <2>1, <2>2, CallsAtLeast
<1>4. CASE cs[n].k = "hook"
  <2>0. n - 1 \in 1..n /\ n - 1 \in 1..Len(cs) BY <1>2
  <2>1. cs[n - 1].L = th /\ cs[n - 1] \in Frames /\ FrameAt(cs, n - 1) BY <1>1, <1>2, <1>4, <2>0 DEF FrameAt, StackOK
  <2>2. cs[n - 1].k \in {"poscall", "execute", "cfunc"} BY <1>2, <1>4 DEF StandsOn
  <2>3. CASE CallsIn(cs[n - 1]) >= 1 BY <1>1, <2>0, <2>1, <2>3, CallsAtLeast
  <2>4. CASE ~ (CallsIn(cs[n - 1]) >= 1)
    <3>1. cs[n - 1].k = "poscall" /\ cs[n - 1].lua
      <4>1. cs[n - 1].k = "execute" => CallsIn(cs[n - 1]) >= 1
        <5> SUFFICES ASSUME cs[n - 1].k = "execute" PROVE CallsIn(cs[n - 1]) >= 1 OBVIOUS
        <5>1. cs[n - 1].nexeccalls \in Nat \ {0} BY <2>1, FrameTypes
        <5>2. CallsIn(cs[n - 1]) = cs[n - 1].nexeccalls BY DEF CallsIn
        <5> QED BY <5>1, <5>2
      <4>2. cs[n - 1].k = "cfunc" => CallsIn(cs[n - 1]) >= 1 BY DEF CallsIn
      <4>3. cs[n - 1].k = "poscall" /\ ~ cs[n - 1].lua => CallsIn(cs[n - 1]) >= 1 BY DEF CallsIn
      <4> QED BY <2>2, <2>4, <4>1, <4>2, <4>3
    <3>2. n - 1 # 1 BY <2>1, <3>1 DEF FrameAt
    <3>3. n - 1 > 1 /\ n - 2 \in 1..n /\ (n - 1) - 1 = n - 2 /\ n - 2 \in 1..Len(cs) BY <1>2, <3>2
    <3>4. cs[n - 2].k = "execute" /\ cs[n - 2].L = th BY <2>1, <3>1, <3>3 DEF FrameAt, StandsOn
    <3>5. cs[n - 2] \in Frames BY <1>1, <3>3
    <3>6. cs[n - 2].nexeccalls \in Nat \ {0} BY <3>4, <3>5, FrameTypes
    <3>7. CallsIn(cs[n - 2]) >= 1 BY <3>4, <3>6 DEF CallsIn
    <3> QED BY <1>1, <3>3, <3>4, <3>7, CallsAtLeast
  <2> QED BY <2>3, <2>4
<1> QED BY <1>2, <1>3, <1>4 DEF CCode

LEMMA IInvFacts ==
  ASSUME IInv, cstack # <<>>
  PROVE  /\ StackOK(cstack) /\ cstack \in Seq(Frames) /\ Len(cstack) \in Nat \ {0} /\ F = cstack[Len(cstack)] /\ F \in Frames
         /\ L = F.L /\ L \in Threads /\ IsState(l) /\ (L = MainThread => l.baseCcalls = 0)
         /\ ThreadAt(cstack, Len(cstack), l, L) /\ FrameAt(cstack, Len(cstack)) /\ F = Last(cstack)
         /\ DOMAIN lstate = Threads /\ IsTop(cstack, Len(cstack), L)
<1>1. StackOK(cstack) /\ (\A th \in Threads : IsState(lstate[th]) /\ ThreadOK(cstack, lstate[th], th)) /\ DOMAIN lstate = Threads
  BY DEF IInv, Good
<1>2. cstack \in Seq(Frames) /\ Len(cstack) \in Nat \ {0} BY <1>1 DEF StackOK
<1>3. F = cstack[Len(cstack)] /\ F \in Frames /\ F = Last(cstack) /\ L = F.L BY <1>2 DEF F, Last, L
<1>4. L \in Threads BY <1>3, FrameTypes
<1>5. IsTop(cstack, Len(cstack), L) BY <1>2, <1>3 DEF IsTop
<1>6. ThreadAt(cstack, Len(cstack), l, L) /\ (L = MainThread => l.baseCcalls = 0)
  <2>1. Len(cstack) \in 1..Len(cstack) /\ cstack[Len(cstack)].L = L BY <1>2, <1>3
  <2>2. ThreadOK(cstack, l, L) BY <1>1, <1>4 DEF l
  <2> QED BY <1>5, <2>1, <2>2 DEF ThreadOK
<1>7. FrameAt(cstack, Len(cstack)) BY <1>1, <1>2 DEF StackOK
<1>8. IsState(l) BY <1>1, <1>4 DEF l
<1> QED BY <1>1, <1>2, <1>3, <1>4, <1>5, <1>6, <1>7, <1>8

LEMMA Waiting ==
  ASSUME IInv, cstack # <<>>, NEW th \in Coroutines, th # L, NEW i \in 1..Len(cstack), cstack[i].L = th
  PROVE  lstate[th].status = "ok" /\ Len(lstate[th].ci) > 1
<1>1. /\ StackOK(cstack) /\ cstack \in Seq(Frames) /\ Len(cstack) \in Nat \ {0} /\ cstack[Len(cstack)].L = L
      /\ th \in Threads /\ th # MainThread
  BY IInvFacts, LimitsAssumption DEF Threads
<1>2. PICK t : t = lstate[th] OBVIOUS
<1>3. IsState(t) /\ ThreadOK(cstack, t, th) BY <1>1, <1>2 DEF IInv, Good
<1>4. PICK n \in 1..Len(cstack) : IsTop(cstack, n, th)
  <2>1. Len(cstack) \in Nat BY <1>1
  <2> QED BY <2>1, ExistsTop
<1>5. n \in 1..(Len(cstack) - 1)
  <2>1. n # Len(cstack) BY <1>1, <1>4 DEF IsTop
  <2> QED BY <1>1, <2>1
<1>6. cstack[n].k \in CCode /\ cstack[n].L = th BY <1>1, <1>4, <1>5, WaitingFrame
<1>7. CallsBelow(cstack, th, n) >= 1 /\ CallsBelow(cstack, th, n) \in Nat BY <1>1, <1>6, InsideCalls
<1>8. ThreadAt(cstack, n, t, th) BY <1>3, <1>4 DEF ThreadOK
<1>9. Runs(cstack, n, t, th) BY <1>6, <1>8 DEF ThreadAt, CCode
<1>10. PICK b \in 1..Len(t.ci) : Len(t.ci) = b + CallsBelow(cstack, th, n) BY <1>9 DEF Runs
<1>11. Len(t.ci) > 1 BY <1>7, <1>10
<1> QED BY <1>2, <1>9, <1>11 DEF Runs

LEMMA FinishKeeps ==
  ASSUME IInv, cstack # <<>>, UNCHANGED <<uses, cstack>>, DOMAIN lstate' = Threads,
         \A th \in Threads : Keeps(lstate[th], lstate'[th])
  PROVE  IInv'
<1>1. StackOK(cstack) /\ cstack \in Seq(Frames) /\ \A th \in Threads : IsState(lstate[th]) /\ ThreadOK(cstack, lstate[th], th)
  BY IInvFacts DEF IInv, Good
<1>2. ASSUME NEW th \in Threads PROVE IsState(lstate'[th]) /\ ThreadOK(cstack, lstate'[th], th)
  <2>1. PICK t, t2 : t = lstate[th] /\ t2 = lstate'[th] OBVIOUS
  <2>2. IsState(t) /\ ThreadOK(cstack, t, th) /\ Keeps(t, t2) BY <1>1, <2>1
  <2>3. ThreadOK(cstack, t2, th) /\ IsState(t2) BY <1>1, <2>2, ThreadKeeps DEF Keeps
  <2> QED BY <2>1, <2>3
<1>3. Step(cstack, cstack, Threads) BY <1>1, StepSelf
<1> QED BY <1>1, <1>2, <1>3, FinishStep

LEMMA CollectStep == ASSUME IInv, NEW th \in Threads, CollectStack(th) PROVE IInv'
<1>1. InLua \/ InC BY DEF CollectStack
<1>2. /\ At(cstack, L, l) /\ cstack # <<>> /\ IsState(l) /\ Last(cstack) \in Frames /\ Last(cstack).k # "resume"
  BY <1>1, LuaFacts, CFacts DEF CCode
<1>3. PICK t : t = Shrunk(lstate[th]) OBVIOUS
<1>4. Become(th, t, IF th = L THEN Reloaded(cstack, t) ELSE cstack) BY <1>3 DEF CollectStack
<1>5. DOMAIN lstate = Threads /\ IsState(lstate[th]) BY DEF IInv, Good
<1>6. Keeps(lstate[th], t) BY <1>3, <1>5, ShrunkKeeps
<1>7. CASE th = L
  <2>1. At(cstack, L, t) BY <1>2, <1>6, <1>7, AtKeeps DEF l
  <2>2. Become(L, t, Reloaded(cstack, t)) BY <1>4, <1>7
  <2> QED BY <1>2, <2>1, <2>2, ReloadEnds DEF Goes
<1>8. CASE th # L
  <2>1. UNCHANGED <<uses, cstack>> /\ lstate' = [lstate EXCEPT ![th] = t] BY <1>4, <1>8 DEF Become
  <2>2. DOMAIN lstate' = Threads BY <1>5, <2>1
  <2>3. ASSUME NEW u \in Threads PROVE Keeps(lstate[u], lstate'[u])
    <3>1. IsState(lstate[u]) BY DEF IInv, Good
    <3>2. CASE u = th BY <1>5, <1>6, <2>1, <3>2
    <3>3. CASE u # th
      <4>1. lstate'[u] = lstate[u] BY <1>5, <2>1, <3>3
      <4> QED BY <3>1, <4>1, KeepsSelf
    <3> QED BY <3>2, <3>3
  <2> QED BY <1>2, <2>1, <2>2, <2>3, FinishKeeps
<1> QED BY <1>7, <1>8

LEMMA ResumeOtherStep == ASSUME IInv, NEW co \in Coroutines, NEW n \in NArgs, ResumeOther(co, n) PROVE IInv'
<1>1. InC BY DEF ResumeOther
<1>2. PICK mine : mine = WithValues(n + 1) OBVIOUS
<1>3. PICK t0 : t0 = IF co = L THEN mine ELSE lstate[co] OBVIOUS
<1>4. PICK room : room = lua_checkstack(t0, n) OBVIOUS
<1>5. IF ~ room.ok THEN luaG_runerror(L, mine, cstack)
      ELSE /\ lstate' = [lstate EXCEPT ![L] = [IF co = L THEN room.t ELSE mine EXCEPT !.top = @ - n],
                                       ![co] = IF co = L THEN [room.t EXCEPT !.top = @ - n] ELSE room.t]
           /\ UNCHANGED <<uses, cstack>>
  BY <1>2, <1>3, <1>4 DEF ResumeOther
<1>6. At(cstack, L, l) /\ cstack # <<>> /\ IsState(l) /\ L \in Threads /\ Last(cstack).k \in CCode BY <1>1, CFacts
<1>7. n \in Int /\ n + 1 \in Int BY InputTypes
<1>8. Keeps(l, mine) /\ IsState(mine) /\ At(cstack, L, mine) BY <1>1, <1>2, <1>7, WithValuesKeeps
<1>9. co \in Threads /\ DOMAIN lstate = Threads /\ \A th \in Threads : IsState(lstate[th]) BY DEF IInv, Good, Threads
<1>10. IsState(t0) BY <1>3, <1>8, <1>9
<1>11. Keeps(t0, room.t) /\ IsState(room.t) BY <1>4, <1>7, <1>10, LuaCheckstackKeeps DEF Keeps
<1>12. CASE ~ room.ok BY <1>5, <1>6, <1>8, <1>12, Runerror DEF Goes
<1>13. CASE room.ok
  <2>1. PICK base : base = IF co = L THEN room.t ELSE mine OBVIOUS
  <2>2. PICK mine2 : mine2 = [base EXCEPT !.top = base.top - n] BY Zenon
  <2>3. PICK other : other = IF co = L THEN mine2 ELSE room.t OBVIOUS
  <2>4. Keeps(l, base) /\ IsState(base)
    <3>1. CASE co = L BY <1>3, <1>8, <1>11, <2>1, <3>1, KeepsTrans
    <3>2. CASE co # L BY <1>8, <2>1, <3>2
    <3> QED BY <3>1, <3>2
  <2>5. Keeps(l, mine2)
    <3>1. base.top - n \in Int BY <1>7, <2>4, FieldTypes
    <3> QED BY <2>2, <2>4, <3>1, SetTop, KeepsTrans
  <2>6. lstate' = [lstate EXCEPT ![L] = mine2, ![co] = other] /\ UNCHANGED <<uses, cstack>>
    BY <1>5, <1>13, <2>1, <2>2, <2>3
  <2>7. DOMAIN lstate' = Threads BY <1>9, <2>6
  <2>8. ASSUME NEW u \in Threads PROVE Keeps(lstate[u], lstate'[u])
    <3>1. CASE u = co
      <4>1. lstate'[u] = other BY <1>9, <2>6, <3>1
      <4>2. CASE co = L BY <2>3, <2>5, <3>1, <4>1, <4>2 DEF l
      <4>3. CASE co # L BY <1>3, <1>11, <2>3, <3>1, <4>1, <4>3
      <4> QED BY <4>2, <4>3
    <3>2. CASE u = L /\ u # co
      <4>1. lstate'[u] = mine2 BY <1>9, <2>6, <3>2
      <4> QED BY <2>5, <3>2, <4>1 DEF l
    <3>3. CASE u # L /\ u # co
      <4>1. lstate'[u] = lstate[u] BY <1>9, <2>6, <3>3
      <4> QED BY <1>9, <4>1, KeepsSelf
    <3> QED BY <3>1, <3>2, <3>3
  <2> QED BY <1>6, <2>6, <2>7, <2>8, FinishKeeps
<1> QED BY <1>12, <1>13

(* A thread off the C stack.                                                *)
Off(cs, th) == \A i \in 1..Len(cs) : cs[i].L # th
LEMMA OffSuspended ==
  ASSUME IInv, cstack # <<>>, NEW th \in Threads, Off(cstack, th)
  PROVE  IsState(lstate[th]) /\ Suspended(lstate[th]) /\ lstate[th].errorJmp = 0
BY DEF IInv, Good, ThreadOK, Off
LEMMA NotRunning ==
  ASSUME IInv, cstack # <<>>, NEW th \in Coroutines, th # L, lstate[th].status # "ok" \/ Len(lstate[th].ci) <= 1
  PROVE  Off(cstack, th)
<1> SUFFICES ASSUME NEW i \in 1..Len(cstack), cstack[i].L = th PROVE FALSE BY DEF Off
<1>1. lstate[th].status = "ok" /\ Len(lstate[th].ci) > 1 BY Waiting
<1>2. Len(lstate[th].ci) \in Nat
  <2>1. IsState(lstate[th]) BY DEF IInv, Good, Threads
  <2> QED BY <2>1, FieldTypes
<1> QED BY <1>1, <1>2
LEMMA OffThread ==
  ASSUME NEW cs, NEW th \in Coroutines, Off(cs, th), NEW t, Suspended(t), t.errorJmp = 0
  PROVE  ThreadOK(cs, t, th)
<1>1. th # MainThread BY LimitsAssumption
<1> QED BY <1>1 DEF ThreadOK, Off

LEMMA NewStateTypes ==
  /\ IsState(NewState) /\ NewState.status = "ok" /\ Len(NewState.ci) = 1 /\ NewState.allowhook /\ NewState.errfunc.at = 0
  /\ NewState.errorJmp = 0 /\ NewState.nCcalls = 0 /\ NewState.baseCcalls = 0
<1> DEFINE first == [func |-> [at |-> 0, fn |-> NotFunction], base |-> 1, top |-> 1 + LUA_MINSTACK, nresults |-> 0]
<1>1. first \in CallInfo BY LimitsAssumption DEF CallInfo, Func
<1>2. NoErrFunc \in ErrFunc /\ NoErrFunc.at = 0 BY DEF NoErrFunc, ErrFunc
<1>3. 2 * LUA_MINSTACK + EXTRA_STACK \in Nat /\ BASIC_CI_SIZE \in Nat BY LimitsAssumption
<1>4. /\ NewState.ci = <<first>> /\ NewState.status = "ok" /\ NewState.allowhook = TRUE /\ NewState.errfunc = NoErrFunc
      /\ NewState.errorJmp = 0 /\ NewState.nCcalls = 0 /\ NewState.baseCcalls = 0
  BY DEF NewState
<1> DEFINE c == <<first>>
<1>5. NewState = [stack |-> 0, stacksize |-> 2 * LUA_MINSTACK + EXTRA_STACK, top |-> 1, base |-> 1,
       ci |-> c, size_ci |-> BASIC_CI_SIZE, nCcalls |-> 0, baseCcalls |-> 0,
       status |-> "ok", errfunc |-> NoErrFunc, allowhook |-> TRUE, openupval |-> {},
       errorJmp |-> 0, body |-> NoBody]
  BY DEF NewState
<1> HIDE DEF first
<1>6. c \in Seq(CallInfo) /\ c # <<>> /\ Len(c) = 1 BY <1>1
<1> HIDE DEF c
<1>7. NewState \in LuaState BY <1>2, <1>3, <1>5, <1>6 DEF LuaState, Bodies
<1>8. NewState.ci = c BY <1>5
<1> QED BY <1>2, <1>4, <1>6, <1>7, <1>8 DEF IsState

LEMMA CocreateStep == ASSUME IInv, NEW co \in Coroutines, NEW fn \in LuaFunctions, luaB_cocreate(co, fn) PROVE IInv'
<1>1. PICK t : t = [NewState EXCEPT !.top = NewState.top + 1, !.body = fn] OBVIOUS
<1>2. InC /\ lstate[co] = NoState /\ Become(co, t, cstack) BY <1>1 DEF luaB_cocreate
<1>3. cstack # <<>> /\ At(cstack, L, l) /\ co \in Threads /\ co # MainThread /\ cstack \in Seq(Frames)
  BY <1>2, CFacts, LimitsAssumption DEF Threads
<1>4. lstate[co].status = "none" BY <1>2 DEF NoState, NewState
<1>5. co # L
  <2>1. l.status = "ok" BY <1>3 DEF At, Ready, Runs
  <2> QED BY <1>4, <2>1 DEF l
<1>6. Off(cstack, co) BY <1>3, <1>4, <1>5, NotRunning
<1>7. IsState(t) /\ t.status = "ok" /\ Len(t.ci) = 1 /\ t.allowhook /\ t.errfunc.at = 0 /\ t.errorJmp = 0
  <2>1. PICK s : s = NewState OBVIOUS
  <2>2. IsState(s) /\ s.status = "ok" /\ Len(s.ci) = 1 /\ s.allowhook /\ s.errfunc.at = 0 /\ s.errorJmp = 0
    BY <2>1, NewStateTypes
  <2>3. s.top + 1 \in Int BY <2>2, FieldTypes
  <2>4. t = [s EXCEPT !.top = s.top + 1, !.body = fn] BY <1>1, <2>1
  <2>5. fn \in Bodies BY DEF Bodies
  <2> QED BY Zenon, <2>2, <2>3, <2>4, <2>5 DEF IsState, LuaState
<1>8. Suspended(t) BY <1>7 DEF Suspended
<1>9. ThreadOK(cstack, t, co) BY <1>6, <1>7, <1>8, OffThread
<1>10. DOMAIN lstate = Threads /\ StackOK(cstack) BY <1>3 DEF IInv, Good
<1>11. lstate' = [lstate EXCEPT ![co] = t] /\ UNCHANGED <<uses, cstack>> BY <1>2 DEF Become
<1>12. DOMAIN lstate' = Threads /\ lstate'[co] = t /\ \A th \in Threads : th \notin {co} => lstate'[th] = lstate[th]
  BY <1>3, <1>10, <1>11
<1>13. Step(cstack, cstack', {co}) BY <1>3, <1>11, StepSelf
<1>14. \A th \in Threads : th \in {co} => IsState(lstate'[th]) /\ ThreadOK(cstack', lstate'[th], th)
  BY <1>7, <1>9, <1>11, <1>12
<1> QED BY <1>3, <1>10, <1>11, <1>12, <1>13, <1>14, FinishStep

(* A frame f of lua_resume for the coroutine co, with the state c.          *)
StartsResume(cs, th, t, co, f, c) ==
  /\ Ready(cs, th, t) /\ Last(cs).k \in CCode /\ t.nCcalls < LUAI_MAXCCALLS
  /\ co \in Coroutines /\ Off(cs, co)
  /\ f \in Frames /\ f.k = "resume" /\ f.L = co /\ f.from = th /\ f.status = "ok" /\ f.previous = 0
  /\ IsState(c) /\ Suspended(c) /\ c.status \in {"ok", "yield"} /\ c.errorJmp = Len(cs) + 1
  /\ c.nCcalls = t.nCcalls + 1 /\ c.baseCcalls = t.nCcalls + 1

LEMMA ResumePushed ==
  ASSUME NEW cs, NEW th, NEW t, NEW co, NEW f, NEW c, StartsResume(cs, th, t, co, f, c)
  PROVE  /\ StackOK(Append(cs, f)) /\ Step(cs, Append(cs, f), {co})
         /\ ThreadOK(Append(cs, f), t, th) /\ ThreadOK(Append(cs, f), c, co)
<1> DEFINE new == Append(cs, f)
           n == Len(cs)
<1>0. /\ Ready(cs, th, t) /\ Last(cs).k \in CCode /\ t.nCcalls < LUAI_MAXCCALLS
      /\ co \in Coroutines /\ (\A i \in 1..n : cs[i].L # co)
      /\ f \in Frames /\ f.k = "resume" /\ f.L = co /\ f.from = th /\ f.status = "ok" /\ f.previous = 0
      /\ IsState(c) /\ Suspended(c) /\ c.status \in {"ok", "yield"} /\ c.errorJmp = n + 1
      /\ c.nCcalls = t.nCcalls + 1 /\ c.baseCcalls = t.nCcalls + 1
  BY DEF StartsResume, Off
<1>1. /\ cs \in Seq(Frames) /\ cs # <<>> /\ cs[n] \in Frames /\ th = cs[n].L /\ FrameAt(cs, n) /\ IsState(t) /\ StackOK(cs)
      /\ t.nCcalls = DepthAt(cs, n) /\ cs[n] = Last(cs) /\ n \in Nat \ {0} /\ t.nCcalls \in Nat
  BY <1>0, ReadyFacts, FieldTypes
<1>2. co # th /\ co # MainThread
  <2>1. n \in 1..n BY <1>1
  <2> QED BY <1>0, <1>1, <2>1, LimitsAssumption
<1>3. new \in Seq(Frames) /\ Len(new) = n + 1 /\ new[n + 1] = f /\ (\A i \in 1..n : new[i] = cs[i]) /\ new # <<>>
  BY <1>0, <1>1, FrontAppend
<1>4. WaitAt(cs, n) BY <1>0 DEF Ready, Placed
<1> HIDE DEF n, new
<1>5. SameUpTo(cs, new, n) BY <1>1, <1>3 DEF SameUpTo, Like, n
<1>6. n \in 0..n /\ n \in 1..n /\ n + 1 \in 1..(n + 1) /\ n + 1 \in Nat \ {0} /\ n + 1 # 1 /\ n + 1 > 1 /\ (n + 1) - 1 = n BY <1>1
<1>7. DepthAt(new, n + 1) = t.nCcalls + 1
  <2>1. DepthAt(new, n + 1) = DepthAt(new, (n + 1) - 1) + (IF new[n + 1].k \in {"call", "resume"} THEN 1 ELSE 0)
    BY <1>6, DepthNext
  <2>2. DepthAt(new, n) = DepthAt(cs, n) BY <1>5, <1>6, SameCounts
  <2> QED BY <1>0, <1>1, <1>3, <1>6, <2>1, <2>2
<1>8. FrameAt(new, n + 1)
  <2>1. StandsOn(new[n + 1], new[n]) BY <1>0, <1>1, <1>3, <1>6 DEF StandsOn
  <2>2. ResumeAt(new, n + 1) BY <1>0, <1>1, <1>3, <1>6 DEF ResumeAt
  <2>3. Segment(new, n + 1)
    <3> SUFFICES ASSUME NEW j \in 1..n PROVE \E r \in (j + 1)..(n + 1) : Resumes(new[r], co)
      BY <1>0, <1>3, <1>6 DEF Segment
    <3>1. n + 1 \in (j + 1)..(n + 1) BY <1>1
    <3> QED BY <1>0, <1>3, <3>1 DEF Resumes
  <2>4. DepthAt(new, n + 1) <= LUAI_MAXCCALLS + ErrorCCalls BY <1>0, <1>1, <1>7, LimitsAssumption
  <2> QED BY <1>0, <1>3, <1>6, <2>1, <2>2, <2>3, <2>4 DEF FrameAt
<1>9. StackOK(new)
  <2>1. ASSUME NEW i \in (n + 1)..Len(new) PROVE FrameAt(new, i)
    <3>1. i = n + 1 BY <1>3, <2>1
    <3> QED BY <1>8, <3>1
  <2>2. ASSUME NEW i \in 1..(Len(new) - 1), i >= n PROVE WaitAt(new, i)
    <3>1. i = n BY <1>1, <1>3, <2>2
    <3>2. WaitAt(new, n) BY <1>4, <1>5, <1>6, SameFrame
    <3> QED BY <3>1, <3>2
  <2> QED BY <1>1, <1>5, <2>1, <2>2, StackStep
<1>10. Step(cs, new, {co})
  <2>1. Above(cs, n, {co})
    <3>1. \A i \in (n + 1)..Len(cs) : FALSE BY <1>1 DEF n
    <3> QED BY <3>1 DEF Above
  <2>2. Above(new, n, {co})
    <3>1. \A i \in (n + 1)..Len(new) : i = n + 1 BY <1>1, <1>3
    <3> QED BY <1>0, <1>3, <3>1 DEF Above
  <2> QED BY <1>1, <1>5, <2>1, <2>2 DEF Step
<1>11. ThreadOK(new, t, th)
  <2>1. ThreadOK(cs, t, th) BY <1>0, ReadyThread
  <2>2. th \notin {co} BY <1>2
  <2> QED BY <1>10, <2>1, <2>2, OtherThread
<1>12. Protection(new, n + 1, c, co)
  <2>1. LastProtected(new, n + 1, co, n + 1)
    <3>1. \A j \in ((n + 1) + 1)..(n + 1) : FALSE BY <1>1
    <3> QED BY <1>0, <1>1, <1>3, <3>1 DEF LastProtected, Protects
  <2>2. c.errfunc.at = 0 BY <1>0 DEF Suspended
  <2>3. ASSUME NEW r \in 1..(n + 1), Resumes(new[r], co) PROVE c.baseCcalls = DepthAt(new, r)
    <3>1. r = n + 1
      <4>1. ~ (r \in 1..n) BY <1>0, <1>3, <2>3 DEF Resumes
      <4> QED BY <1>1, <4>1
    <3> QED BY <1>0, <1>7, <3>1
  <2> QED BY <1>0, <2>1, <2>2, <2>3 DEF Protection, HandlerIn
<1>13. AtResume(new, n + 1, c)
  <2>1. c.nCcalls >= 1 BY <1>0, <1>1
  <2> QED BY <1>0, <1>3, <1>7, <2>1 DEF AtResume
<1>14. ThreadAt(new, n + 1, c, co) BY <1>0, <1>3, <1>12, <1>13 DEF ThreadAt
<1>15. \A k \in 1..Len(new) : IsTop(new, k, co) => k = n + 1
  <2> SUFFICES ASSUME NEW k \in 1..Len(new), IsTop(new, k, co) PROVE k = n + 1 OBVIOUS
  <2>1. ~ (k \in 1..n) BY <1>0, <1>3 DEF IsTop
  <2> QED BY <1>1, <1>3, <2>1
<1>16. ThreadOK(new, c, co)
  <2>1. \E i \in 1..Len(new) : new[i].L = co BY <1>0, <1>3, <1>6
  <2> QED BY <1>2, <1>14, <1>15, <2>1 DEF ThreadOK
<1> QED BY <1>9, <1>10, <1>11, <1>16 DEF new

LEMMA StepMore ==
  ASSUME NEW cs, NEW new, NEW X, NEW Y, Step(cs, new, X), X \subseteq Y
  PROVE  Step(cs, new, Y)
BY DEF Step, Above

(* A step that changes two threads.                                         *)
LEMMA FinishTwo ==
  ASSUME IInv, cstack # <<>>, UNCHANGED uses, NEW a \in Threads, NEW b \in Threads, a # b, NEW ta, NEW tb,
         lstate' = [lstate EXCEPT ![a] = ta, ![b] = tb], NEW new, cstack' = new, StackOK(new), new # <<>>,
         Step(cstack, new, {a, b}), IsState(ta), ThreadOK(new, ta, a), IsState(tb), ThreadOK(new, tb, b)
  PROVE  IInv'
<1>1. DOMAIN lstate = Threads BY DEF IInv
<1>2. DOMAIN lstate' = Threads /\ lstate'[a] = ta /\ lstate'[b] = tb
      /\ \A th \in Threads : th \notin {a, b} => lstate'[th] = lstate[th]
  BY <1>1
<1>3. \A th \in Threads : th \in {a, b} => IsState(lstate'[th]) /\ ThreadOK(cstack', lstate'[th], th) BY <1>2
<1>4. StackOK(cstack') /\ cstack' # <<>> /\ Step(cstack, cstack', {a, b}) OBVIOUS
<1> QED BY <1>2, <1>3, <1>4, FinishStep

LEMMA SuspendedRoom ==
  ASSUME NEW t, IsState(t), Suspended(t), t.errorJmp = 0, NEW n \in Int
  PROVE  LET u == [lua_checkstack(t, n).t EXCEPT !.top = lua_checkstack(t, n).t.top + n]
         IN  IsState(u) /\ Suspended(u) /\ u.errorJmp = 0 /\ u.status = t.status
<1> DEFINE r == lua_checkstack(t, n).t
           u == [r EXCEPT !.top = r.top + n]
<1>1. Keeps(t, r) /\ IsState(r) BY LuaCheckstackKeeps DEF Keeps
<1> HIDE DEF r
<1>2. r.top + n \in Int BY <1>1, FieldTypes
<1>3. Keeps(t, u) BY <1>1, <1>2, SetTop, KeepsTrans
<1> HIDE DEF u
<1>4. IsState(u) /\ SameCalls(t, u) /\ u.status = t.status /\ u.allowhook = t.allowhook /\ u.errfunc = t.errfunc /\ u.errorJmp = t.errorJmp
  BY <1>3 DEF Keeps, SameControl
<1>5. Suspended(u) BY <1>4, SuspendedKeeps
<1>6. IsState(u) /\ Suspended(u) /\ u.errorJmp = 0 /\ u.status = t.status BY <1>4, <1>5
<1> QED BY <1>6 DEF u, r

LEMMA ResumeErrorKeeps == ASSUME NEW t, IsState(t) PROVE Keeps(t, resume_error(t))
<1>1. PICK t1 : t1 = [t EXCEPT !.top = Ci(t).base] BY Zenon
<1>2. PICK t2 : t2 = incr_top(t1) OBVIOUS
<1>3. Ci(t).base \in Int BY LastCi, CiTypes
<1>4. Keeps(t, t1) /\ IsState(t1) BY <1>1, <1>3, SetTop DEF Keeps
<1>5. Keeps(t1, t2) /\ IsState(t2) BY <1>2, <1>4, IncrTopKeeps DEF Keeps
<1>6. t2.top - 1 \in Int BY <1>5, FieldTypes
<1>7. Keeps(t2, [t2 EXCEPT !.top = t2.top - 1]) BY <1>5, <1>6, SetTop
<1>8. resume_error(t) = [t2 EXCEPT !.top = t2.top - 1] BY <1>1, <1>2 DEF resume_error
<1> QED BY <1>4, <1>5, <1>7, <1>8, KeepsTrans

LEMMA SuspendedStatus ==
  ASSUME IInv, cstack # <<>>, NEW co \in Coroutines, costatus(co) = "suspended"
  PROVE  /\ co # L /\ Off(cstack, co) /\ IsState(lstate[co]) /\ Suspended(lstate[co]) /\ lstate[co].errorJmp = 0
         /\ lstate[co].status \in {"yield", "ok"} /\ co \in Threads
<1>0. co \in Threads BY DEF Threads
<1>1. co # L /\ (lstate[co].status = "yield" \/ (lstate[co].status = "ok" /\ ~ (Len(lstate[co].ci) > 1))) BY DEF costatus
<1>2. Len(lstate[co].ci) \in Nat
  <2>1. IsState(lstate[co]) BY <1>0 DEF IInv, Good
  <2> QED BY <2>1, FieldTypes
<1>3. lstate[co].status # "ok" \/ Len(lstate[co].ci) <= 1 BY <1>1, <1>2
<1>4. Off(cstack, co) BY <1>1, <1>3, NotRunning
<1> QED BY <1>0, <1>1, <1>4, OffSuspended

LEMMA ResumeFrameTypes ==
  ASSUME NEW co \in Threads, NEW th \in Threads, NEW previous \in Nat, NEW n \in Int
  PROVE  LET f == [k |-> "resume", L |-> co, from |-> th, status |-> "ok", previous |-> previous, n |-> n]
         IN  /\ f \in Frames /\ f.k = "resume" /\ f.L = co /\ f.from = th /\ f.status = "ok" /\ f.previous = previous
             /\ f.n = n
<1> DEFINE f == [k |-> "resume", L |-> co, from |-> th, status |-> "ok", previous |-> previous, n |-> n]
<1>1. f \in ResumeFrame BY DEF ResumeFrame
<1> QED BY <1>1 DEF Frames

LEMMA CoresumeStep == ASSUME IInv, NEW co \in Coroutines, NEW n \in NArgs, luaB_coresume(co, n) PROVE IInv'
<1>1. InC /\ costatus(co) = "suspended" BY DEF luaB_coresume
<1>2. PICK r : r = lua_checkstack(lstate[co], n) OBVIOUS
<1>3. PICK u : u = [r.t EXCEPT !.top = r.t.top + n] BY Zenon
<1>4. PICK t : t = [u EXCEPT !.nCcalls = l.nCcalls] BY Zenon
<1>5. PICK c : c = [t EXCEPT !.nCcalls = t.nCcalls + 1, !.baseCcalls = t.nCcalls + 1, !.errorJmp = Len(cstack) + 1] OBVIOUS
<1>6. PICK f : f = [k |-> "resume", L |-> co, from |-> L, status |-> "ok", previous |-> t.errorJmp, n |-> n] BY Zenon
<1>7. IF ~ r.ok THEN luaG_runerror(L, WithValues(n + 1), cstack)
      ELSE IF t.nCcalls >= LUAI_MAXCCALLS
      THEN lstate' = [lstate EXCEPT ![co] = resume_error(t), ![L] = WithValues(2)] /\ UNCHANGED <<uses, cstack>>
      ELSE lstate' = [lstate EXCEPT ![co] = c, ![L] = WithValues(1)] /\ cstack' = Append(cstack, f) /\ UNCHANGED uses
  BY <1>2, <1>3, <1>4, <1>5, <1>6 DEF luaB_coresume, lua_setlevel
<1>8. At(cstack, L, l) /\ cstack # <<>> /\ IsState(l) /\ L \in Threads /\ Last(cstack).k \in CCode BY <1>1, CFacts
<1>9. /\ co # L /\ Off(cstack, co) /\ IsState(lstate[co]) /\ Suspended(lstate[co]) /\ lstate[co].errorJmp = 0
      /\ lstate[co].status \in {"yield", "ok"} /\ co \in Threads
  BY <1>1, <1>8, SuspendedStatus
<1>10. n \in Int /\ n + 1 \in Int BY InputTypes
<1>11. IsState(u) /\ Suspended(u) /\ u.errorJmp = 0 /\ u.status \in {"yield", "ok"}
  <2>1. PICK s : s = lstate[co] OBVIOUS
  <2>2. u = [lua_checkstack(s, n).t EXCEPT !.top = lua_checkstack(s, n).t.top + n] BY <1>2, <1>3, <2>1
  <2> QED BY <1>9, <1>10, <2>1, <2>2, SuspendedRoom
<1>12. l.nCcalls \in Nat BY <1>8, FieldTypes
<1>13. /\ IsState(t) /\ SameFields(u, t) /\ t.ci = u.ci /\ t.nCcalls = l.nCcalls /\ t.allowhook = u.allowhook
       /\ SameCalls(u, t)
  BY <1>4, <1>11, <1>12, AddCcall
<1>14. Suspended(t) /\ t.errorJmp = 0 /\ t.status \in {"yield", "ok"}
  <2>1. t.status = u.status /\ t.errfunc = u.errfunc /\ t.errorJmp = u.errorJmp BY <1>13 DEF SameFields
  <2>2. Suspended(t) BY <1>11, <1>13, <2>1, SuspendedKeeps
  <2> QED BY <1>11, <2>1, <2>2
<1>15. StackOK(cstack) /\ cstack \in Seq(Frames) BY <1>8, IInvFacts
<1>16. \A m \in {1, 2} : Keeps(l, WithValues(m)) /\ IsState(WithValues(m)) /\ At(cstack, L, WithValues(m))
  BY <1>1, WithValuesKeeps
<1>17. CASE ~ r.ok
  <2>1. PICK mine : mine = WithValues(n + 1) OBVIOUS
  <2>2. At(cstack, L, mine) BY <1>1, <1>10, <2>1, WithValuesKeeps
  <2> QED BY <1>7, <1>8, <1>17, <2>1, <2>2, Runerror DEF Goes
<1>18. CASE r.ok /\ t.nCcalls >= LUAI_MAXCCALLS
  <2>1. PICK mine : mine = WithValues(2) OBVIOUS
  <2>2. PICK e : e = resume_error(t) OBVIOUS
  <2>3. lstate' = [lstate EXCEPT ![co] = e, ![L] = mine] /\ UNCHANGED uses /\ cstack' = cstack BY <1>7, <1>18, <2>1, <2>2
  <2>4. IsState(mine) /\ ThreadOK(cstack, mine, L) BY <1>16, <2>1, ReadyThread DEF At
  <2>5. Keeps(t, e) BY <1>13, <2>2, ResumeErrorKeeps
  <2>6. /\ IsState(e) /\ SameCalls(t, e) /\ e.status = t.status /\ e.allowhook = t.allowhook /\ e.errfunc = t.errfunc
        /\ e.errorJmp = t.errorJmp
    BY <2>5 DEF Keeps, SameControl
  <2>7. Suspended(e) /\ e.errorJmp = 0 BY <1>13, <1>14, <2>6, SuspendedKeeps
  <2>8. ThreadOK(cstack, e, co) BY <1>9, <2>7, OffThread
  <2>9. Step(cstack, cstack, {co, L}) BY <1>15, StepSelf
  <2> QED BY Zenon, <1>8, <1>9, <1>15, <2>3, <2>4, <2>6, <2>8, <2>9, FinishTwo
<1>19. CASE r.ok /\ ~ (t.nCcalls >= LUAI_MAXCCALLS)
  <2>1. PICK mine : mine = WithValues(1) OBVIOUS
  <2>2. PICK new : new = Append(cstack, f) BY Zenon
  <2>3. lstate' = [lstate EXCEPT ![co] = c, ![L] = mine] /\ UNCHANGED uses /\ cstack' = new BY <1>7, <1>19, <2>1, <2>2
  <2>4. Keeps(l, mine) /\ IsState(mine) /\ Ready(cstack, L, mine) BY <1>16, <2>1 DEF At
  <2>5. mine.nCcalls = l.nCcalls BY <2>4 DEF Keeps, SameControl
  <2>6. Len(cstack) + 1 \in Nat /\ t.nCcalls + 1 \in Nat BY <1>12, <1>13, <1>15
  <2>7. /\ IsState(c) /\ c.ci = t.ci /\ c.status = t.status /\ c.allowhook = t.allowhook /\ c.errfunc = t.errfunc
        /\ c.errorJmp = Len(cstack) + 1 /\ c.nCcalls = t.nCcalls + 1 /\ c.baseCcalls = t.nCcalls + 1
    BY Zenon, <1>5, <1>13, <2>6 DEF IsState, LuaState
  <2>8. Suspended(c)
    <3>1. SameCalls(t, c) BY <2>7 DEF SameCalls
    <3> QED BY <1>13, <1>14, <2>7, <3>1, SuspendedKeeps
  <2>9. f \in Frames /\ f.k = "resume" /\ f.L = co /\ f.from = L /\ f.status = "ok" /\ f.previous = 0
    <3>1. PICK p : p = t.errorJmp OBVIOUS
    <3>2. p = 0 /\ p \in Nat BY <1>14, <3>1
    <3>3. f = [k |-> "resume", L |-> co, from |-> L, status |-> "ok", previous |-> p, n |-> n] BY <1>6, <3>1
    <3> HIDE DEF L
    <3>4. PICK th \in Threads : th = L BY <1>8
    <3>5. f = [k |-> "resume", L |-> co, from |-> th, status |-> "ok", previous |-> p, n |-> n] BY <3>3, <3>4
    <3> QED BY <1>9, <1>10, <3>2, <3>4, <3>5, ResumeFrameTypes
  <2>10. mine.nCcalls < LUAI_MAXCCALLS BY <1>12, <1>13, <1>19, <2>5, LimitsAssumption
  <2>11. c.nCcalls = mine.nCcalls + 1 /\ c.baseCcalls = mine.nCcalls + 1 /\ c.status \in {"ok", "yield"}
    BY <1>13, <1>14, <2>5, <2>7
  <2>12. StartsResume(cstack, L, mine, co, f, c)
    BY <1>8, <1>9, <2>4, <2>7, <2>8, <2>9, <2>10, <2>11 DEF StartsResume
  <2>13. StackOK(new) /\ Step(cstack, new, {co}) /\ ThreadOK(new, mine, L) /\ ThreadOK(new, c, co)
    BY <2>2, <2>12, ResumePushed
  <2>14. Step(cstack, new, {co, L}) BY <2>13, StepMore
  <2>15. new # <<>> BY <1>15, <2>2, <2>9, FrontAppend
  <2> QED BY Zenon, <1>8, <1>9, <2>3, <2>4, <2>7, <2>13, <2>14, <2>15, FinishTwo
<1> QED BY <1>17, <1>18, <1>19

(* lua_resume is over: its caller runs again.                               *)
LEMMA ResumeOver ==
  ASSUME IInv, cstack # <<>>, F.k = "resume", NEW th, th = F.from
  PROVE  /\ Ready(Callers, th, lstate[th]) /\ Step(cstack, Callers, {L}) /\ Off(Callers, L) /\ th # L
         /\ Last(Callers).k \in CCode /\ th \in Threads /\ L \in Coroutines /\ F.previous = 0 /\ AtResume(cstack, Len(cstack), l)
<1> DEFINE n == Len(cstack)
<1>1. /\ StackOK(cstack) /\ cstack \in Seq(Frames) /\ n \in Nat \ {0} /\ F = cstack[n] /\ F \in Frames
      /\ L = F.L /\ L \in Threads /\ ThreadAt(cstack, n, l, L) /\ FrameAt(cstack, n) /\ DOMAIN lstate = Threads
  BY IInvFacts
<1>2. ResumeAt(cstack, n) /\ n # 1 BY <1>1 DEF FrameAt
<1> HIDE DEF n
<1>3. n > 1 /\ n - 1 \in Nat \ {0} /\ n - 1 \in 1..n /\ n - 1 < n /\ n - 1 \in 1..(n - 1)
  <2>1. n \in Nat \ {0} /\ n # 1 BY <1>1, <1>2
  <2> QED BY <2>1
<1>4. th = cstack[n - 1].L /\ F.previous = 0 /\ L \in Coroutines /\ \A j \in 1..(n - 1) : cstack[j].L # L
  BY <1>1, <1>2 DEF ResumeAt
<1>5. AtResume(cstack, n, l) BY <1>1 DEF ThreadAt
<1>6. Callers \in Seq(Frames) /\ Len(Callers) = n - 1 /\ \A i \in 1..(n - 1) : Callers[i] = cstack[i]
  BY <1>1, FrontFacts DEF Callers, n
<1>7. SameUpTo(cstack, Callers, n - 1) BY <1>1, <1>3, <1>6 DEF SameUpTo, Like, n
<1>8. StackOK(Callers)
  <2>1. \A i \in ((n - 1) + 1)..Len(Callers) : FrameAt(Callers, i) BY <1>3, <1>6
  <2>2. \A i \in 1..(Len(Callers) - 1) : i >= n - 1 => WaitAt(Callers, i) BY <1>3, <1>6
  <2> QED BY <1>1, <1>7, <2>1, <2>2, StackStep
<1>9. Step(cstack, Callers, {L})
  <2>1. Above(cstack, n - 1, {L})
    <3>1. \A i \in ((n - 1) + 1)..Len(cstack) : i = n BY <1>1 DEF n
    <3> QED BY <1>1, <3>1 DEF Above
  <2>2. Above(Callers, n - 1, {L})
    <3>1. \A i \in ((n - 1) + 1)..Len(Callers) : FALSE BY <1>3, <1>6
    <3> QED BY <3>1 DEF Above
  <2> QED BY <1>3, <1>7, <2>1, <2>2 DEF Step
<1>10. Off(Callers, L) BY <1>4, <1>6 DEF Off
<1>11. th # L BY <1>3, <1>4
<1>12. th \in Threads /\ Callers # <<>> /\ Last(Callers) = cstack[n - 1] /\ Callers[Len(Callers)].L = th
  <2>1. cstack[n - 1] \in Frames BY <1>1, <1>3 DEF n
  <2> QED BY <1>3, <1>4, <1>6, <2>1, FrameTypes DEF Last
<1>13. Last(Callers).k \in CCode
  <2>1. StandsOn(cstack[n], cstack[n - 1]) BY <1>1, <1>3 DEF FrameAt
  <2> QED BY <1>1, <1>12, <2>1 DEF StandsOn
<1>14. PICK from : from = lstate[th] OBVIOUS
<1>15. IsState(from) /\ ThreadOK(cstack, from, th) BY <1>12, <1>14 DEF IInv, Good
<1>16. ThreadOK(Callers, from, th)
  <2>1. th \notin {L} BY <1>11
  <2> QED BY Zenon, <1>9, <1>15, <2>1, OtherThread
<1>17. ThreadAt(Callers, n - 1, from, th) /\ (th = MainThread => from.baseCcalls = 0)
  <2>1. IsTop(Callers, n - 1, th)
    <3>1. \A j \in ((n - 1) + 1)..Len(Callers) : FALSE BY <1>3, <1>6
    <3> QED BY <1>6, <1>12, <3>1 DEF IsTop
  <2>2. n - 1 \in 1..Len(Callers) BY <1>3, <1>6
  <2>3. Callers[n - 1].L = th BY <1>6, <1>12
  <2> QED BY <1>16, <2>1, <2>2, <2>3 DEF ThreadOK
<1>18. Protection(Callers, n - 1, from, th) /\ Runs(Callers, n - 1, from, th)
  <2>1. Callers[n - 1].k \in CCode BY <1>3, <1>6, <1>12, <1>13
  <2> QED BY <1>17, <2>1 DEF ThreadAt, CCode
<1>19. WaitAt(Callers, n - 1)
  <2>1. WaitAt(cstack, n - 1) BY <1>1, <1>3 DEF StackOK, n
  <2> QED BY <1>3, <1>7, <2>1, SameFrame
<1>20. Ready(Callers, th, from) BY <1>6, <1>8, <1>12, <1>15, <1>17, <1>18, <1>19 DEF Ready, Placed
<1> QED BY <1>4, <1>5, <1>9, <1>10, <1>11, <1>12, <1>13, <1>14, <1>20 DEF n

LEMMA UnprotectedState ==
  ASSUME NEW t, IsState(t), t.nCcalls >= 1, NEW f, f.previous = 0
  PROVE  LET u == [Unprotect(t, f) EXCEPT !.nCcalls = t.nCcalls - 1]
         IN  /\ IsState(u) /\ u.errorJmp = 0 /\ SameCalls(t, u) /\ u.status = t.status /\ u.allowhook = t.allowhook
             /\ u.errfunc = t.errfunc
<1> DEFINE u == [Unprotect(t, f) EXCEPT !.nCcalls = t.nCcalls - 1]
<1>0. PICK x : x = t.nCcalls - 1 OBVIOUS
<1>1. x \in Nat BY <1>0, FieldTypes
<1>2. u = [t EXCEPT !.errorJmp = 0, !.nCcalls = x] BY <1>0 DEF Unprotect, IsState, LuaState
<1> HIDE DEF u
<1>3. /\ IsState(u) /\ u.errorJmp = 0 /\ u.ci = t.ci /\ u.status = t.status /\ u.allowhook = t.allowhook /\ u.errfunc = t.errfunc
  BY Zenon, <1>1, <1>2 DEF IsState, LuaState
<1>4. SameCalls(t, u) BY <1>3 DEF SameCalls
<1> QED BY <1>3, <1>4 DEF u

LEMMA EndResumeStep == ASSUME IInv, EndResume PROVE IInv'
<1>1. PICK th : th = F.from OBVIOUS
<1>2. PICK from : from = lstate[th] OBVIOUS
<1>3. PICK t : t = [Unprotect(l, F) EXCEPT !.nCcalls = l.nCcalls - 1] BY Zenon
<1>4. PICK failed : failed = [luaD_seterrorobj(t, t.top) EXCEPT !.status = F.status] BY Zenon
<1>5. PICK n : n = l.top - l.base OBVIOUS
<1>6. PICK room : room = lua_checkstack(from, n + 1) OBVIOUS
<1>7. PICK dead : dead = [SetCiTop(failed, failed.top) EXCEPT !.top = failed.top - 1] BY Zenon
<1>8. /\ cstack # <<>> /\ F.k = "resume" /\ UNCHANGED uses
      /\ \/ /\ F.status # "ok"
            /\ lstate' = [lstate EXCEPT ![L] = dead, ![th] = [from EXCEPT !.top = from.top + 1]]
            /\ cstack' = Callers
         \/ /\ F.status = "ok" /\ room.ok
            /\ lstate' = [lstate EXCEPT ![L] = [t EXCEPT !.top = t.top - n], ![th] = [room.t EXCEPT !.top = room.t.top + n]]
            /\ cstack' = Callers
         \/ /\ F.status = "ok" /\ ~ room.ok
            /\ \E fn \in NextBodies : lstate' = [lstate EXCEPT ![L] = [t EXCEPT !.body = fn], ![th] = incr_top(from)]
            /\ cstack' = Append(Callers, [k |-> "errormsg", L |-> th, called |-> FALSE])
  <2>1. cstack # <<>> /\ F.k = "resume" /\ UNCHANGED uses BY DEF EndResume
  <2>2. CASE F.status # "ok" BY Zenon, <1>1, <1>2, <1>3, <1>4, <1>7, <2>1, <2>2 DEF EndResume
  <2>3. CASE F.status = "ok"
    <3>1. room = lua_checkstack(lstate[F.from], l.top - l.base + 1) BY <1>1, <1>2, <1>5, <1>6
    <3>2. CASE room.ok BY <1>1, <1>2, <1>3, <1>5, <2>1, <2>3, <3>1, <3>2 DEF EndResume
    <3>3. CASE ~ room.ok BY Zenon, <1>1, <1>2, <1>3, <2>1, <2>3, <3>1, <3>3 DEF EndResume
    <3> QED BY <3>2, <3>3
  <2> QED BY <2>1, <2>2, <2>3
<1>9. /\ Ready(Callers, th, from) /\ Step(cstack, Callers, {L}) /\ Off(Callers, L) /\ th # L
      /\ Last(Callers).k \in CCode /\ th \in Threads /\ L \in Coroutines /\ F.previous = 0 /\ AtResume(cstack, Len(cstack), l)
  BY Zenon, <1>1, <1>2, <1>8, ResumeOver
<1>10. /\ IsState(l) /\ L \in Threads /\ F = cstack[Len(cstack)] /\ F \in Frames BY <1>8, IInvFacts
<1>11. /\ IsState(t) /\ t.errorJmp = 0 /\ SameCalls(l, t) /\ t.status = l.status /\ t.allowhook = l.allowhook
       /\ t.errfunc = l.errfunc
  <2>1. l.nCcalls >= 1 BY <1>9 DEF AtResume
  <2> QED BY <1>3, <1>9, <1>10, <2>1, UnprotectedState
<1>12. IsState(from) /\ Callers # <<>> /\ StackOK(Callers) /\ Callers \in Seq(Frames) BY <1>9, ReadyFacts
<1>13. n \in Int /\ n + 1 \in Int /\ t.top - n \in Int /\ from.top + 1 \in Int /\ t.top + 1 \in Int
  <2>1. l.top \in Int /\ l.base \in Int /\ t.top \in Int /\ from.top \in Int BY <1>10, <1>11, <1>12, FieldTypes
  <2> QED BY <1>5, <2>1
<1>14. Step(cstack, Callers, {L, th}) BY <1>9, StepMore
<1>15. F.status = "ok" => Suspended(t)
  <2>1. F.status = "ok" => Suspended(l) BY <1>9, <1>10 DEF AtResume
  <2> QED BY <1>10, <1>11, <2>1, SuspendedKeeps
<1>16. CASE F.status # "ok"
  <2>1. PICK from2 : from2 = [from EXCEPT !.top = from.top + 1] BY Zenon
  <2>2. Keeps(from, from2) BY <1>12, <1>13, <2>1, SetTop
  <2>3. IsState(from2) /\ ThreadOK(Callers, from2, th)
    <3>1. Ready(Callers, th, from2) BY <1>9, <2>2, ReadyKeeps
    <3> QED BY <2>2, <3>1, ReadyThread DEF Keeps
  <2>4. F.status \in Errors BY <1>8, <1>10, <1>16, FrameTypes
  <2>5. IsState(dead) /\ dead.status = F.status /\ dead.errorJmp = 0
    <3>1. PICK t1 : t1 = luaD_seterrorobj(t, t.top) OBVIOUS
    <3>2. t.top \in Int BY <1>11, FieldTypes
    <3>3. IsState(t1) /\ t1.errorJmp = 0 BY <1>11, <3>1, <3>2, SeterrorobjKeeps DEF Keeps, SameControl
    <3>4. failed = [t1 EXCEPT !.status = F.status] BY <1>4, <3>1
    <3>5. IsState(failed) /\ failed.status = F.status /\ failed.errorJmp = 0
      <4>1. PICK s : s = F.status OBVIOUS
      <4>2. s \in Errors \cup {"ok", "yield", "none"} /\ failed = [t1 EXCEPT !.status = s] BY <2>4, <3>4, <4>1
      <4> QED BY Zenon, <3>3, <4>1, <4>2, SetStatus
    <3>6. failed.top \in Int /\ failed.top - 1 \in Int BY <3>5, FieldTypes
    <3>7. PICK t2 : t2 = SetCiTop(failed, failed.top) OBVIOUS
    <3>8. Keeps(failed, t2) /\ IsState(t2) BY <3>5, <3>6, <3>7, SetCiTopKeeps DEF Keeps
    <3>9. Keeps(t2, dead) BY <1>7, <3>6, <3>7, <3>8, SetTop
    <3> QED BY <3>5, <3>8, <3>9 DEF Keeps, SameControl
  <2>6. Suspended(dead) BY <2>4, <2>5 DEF Suspended
  <2>7. ThreadOK(Callers, dead, L) BY <1>9, <2>5, <2>6, OffThread
  <2>8. lstate' = [lstate EXCEPT ![L] = dead, ![th] = from2] /\ cstack' = Callers BY <1>8, <1>16, <2>1
  <2> QED BY Zenon, <1>8, <1>9, <1>10, <1>12, <1>14, <2>3, <2>5, <2>7, <2>8, FinishTwo
<1>17. CASE F.status = "ok" /\ room.ok
  <2>1. PICK t2, from2 : t2 = [t EXCEPT !.top = t.top - n] /\ from2 = [room.t EXCEPT !.top = room.t.top + n] BY Zenon
  <2>2. Keeps(t, t2) BY <1>11, <1>13, <2>1, SetTop
  <2>3. IsState(t2) /\ Suspended(t2) /\ t2.errorJmp = 0
    <3>1. IsState(t2) /\ SameCalls(t, t2) /\ t2.status = t.status /\ t2.allowhook = t.allowhook /\ t2.errfunc = t.errfunc
          /\ t2.errorJmp = t.errorJmp
      BY <2>2 DEF Keeps, SameControl
    <3> QED BY <1>11, <1>15, <1>17, <3>1, SuspendedKeeps
  <2>4. Keeps(from, room.t) /\ IsState(room.t) BY Zenon, <1>6, <1>12, <1>13, LuaCheckstackKeeps DEF Keeps
  <2>5. room.t.top + n \in Int
    <3>1. room.t.top \in Int BY <2>4, FieldTypes
    <3> QED BY <1>13, <3>1
  <2>6. Keeps(from, from2) BY <2>1, <2>4, <2>5, SetTop, KeepsTrans
  <2>7. IsState(from2) /\ ThreadOK(Callers, from2, th)
    <3>1. Ready(Callers, th, from2) BY <1>9, <2>6, ReadyKeeps
    <3> QED BY <2>6, <3>1, ReadyThread DEF Keeps
  <2>8. ThreadOK(Callers, t2, L) BY <1>9, <2>3, OffThread
  <2>9. lstate' = [lstate EXCEPT ![L] = t2, ![th] = from2] /\ cstack' = Callers BY <1>8, <1>17, <2>1
  <2> QED BY Zenon, <1>8, <1>9, <1>10, <1>12, <1>14, <2>3, <2>7, <2>8, <2>9, FinishTwo
<1>18. CASE F.status = "ok" /\ ~ room.ok
  <2>a. PICK fn \in NextBodies : lstate' = [lstate EXCEPT ![L] = [t EXCEPT !.body = fn], ![th] = incr_top(from)]
    BY <1>8, <1>18
  <2>b. PICK t2 : t2 = [t EXCEPT !.body = fn] OBVIOUS
  <2>c. fn \in Bodies
    <3>1. l.body \in Bodies BY <1>10, FieldTypes
    <3> QED BY <3>1 DEF NextBodies, Bodies
  <2>d. /\ IsState(t2) /\ t2.ci = t.ci /\ t2.status = t.status /\ t2.errfunc = t.errfunc
        /\ t2.allowhook = t.allowhook /\ t2.errorJmp = t.errorJmp
    BY <1>11, <2>b, <2>c, SetBody
  <2>e. Suspended(t2) /\ t2.errorJmp = 0
    <3>1. SameCalls(t, t2) BY <2>d DEF SameCalls
    <3> QED BY <1>11, <1>15, <1>18, <2>d, <3>1, SuspendedKeeps
  <2>1. PICK from2 : from2 = incr_top(from) OBVIOUS
  <2>2. PICK f : f = [k |-> "errormsg", L |-> th, called |-> FALSE] BY Zenon
  <2>3. PICK new : new = Append(Callers, f) BY Zenon
  <2>4. Keeps(from, from2) BY <1>12, <2>1, IncrTopKeeps
  <2>5. f \in Frames /\ f.L = th /\ f.k = "errormsg" /\ CallsIn(f) = 0
    <3>1. FALSE \in BOOLEAN OBVIOUS
    <3> QED BY Zenon, <1>9, <2>2, <3>1, ErrormsgTypes
  <2>6. StandsOn(f, Last(Callers)) /\ NoContinue(f, Last(Callers)) BY <1>9, <2>5 DEF StandsOn, NoContinue
  <2>7. /\ IsState(from2) /\ SameFields(from, from2) /\ from2.nCcalls = from.nCcalls /\ from2.allowhook = from.allowhook
        /\ SameCalls(from, from2)
    BY <2>4 DEF Keeps, SameControl, SameFields
  <2>8. Calls(from, from2, 0, f) BY <1>12, <2>5, <2>7, CallsSame
  <2>9. from2.nCcalls = from.nCcalls + (IF f.k = "call" THEN 1 ELSE 0)
    <3>1. from.nCcalls \in Nat BY <1>12, FieldTypes
    <3> QED BY <2>5, <2>7, <3>1
  <2>10. from2.allowhook <=> from.allowhook /\ f.k # "hook" BY <2>5, <2>7
  <2>11. Ready(new, th, from2) /\ Step(Callers, new, {th})
    BY Zenon, <1>9, <2>3, <2>5, <2>6, <2>7, <2>8, <2>9, <2>10, PushFrame
  <2>12. Step(cstack, new, {L, th})
    <3>1. Step(Callers, new, {L, th}) BY <2>11, StepMore
    <3> QED BY <1>14, <3>1, StepTrans
  <2>13. ThreadOK(new, t2, L)
    <3>1. ThreadOK(Callers, t2, L) BY <1>9, <2>e, OffThread
    <3>2. L \notin {th} BY <1>9
    <3> QED BY <2>11, <3>1, <3>2, OtherThread
  <2>14. ThreadOK(new, from2, th) /\ StackOK(new) /\ new # <<>> BY <2>11, ReadyThread, ReadyFacts
  <2>15. lstate' = [lstate EXCEPT ![L] = t2, ![th] = from2] /\ cstack' = new BY <1>8, <1>18, <2>a, <2>b, <2>1, <2>2, <2>3
  <2> QED BY Zenon, <1>8, <1>9, <1>10, <2>d, <2>7, <2>12, <2>13, <2>14, <2>15, FinishTwo
<1> QED BY <1>8, <1>16, <1>17, <1>18

(* Where the check in lua_yield leads: the C function that yields has been  *)
(* called by the luaV_execute that lua_resume runs.                         *)
YieldPlace(cs, n, th) ==
  /\ n > 2 /\ cs[n - 1].k = "execute" /\ cs[n - 1].L = th /\ cs[n - 2].k = "resume" /\ cs[n - 2].L = th
  /\ DepthAt(cs, n - 2) = DepthAt(cs, n)

LEMMA Nested ==
  ASSUME NEW cs, StackOK(cs), NEW n \in Nat \ {0}, n = Len(cs), cs[n].k = "cfunc", NEW th, cs[n].L = th
  PROVE  \/ n > 1 /\ cs[n - 1].k = "call" /\ cs[n - 1].L = th /\ DepthAt(cs, n) = DepthAt(cs, n - 1)
         \/ /\ n > 2 /\ cs[n - 1].k = "execute" /\ cs[n - 1].L = th /\ cs[n - 2].k \in {"call", "resume"} /\ cs[n - 2].L = th
            /\ DepthAt(cs, n) = DepthAt(cs, n - 2)
<1>1. cs \in Seq(Frames) /\ FrameAt(cs, n) BY DEF StackOK
<1>2. n > 1 /\ n - 1 \in Nat \ {0} /\ n - 1 \in 1..Len(cs)
  <2>1. n # 1 BY <1>1 DEF FrameAt
  <2> QED BY <2>1
<1>3. cs[n - 1].k \in {"call", "execute"} /\ cs[n - 1].L = th BY <1>1, <1>2 DEF FrameAt, StandsOn
<1>4. DepthAt(cs, n) = DepthAt(cs, n - 1)
  <2>1. DepthAt(cs, n) = DepthAt(cs, n - 1) + (IF cs[n].k \in {"call", "resume"} THEN 1 ELSE 0) BY DepthNext
  <2>2. DepthAt(cs, n - 1) \in Nat BY <1>2, DepthType
  <2> QED BY <2>1, <2>2
<1>5. CASE cs[n - 1].k = "execute"
  <2>1. FrameAt(cs, n - 1) BY <1>2 DEF StackOK
  <2>2. n - 1 # 1 BY <1>5, <2>1 DEF FrameAt
  <2>3. n > 2 /\ n - 1 > 1 /\ (n - 1) - 1 = n - 2 /\ n - 2 \in Nat \ {0} BY <1>2, <2>2
  <2>4. cs[n - 2].k \in {"call", "resume"} /\ cs[n - 2].L = th BY <1>3, <1>5, <2>1, <2>3 DEF FrameAt, StandsOn
  <2>5. DepthAt(cs, n - 1) = DepthAt(cs, n - 2)
    <3>1. DepthAt(cs, n - 1) = DepthAt(cs, (n - 1) - 1) + (IF cs[n - 1].k \in {"call", "resume"} THEN 1 ELSE 0)
      BY <1>2, DepthNext
    <3>2. DepthAt(cs, n - 2) \in Nat BY <2>3, DepthType
    <3> QED BY <1>5, <2>3, <3>1, <3>2
  <2> QED BY <1>3, <1>4, <1>5, <2>3, <2>4, <2>5
<1> QED BY <1>2, <1>3, <1>4, <1>5

LEMMA DepthLess ==
  ASSUME NEW cs, NEW j \in Nat \ {0}, cs[j].k \in {"call", "resume"}, NEW r \in 1..j, DepthAt(cs, j) <= DepthAt(cs, r)
  PROVE  r = j
<1> SUFFICES ASSUME r # j PROVE FALSE OBVIOUS
<1>1. r \in 0..(j - 1) /\ j - 1 \in Nat OBVIOUS
<1>2. DepthAt(cs, r) <= DepthAt(cs, j - 1) BY <1>1, DepthGrows
<1>3. DepthAt(cs, j) = DepthAt(cs, j - 1) + 1 BY DepthNext
<1>4. DepthAt(cs, j - 1) \in Nat /\ DepthAt(cs, j) \in Nat /\ DepthAt(cs, r) \in Nat BY <1>1, DepthType
<1> QED BY <1>2, <1>3, <1>4

LEMMA MayYieldPlace ==
  ASSUME NEW cs, NEW th, NEW t, Ready(cs, th, t), NEW n \in Nat \ {0}, n = Len(cs), cs[n].k = "cfunc", MayYield(t)
  PROVE  YieldPlace(cs, n, th)
<1>1. /\ StackOK(cs) /\ cs[n].L = th /\ th \in Threads /\ IsState(t) /\ t.nCcalls = DepthAt(cs, n) /\ FrameAt(cs, n)
      /\ cs \in Seq(Frames)
  BY ReadyFacts
<1>2. t.nCcalls <= t.baseCcalls /\ t.baseCcalls \in Nat /\ t.nCcalls \in Nat BY <1>1, FieldTypes DEF MayYield
<1>3. Protection(cs, n, t, th) /\ (th = MainThread => t.baseCcalls = 0) BY DEF Ready, Placed
<1>4. PICK j \in 1..(n - 1) :
        /\ cs[j].k \in {"call", "resume"} /\ DepthAt(cs, n) = DepthAt(cs, j)
        /\ \A i \in (j + 1)..n : cs[i].k # "resume"
        /\ j = n - 1 => cs[j].k = "call"
        /\ j # n - 1 => n > 2 /\ j = n - 2 /\ cs[n - 1].k = "execute" /\ cs[n - 1].L = th /\ cs[j].L = th
  <2>1. CASE n > 1 /\ cs[n - 1].k = "call" /\ cs[n - 1].L = th /\ DepthAt(cs, n) = DepthAt(cs, n - 1)
    <3>1. n - 1 \in 1..(n - 1) BY <2>1
    <3>2. \A i \in ((n - 1) + 1)..n : i = n OBVIOUS
    <3>3. \A i \in ((n - 1) + 1)..n : cs[i].k # "resume" BY <3>2
    <3> QED BY <2>1, <3>1, <3>3
  <2>2. CASE /\ n > 2 /\ cs[n - 1].k = "execute" /\ cs[n - 1].L = th /\ cs[n - 2].k \in {"call", "resume"} /\ cs[n - 2].L = th
             /\ DepthAt(cs, n) = DepthAt(cs, n - 2)
    <3>1. n - 2 \in 1..(n - 1) /\ n - 2 # n - 1 BY <2>2
    <3>2. \A i \in ((n - 2) + 1)..n : i = n \/ i = n - 1 OBVIOUS
    <3>3. \A i \in ((n - 2) + 1)..n : cs[i].k # "resume" BY <2>2, <3>2
    <3> QED BY <2>2, <3>1, <3>3
  <2> QED BY SMTT(30), <1>1, <2>1, <2>2, Nested
<1>5. j \in Nat \ {0} /\ j \in 1..n OBVIOUS
<1>6. th # MainThread
  <2> SUFFICES ASSUME th = MainThread PROVE FALSE OBVIOUS
  <2>1. DepthAt(cs, j) = DepthAt(cs, j - 1) + 1 BY <1>4, <1>5, DepthNext
  <2>2. j - 1 \in Nat /\ DepthAt(cs, j - 1) \in Nat BY <1>5, DepthType
  <2> QED BY <1>1, <1>2, <1>3, <1>4, <2>1, <2>2
<1>7. PICK r \in 1..n : Resumes(cs[r], th)
  <2>1. FrameAt(cs, 1)
    <3>1. PICK i \in 1..Len(cs) : i = 1 OBVIOUS
    <3>2. FrameAt(cs, i) BY <1>1 DEF StackOK
    <3> QED BY <3>1, <3>2
  <2>2. cs[1].L = MainThread BY <2>1 DEF FrameAt
  <2>3. n # 1 /\ 1 \in 1..(n - 1)
    <3>1. n # 1 BY <1>1, <1>6, <2>2
    <3> QED BY <3>1
  <2>4. \E r \in (1 + 1)..n : Resumes(cs[r], cs[n].L) BY <1>1, <1>6, <2>2, <2>3 DEF FrameAt, Segment
  <2> QED BY <1>1, <2>4
<1>8. t.baseCcalls = DepthAt(cs, r) BY <1>3, <1>7 DEF Protection
<1>9. r \in 1..j
  <2>1. ~ (r \in (j + 1)..n) BY <1>4, <1>7 DEF Resumes
  <2> QED BY <1>5, <2>1
<1>10. DepthAt(cs, j) <= DepthAt(cs, r) BY <1>1, <1>2, <1>4, <1>8
<1>11. r = j BY <1>4, <1>5, <1>9, <1>10, DepthLess
<1>12. j # n - 1 /\ cs[j].k = "resume" BY <1>4, <1>7, <1>11 DEF Resumes
<1> QED BY <1>4, <1>12 DEF YieldPlace

LEMMA YieldedCalls ==
  ASSUME NEW cs, NEW th, NEW t, Ready(cs, th, t), NEW n \in Nat \ {0}, n = Len(cs), cs[n].k = "cfunc", YieldPlace(cs, n, th)
  PROVE  Yielded(t.ci) /\ t.errfunc.at = 0 /\ t.allowhook
<1>1. /\ StackOK(cs) /\ cs[n].L = th /\ th \in Threads /\ IsState(t) /\ cs \in Seq(Frames)
      /\ (t.allowhook <=> NoHook(cs, n, th))
  BY ReadyFacts
<1>2. n > 2 /\ n - 1 \in 1..n /\ n - 2 \in 1..Len(cs) /\ n - 2 \in 1..(n - 1) /\ n \in 1..n /\ n - 1 \in 1..Len(cs) /\ n \in 1..Len(cs)
      /\ (n - 1) - 1 = n - 2
  BY DEF YieldPlace
<1>3. cs[n - 2].k = "resume" /\ cs[n - 2].L = th /\ cs[n - 1].k = "execute" /\ cs[n - 1].L = th BY DEF YieldPlace
<1>4. FrameAt(cs, n - 2) BY <1>1, <1>2 DEF StackOK
<1>5. /\ CallsBelow(cs, th, n - 2) = 0 /\ NoHook(cs, n - 2, th) /\ (\A p \in 1..(n - 2) : ~ IsPcall(cs[p], th))
  <2>1. PICK m \in 1..Len(cs) : m = n - 2 BY <1>2
  <2>2. cs[m].k = "resume" /\ cs[m].L = th /\ FrameAt(cs, m) BY <1>3, <1>4, <2>1
  <2>3. CallsBelow(cs, th, m) = 0 /\ NoHook(cs, m, th) /\ \A p \in 1..m : ~ IsPcall(cs[p], th) BY <1>1, <2>2, NoneBefore
  <2> QED BY <2>1, <2>3
<1>6. \A p \in 1..n : p = n \/ p = n - 1 \/ p \in 1..(n - 2) BY <1>2
<1>7. t.allowhook
  <2>1. NoHook(cs, n, th) BY <1>3, <1>5, <1>6 DEF NoHook
  <2> QED BY <1>1, <2>1
<1>8. t.errfunc.at = 0
  <2>1. \A p \in 1..n : ~ IsPcall(cs[p], th) BY <1>3, <1>5, <1>6 DEF IsPcall
  <2>2. HandlerIn(cs, n, th, t.errfunc) BY DEF Ready, Placed, Protection
  <2> QED BY <2>1, <2>2 DEF HandlerIn
<1>9. PICK x \in Nat \ {0} : x = cs[n - 1].nexeccalls /\ CallsIn(cs[n - 1]) = x /\ KindIn(cs[n - 1]) = "lua"
  <2>1. cs[n - 1] \in Frames BY <1>1, <1>2
  <2>2. cs[n - 1].nexeccalls \in Nat \ {0} BY <1>3, <2>1, FrameTypes
  <2> QED BY <1>3, <2>2 DEF CallsIn, KindIn
<1>10. CallsIn(cs[n]) = 1 /\ KindIn(cs[n]) = "c" BY DEF CallsIn, KindIn
<1>11. CallsBelow(cs, th, n - 1) = x
  <2>1. CallsBelow(cs, th, n - 1) = CallsBelow(cs, th, (n - 1) - 1) + (IF cs[n - 1].L = th THEN CallsIn(cs[n - 1]) ELSE 0)
    BY <1>1, <1>2, CallsBelowNext
  <2> QED BY <1>2, <1>3, <1>5, <1>9, <2>1
<1>12. CallsBelow(cs, th, n) = x + 1
  <2>1. CallsBelow(cs, th, n) = CallsBelow(cs, th, n - 1) + (IF cs[n].L = th THEN CallsIn(cs[n]) ELSE 0)
    BY <1>1, <1>2, CallsBelowNext
  <2> QED BY <1>1, <1>10, <1>11, <2>1
<1>13. PICK b \in 1..Len(t.ci) : AgreesFrom(cs, n, t.ci, th, b) /\ Len(t.ci) = b + CallsBelow(cs, th, n) BY DEF Ready, Runs
<1>14. PICK c : c = t.ci OBVIOUS
<1>15. Len(c) = b + x + 1 /\ Len(c) > 2 /\ Len(c) \in Nat
  <2>1. Len(t.ci) \in Nat BY <1>1, FieldTypes
  <2>2. b \in Nat \ {0} BY <2>1
  <2>3. Len(c) = b + (x + 1) BY <1>12, <1>13, <1>14
  <2> QED BY <2>2, <2>3
<1>16. FunctionsAt(cs, n - 1, c, th, b) /\ FunctionsAt(cs, n, c, th, b) BY <1>1, <1>2, <1>3, <1>13, <1>14 DEF AgreesFrom
<1>17. \A m \in 1..x : Kind(c[b + m]) = "lua"
  <2>1. \A m \in 1..x : Kind(c[b + CallsBelow(cs, th, (n - 1) - 1) + m]) = "lua" BY <1>9, <1>16 DEF FunctionsAt
  <2>2. CallsBelow(cs, th, (n - 1) - 1) = 0 BY <1>2, <1>5
  <2> QED BY <1>13, <2>1, <2>2
<1>18. Kind(c[Len(c)]) = "c"
  <2>1. Kind(c[b + CallsBelow(cs, th, n - 1) + 1]) = "c" BY <1>10, <1>16 DEF FunctionsAt
  <2> QED BY <1>11, <1>15, <2>1
<1>19. ASSUME NEW j \in 2..(Len(c) - 1) PROVE Kind(c[j]) = "lua"
  <2>1. CASE j <= b
    <3>1. j \in 2..b BY <1>15, <2>1
    <3> QED BY <1>13, <1>14, <3>1 DEF AgreesFrom
  <2>2. CASE j > b
    <3>1. j - b \in 1..x /\ b + (j - b) = j BY <1>15, <2>2
    <3> QED BY Zenon, <1>17, <3>1
  <2> QED BY <1>15, <2>1, <2>2
<1> QED BY <1>7, <1>8, <1>14, <1>15, <1>18, <1>19 DEF Yielded

LEMMA YieldRuns ==
  ASSUME IInv, cstack # <<>>, InC, F.k = "cfunc", MayYield(l), NEW k \in Int, NEW new,
         new = IF Last(Callers).k = "execute" THEN Front(Callers) ELSE Callers,
         Become(L, [l EXCEPT !.base = l.top - k, !.status = "yield"], new)
  PROVE  Goes
<1>1. PICK n \in Nat \ {0} : n = Len(cstack) BY IInvFacts
<1>2. /\ StackOK(cstack) /\ cstack \in Seq(Frames) /\ F = cstack[n] /\ F \in Frames
      /\ L = F.L /\ L \in Threads /\ IsState(l) /\ (L = MainThread => l.baseCcalls = 0) /\ DOMAIN lstate = Threads
  BY <1>1, IInvFacts
<1>3. Ready(cstack, L, l) BY RunningReady
<1>4. YieldPlace(cstack, n, L) BY <1>1, <1>2, <1>3, MayYieldPlace
<1>5. /\ n > 2 /\ cstack[n - 1].k = "execute" /\ cstack[n - 1].L = L /\ cstack[n - 2].k = "resume" /\ cstack[n - 2].L = L
      /\ DepthAt(cstack, n - 2) = DepthAt(cstack, n)
  BY <1>4 DEF YieldPlace
<1>6. Yielded(l.ci) /\ l.errfunc.at = 0 /\ l.allowhook BY <1>1, <1>2, <1>3, <1>4, YieldedCalls
<1>7. PICK m \in Nat \ {0} : m = n - 2 BY <1>5
<1>8. new \in Seq(Frames) /\ Len(new) = m /\ \A i \in 1..m : new[i] = cstack[i]
  <2>1. Callers \in Seq(Frames) /\ Len(Callers) = n - 1 /\ \A i \in 1..(n - 1) : Callers[i] = cstack[i]
    BY <1>1, <1>2, FrontFacts DEF Callers
  <2>2. n - 1 \in Nat \ {0} /\ n - 1 \in 1..(n - 1) BY <1>5
  <2>3. Last(Callers) = cstack[n - 1] BY <2>1, <2>2 DEF Last
  <2>4. new = Front(Callers) BY <1>5, <2>3
  <2>5. Len(Callers) \in Nat \ {0} BY <2>1, <2>2
  <2>6. new \in Seq(Frames) /\ Len(new) = Len(Callers) - 1 /\ \A i \in 1..(Len(Callers) - 1) : new[i] = Callers[i]
    BY Zenon, <2>1, <2>4, <2>5, FrontFacts
  <2>7. \A i \in 1..m : i \in 1..(n - 1) /\ i \in 1..(Len(Callers) - 1) BY <1>7, <2>1
  <2> QED BY <1>7, <2>1, <2>6, <2>7
<1>9. SameUpTo(cstack, new, m) BY <1>1, <1>2, <1>7, <1>8 DEF SameUpTo, Like
<1>10. StackOK(new)
  <2>1. \A i \in (m + 1)..Len(new) : FrameAt(new, i) BY <1>8
  <2>2. \A i \in 1..(Len(new) - 1) : i >= m => WaitAt(new, i) BY <1>8
  <2> QED BY <1>2, <1>9, <2>1, <2>2, StackStep
<1>11. Step(cstack, new, {L})
  <2>1. Above(cstack, m, {L})
    <3>1. \A i \in (m + 1)..Len(cstack) : i = n \/ i = n - 1 BY <1>1, <1>7
    <3> QED BY Zenon, <1>2, <1>5, <3>1 DEF Above
  <2>2. Above(new, m, {L})
    <3>1. \A i \in (m + 1)..Len(new) : FALSE BY <1>8
    <3> QED BY <3>1 DEF Above
  <2> QED BY <1>9, <2>1, <2>2 DEF Step
<1>12. PICK t : t = [l EXCEPT !.base = l.top - k, !.status = "yield"] OBVIOUS
<1>13. /\ IsState(t) /\ t.status = "yield" /\ t.ci = l.ci /\ t.allowhook = l.allowhook /\ t.errfunc = l.errfunc
       /\ t.errorJmp = l.errorJmp /\ t.nCcalls = l.nCcalls /\ t.baseCcalls = l.baseCcalls
       /\ t.body = l.body
  <2>1. PICK x : x = l.top - k OBVIOUS
  <2>2. x \in Int
    <3>1. l.top \in Int BY <1>2, FieldTypes
    <3> QED BY <2>1, <3>1
  <2>3. t = [l EXCEPT !.base = x, !.status = "yield"] BY <1>12, <2>1
  <2> QED BY Zenon, <1>2, <2>2, <2>3 DEF IsState, LuaState
<1>14. Suspended(t) BY <1>6, <1>13 DEF Suspended
<1>15. new[m].k = "resume" /\ new[m].L = L /\ new[m].status = "ok" /\ m \in 1..m /\ m \in 1..Len(cstack)
  <2>1. m \in 1..Len(cstack) /\ m < Len(cstack) /\ m \in 1..m BY <1>1, <1>7
  <2>2. WaitAt(cstack, m) BY <1>2, <2>1 DEF StackOK
  <2> QED BY <1>5, <1>7, <1>8, <2>1, <2>2 DEF WaitAt
<1>16. DepthAt(new, m) = l.nCcalls /\ l.nCcalls >= 1
  <2>1. DepthAt(new, m) = DepthAt(cstack, m)
    <3>1. m \in 0..m BY <1>7
    <3> QED BY <1>9, <3>1, SameCounts
  <2>2. l.nCcalls = DepthAt(cstack, n) BY <1>1, <1>3, ReadyFacts
  <2>3. DepthAt(cstack, m) = DepthAt(cstack, m - 1) + 1 BY <1>5, <1>7, DepthNext
  <2>4. m - 1 \in Nat /\ DepthAt(cstack, m - 1) \in Nat BY <1>7, DepthType
  <2> QED BY <1>5, <1>7, <2>1, <2>2, <2>3, <2>4
<1>17. Protection(cstack, n, l, L) BY <1>1, <1>3 DEF Ready, Placed
<1>18. l.errorJmp = m
  <2>1. LastProtected(cstack, n, L, l.errorJmp) BY <1>17 DEF Protection
  <2>2. Protects(cstack[m], L) BY <1>5, <1>7 DEF Protects
  <2>3. ~ Protects(cstack[n], L) /\ ~ Protects(cstack[n - 1], L) BY <1>2, <1>5 DEF Protects
  <2>4. PICK e : e = l.errorJmp OBVIOUS
  <2>5. e \in 0..n /\ (e # 0 => Protects(cstack[e], L)) /\ \A j \in (e + 1)..n : ~ Protects(cstack[j], L)
    BY <2>1, <2>4 DEF LastProtected
  <2>6. ~ (m \in (e + 1)..n) BY <2>2, <2>5
  <2>7. e # n /\ e # n - 1
    <3>1. n # 0 /\ n - 1 # 0 BY <1>5
    <3>2. e = n => Protects(cstack[n], L) BY <2>5, <3>1
    <3>3. e = n - 1 => Protects(cstack[n - 1], L) BY <2>5, <3>1
    <3> QED BY <2>3, <3>2, <3>3
  <2> QED BY <1>7, <2>4, <2>5, <2>6, <2>7
<1>19. Protection(new, m, t, L)
  <2>1. LastProtected(new, m, L, t.errorJmp)
    <3>1. \A j \in (m + 1)..m : FALSE BY <1>7
    <3> QED BY <1>13, <1>15, <1>18, <3>1 DEF LastProtected, Protects
  <2>2. HandlerIn(new, m, L, t.errfunc) BY <1>6, <1>13 DEF HandlerIn
  <2>3. ASSUME NEW r \in 1..m, Resumes(new[r], L) PROVE t.baseCcalls = DepthAt(new, r)
    <3>1. r \in 1..n /\ r \in 0..m /\ new[r] = cstack[r] BY <1>7, <1>8
    <3>2. l.baseCcalls = DepthAt(cstack, r) BY <1>17, <2>3, <3>1 DEF Protection
    <3>3. DepthAt(new, r) = DepthAt(cstack, r) BY <1>9, <3>1, SameCounts
    <3> QED BY <1>13, <3>2, <3>3
  <2> QED BY <2>1, <2>2, <2>3 DEF Protection
<1>20. AtResume(new, m, t) BY <1>13, <1>14, <1>15, <1>16 DEF AtResume
<1>21. ThreadAt(new, m, t, L) BY <1>15, <1>19, <1>20 DEF ThreadAt
<1>22. ThreadOK(new, t, L)
  <2>1. ASSUME NEW j \in 1..Len(new), IsTop(new, j, L) PROVE j = m
    <3>1. ~ (m \in (j + 1)..Len(new)) BY <1>15, <2>1 DEF IsTop
    <3> QED BY <1>8, <3>1
  <2>2. \E i \in 1..Len(new) : new[i].L = L BY <1>8, <1>15
  <2>3. L = MainThread => t.baseCcalls = 0 BY <1>2, <1>13
  <2> QED BY <1>21, <2>1, <2>2, <2>3 DEF ThreadOK
<1>23. lstate' = [lstate EXCEPT ![L] = t] /\ cstack' = new /\ UNCHANGED uses BY <1>12 DEF Become
<1>24. DOMAIN lstate' = Threads /\ lstate'[L] = t /\ \A th \in Threads : th \notin {L} => lstate'[th] = lstate[th]
  BY <1>2, <1>23
<1>25. \A th \in Threads : th \in {L} => IsState(lstate'[th]) /\ ThreadOK(cstack', lstate'[th], th)
  BY <1>13, <1>22, <1>23, <1>24
<1>26. StackOK(cstack') /\ cstack' # <<>> /\ Step(cstack, cstack', {L}) BY <1>8, <1>10, <1>11, <1>23
<1>27. IInv' BY <1>23, <1>24, <1>25, <1>26, FinishStep
<1>28. Advance(L)
  <2>1. Last(cstack').L = L /\ AtBase(cstack', lstate'[L]) BY <1>8, <1>13, <1>15, <1>23, <1>24 DEF Last, AtBase
  <2>2. lstate'[L].body \in {lstate[L].body, NoBody} BY <1>13, <1>24 DEF l
  <2> QED BY <1>24, <1>26, <2>1, <2>2 DEF Advance
<1> QED BY <1>27, <1>28 DEF Goes

LEMMA YieldStep == ASSUME IInv, NEW n \in NArgs, lua_yield(n) PROVE Goes
<1>1. InC /\ F.k = "cfunc" BY DEF lua_yield
<1>2. At(cstack, L, l) /\ cstack # <<>> /\ Last(cstack).k \in CCode BY <1>1, CFacts
<1>3. n \in Int BY InputTypes
<1>4. CASE ~ MayYield(l)
  <2>1. luaG_runerror(L, l, cstack) BY <1>4 DEF lua_yield
  <2> QED BY <1>2, <2>1, Runerror
<1>5. CASE MayYield(l)
  <2>1. PICK new : new = IF Last(Callers).k = "execute" THEN Front(Callers) ELSE Callers OBVIOUS
  <2>2. Become(L, [l EXCEPT !.base = l.top - n, !.status = "yield"], new) BY <1>5, <2>1 DEF lua_yield
  <2> QED BY Zenon, <1>1, <1>2, <1>3, <1>5, <2>1, <2>2, YieldRuns
<1> QED BY <1>4, <1>5

(***************************************************************************)
(* What C functions do when their callee is done.                          *)
(***************************************************************************)
LEMMA CalledAgain ==
  ASSUME NEW f \in Frames, f.k = "errormsg"
  PROVE  [f EXCEPT !.called = TRUE] = [k |-> "errormsg", L |-> f.L, called |-> TRUE]
<1>1. f \in ErrormsgFrame BY DEF Frames, Simple, ExecuteFrame, CallFrame, PcallFrames, ResumeFrame, HookFrames, PoscallFrame
<1>2. PICK g : g = [f EXCEPT !.called = TRUE] BY Zenon
<1>3. g \in ErrormsgFrame /\ g.k = "errormsg" /\ g.L = f.L /\ g.called = TRUE BY Zenon, <1>1, <1>2 DEF ErrormsgFrame
<1>4. g = [k |-> g.k, L |-> g.L, called |-> g.called] BY <1>3 DEF ErrormsgFrame
<1> QED BY Zenon, <1>2, <1>3, <1>4

LEMMA ErrormsgStep == ASSUME IInv, luaG_errormsg PROVE Goes
<1>1. cstack # <<>> /\ F.k = "errormsg" BY DEF luaG_errormsg
<1>2. At(cstack, L, l) BY <1>1, AtRunning
<1>3. F = Last(cstack) /\ F \in Frames /\ IsState(l) /\ L \in Threads /\ F.L = L /\ F.called \in BOOLEAN
  <2>1. F = Last(cstack) /\ F \in Frames /\ IsState(l) /\ L \in Threads /\ F.L = L BY <1>1, IInvFacts
  <2>2. F \in ErrormsgFrame
    BY <1>1, <2>1 DEF Frames, Simple, ExecuteFrame, CallFrame, PcallFrames, ResumeFrame, HookFrames, PoscallFrame
  <2> QED BY <2>1, <2>2 DEF ErrormsgFrame
<1>4. At(Callers, L, l) /\ Last(Callers).k \in CCode \cup {"execute", "call", "resume"}
  <2>1. CallsIn(Last(cstack)) = 0 /\ NoContinue(Last(cstack), Last(Front(cstack))) BY <1>1, <1>3 DEF CallsIn, NoContinue
  <2>2. Left(l, l, 0) BY <1>3, LeftSelf
  <2>3. At(Front(cstack), L, l) BY <1>1, <1>2, <1>3, <2>1, <2>2, AtPop
  <2>4. Ready(cstack, L, l) BY <1>2 DEF At
  <2>5. StandsOn(Last(cstack), Last(Front(cstack))) BY <1>1, <1>3, <2>4, TopFrame
  <2> QED BY <1>1, <1>3, <2>3, <2>5 DEF StandsOn, Callers
<1>5. CASE F.called \/ l.errfunc.at = 0
  <2>1. luaD_throw(L, l, Callers, "errrun") BY <1>5 DEF luaG_errormsg
  <2> QED BY <1>4, <2>1, AtThrow
<1>6. CASE ~ (F.called \/ l.errfunc.at = 0) /\ l.errfunc.fn.kind = "other"
  <2>1. luaD_throw(L, l, Callers, "errerr") BY <1>6 DEF luaG_errormsg
  <2> QED BY <1>4, <2>1, AtThrow
<1>7. CASE ~ (F.called \/ l.errfunc.at = 0) /\ l.errfunc.fn.kind # "other"
  <2>1. PICK t : t = incr_top(l) OBVIOUS
  <2>2. PICK fn : fn = l.errfunc.fn OBVIOUS
  <2>3. PICK func : func = savestack(t, t.top - 2) OBVIOUS
  <2>4. PICK f : f = [k |-> "errormsg", L |-> L, called |-> TRUE] BY Zenon
  <2>5. f = [F EXCEPT !.called = TRUE]
    <3>1. PICK g : g = F OBVIOUS
    <3>2. [g EXCEPT !.called = TRUE] = [k |-> "errormsg", L |-> g.L, called |-> TRUE] BY <1>1, <1>3, <3>1, CalledAgain
    <3>3. g.L = L BY <1>3, <3>1
    <3> QED BY <2>4, <3>1, <3>2, <3>3
  <2>6. luaD_call(L, t, Append(Callers, f), func, fn, 1) BY <1>7, <2>1, <2>2, <2>3, <2>5 DEF luaG_errormsg
  <2>7. Keeps(l, t) /\ IsState(t) BY <1>3, <2>1, IncrTopKeeps DEF Keeps
  <2>8. At(Append(Callers, f), L, t)
    <3>1. TRUE \in BOOLEAN OBVIOUS
    <3> QED BY Zenon, <1>4, <2>4, <2>7, <3>1, PushErrormsg
  <2>9. fn \in Callees
    <3>1. l.errfunc \in ErrFunc BY <1>3, FieldTypes
    <3> QED BY <2>2, <3>1, HandlersAssumption DEF ErrFunc, Callees, Bodies
  <2>10. func \in Int
    <3>1. t.top - 2 \in Int
      <4>1. t.top \in Int BY <2>7, FieldTypes
      <4> QED BY <4>1
    <3> QED BY <2>3, <2>7, <3>1, OffsetType
  <2>11. Last(Append(Callers, f)).k = "errormsg"
    <3>1. Callers \in Seq(Frames) BY <1>4, AtFacts
    <3>2. f \in Frames /\ f.k = "errormsg"
      <4>1. TRUE \in BOOLEAN OBVIOUS
      <4> QED BY Zenon, <1>3, <2>4, <4>1, ErrormsgTypes
    <3> QED BY <3>1, <3>2, FrontAppend
  <2> QED BY <2>6, <2>8, <2>9, <2>10, <2>11, CallEnds
<1> QED BY <1>5, <1>6, <1>7

LEMMA CollectedKeeps == ASSUME NEW t, IsState(t), NEW t2 \in Collected(t) PROVE Keeps(t, t2)
BY KeepsSelf, ShrunkKeeps DEF Collected

LEMMA EndCallStep == ASSUME IInv, EndCall PROVE Goes
<1>1. cstack # <<>> /\ F.k = "call" BY DEF EndCall
<1>2. At(cstack, L, l) BY <1>1, AtRunning
<1>3. F = Last(cstack) /\ F \in Frames /\ IsState(l) /\ L \in Threads /\ F.L = L BY <1>1, IInvFacts
<1>4. F.nresults \in Int BY <1>1, <1>3, FrameTypes
<1>5. PICK t0 : t0 = [l EXCEPT !.nCcalls = l.nCcalls - 1] BY Zenon
<1>6. PICK t \in Collected(t0) :
        CASE Last(Callers).k \in {"host", "cfunc", "hook"} -> Become(L, adjustresults(t, F.nresults), Callers)
          [] Last(Callers).k = "execute" ->
               Become(L, [t EXCEPT !.top = t.top - F.nresults], Reloaded(Callers, [t EXCEPT !.top = t.top - F.nresults]))
          [] OTHER -> Become(L, t, Callers)
  BY Zenon, <1>5 DEF EndCall
<1>7. Ready(cstack, L, l) BY <1>2 DEF At
<1>8. l.nCcalls - 1 \in Nat
  <2>1. PICK n \in Nat \ {0} : n = Len(cstack) BY <1>1, IInvFacts
  <2>2. l.nCcalls = DepthAt(cstack, n) /\ cstack[n] = F BY <1>3, <1>7, <2>1, ReadyFacts
  <2>3. DepthAt(cstack, n) = DepthAt(cstack, n - 1) + 1 BY <1>1, <2>2, DepthNext
  <2>4. n - 1 \in Nat /\ DepthAt(cstack, n - 1) \in Nat BY DepthType
  <2> QED BY <2>2, <2>3, <2>4
<1>9. /\ IsState(t0) /\ SameFields(l, t0) /\ t0.ci = l.ci /\ t0.nCcalls = l.nCcalls - 1 /\ t0.allowhook = l.allowhook
      /\ SameCalls(l, t0)
  <2>1. PICK x \in Nat : x = l.nCcalls - 1 BY <1>8
  <2>2. t0 = [l EXCEPT !.nCcalls = x] BY <1>5, <2>1
  <2> QED BY <1>3, <2>1, <2>2, AddCcall
<1>10. At(Callers, L, t0)
  <2>1. Last(cstack).k = "call" /\ NoContinue(Last(cstack), Last(Front(cstack))) /\ CallsIn(Last(cstack)) = 0
    BY <1>1, <1>3 DEF CallsIn, NoContinue
  <2>2. Len(t0.ci) = Len(l.ci) - CallsIn(Last(cstack)) /\ \A j \in 1..Len(t0.ci) : Kind(t0.ci[j]) = Kind(l.ci[j])
    <3>1. Len(l.ci) \in Nat BY <1>3, FieldTypes
    <3> QED BY <1>9, <2>1, <3>1
  <2>3. t0.nCcalls = l.nCcalls - (IF Last(cstack).k = "call" THEN 1 ELSE 0) BY <1>9, <2>1
  <2>4. t0.allowhook <=> l.allowhook \/ Last(cstack).k = "hook" BY <1>9, <2>1
  <2>5. Ready(Front(cstack), L, t0) /\ Step(cstack, Front(cstack), {L})
    BY Zenon, <1>7, <1>9, <2>1, <2>2, <2>3, <2>4, PopFrame
  <2> QED BY <1>2, <1>9, <2>5, AtNext DEF Callers, SameFields
<1>11. Keeps(t0, t) /\ IsState(t) /\ At(Callers, L, t)
  <2>1. Keeps(t0, t) BY <1>9, CollectedKeeps
  <2> QED BY <1>10, <2>1, AtKeeps DEF Keeps
<1>a. Last(Callers).k # "resume" /\ Last(Callers) \in Frames
  <2>1. Last(cstack).k \notin {"resume", "pcall", "host"} BY <1>1, <1>3
  <2>2. StandsOn(Last(cstack), Last(Front(cstack))) BY <1>7, <2>1, TopFrame
  <2>3. Last(Callers).k # "resume" BY <1>1, <1>3, <2>2 DEF StandsOn, Callers, CCode
  <2> QED BY <1>10, <2>3, AtFacts
<1>12. CASE Last(Callers).k \in {"host", "cfunc", "hook"}
  <2>1. PICK t1 : t1 = adjustresults(t, F.nresults) OBVIOUS
  <2>2. At(Callers, L, t1) BY <1>11, <2>1, AdjustresultsKeeps, AtKeeps
  <2>3. Become(L, t1, Callers) BY <1>6, <1>12, <2>1
  <2> QED BY <1>a, <2>2, <2>3, AtPlain
<1>13. CASE Last(Callers).k = "execute"
  <2>1. PICK t1 : t1 = [t EXCEPT !.top = t.top - F.nresults] BY Zenon
  <2>2. t.top - F.nresults \in Int
    <3>1. t.top \in Int BY <1>11, FieldTypes
    <3> QED BY <1>4, <3>1
  <2>3. At(Callers, L, t1) BY <1>11, <2>1, <2>2, SetTop, AtKeeps
  <2>4. Become(L, t1, Reloaded(Callers, t1)) BY <1>6, <1>13, <2>1
  <2> QED BY <1>a, <2>3, <2>4, ReloadEnds
<1>14. CASE Last(Callers).k \notin {"host", "cfunc", "hook", "execute"}
  <2>1. Become(L, t, Callers) BY <1>6, <1>14
  <2> QED BY <1>a, <1>11, <2>1, AtPlain
<1> QED BY <1>12, <1>13, <1>14

(* The error case of luaD_pcall puts the thread in order.                   *)
Failed(t, f, oldtop) ==
  LET t1 == luaD_seterrorobj(luaF_close(t, oldtop), oldtop)
  IN  restore_stack_limit(RestoreHooks([t1 EXCEPT !.nCcalls = f.nCcalls, !.ci = SubSeq(t1.ci, 1, f.ci),
                                                  !.base = t1.ci[f.ci].base], f))
FailsAt(t, f, m, oldtop, t2) ==
  /\ IsState(t) /\ f.k = "pcall" /\ f \in Frames /\ m \in Nat \ {0} /\ m = f.ci /\ m <= Len(t.ci) /\ oldtop \in Int
  /\ t2 = Failed(t, f, oldtop)
LEMMA RestoredState ==
  ASSUME NEW t, NEW f, NEW m, NEW oldtop, NEW t2, FailsAt(t, f, m, oldtop, t2)
  PROVE  /\ IsState(t2) /\ t2.status = t.status /\ t2.errorJmp = t.errorJmp /\ t2.errfunc = t.errfunc
         /\ t2.nCcalls = f.nCcalls /\ t2.allowhook = f.allowhook /\ t2.baseCcalls = t.baseCcalls
         /\ t2.body = t.body
         /\ Len(t2.ci) = m /\ \A j \in 1..m : Kind(t2.ci[j]) = Kind(t.ci[j])
<1> USE DEF FailsAt
<1>0. PICK t1 : t1 = luaD_seterrorobj(luaF_close(t, oldtop), oldtop) OBVIOUS
<1>1. PICK s : s = luaF_close(t, oldtop) OBVIOUS
<1>2. Keeps(t, s) /\ IsState(s) BY <1>1, CloseKeeps DEF Keeps
<1>3. Keeps(s, t1) BY <1>0, <1>1, <1>2, SeterrorobjKeeps
<1>4. Keeps(t, t1) /\ IsState(t1) BY <1>2, <1>3, KeepsTrans DEF Keeps
<1>5. PICK c, x, b : c = SubSeq(t1.ci, 1, m) /\ x = t1.ci[m].base /\ b = f.allowhook BY Zenon
<1>6. t1.ci \in Seq(CallInfo) /\ Len(t1.ci) \in Nat \ {0} BY <1>4, FieldTypes
<1>7. Len(t1.ci) = Len(t.ci) /\ \A j \in 1..Len(t.ci) : Kind(t1.ci[j]) = Kind(t.ci[j])
  BY <1>4 DEF Keeps, SameControl, SameCalls
<1>8. m \in 1..Len(t1.ci) BY <1>6, <1>7
<1>9. x \in Int
  <2>1. t1.ci[m] \in CallInfo BY <1>6, <1>8
  <2> QED BY <1>5, <2>1, CiTypes
<1>10. c \in Seq(CallInfo) /\ Len(c) = m /\ \A j \in 1..m : c[j] = t1.ci[j]
  BY <1>5, <1>6, <1>8
<1>11. c # <<>> BY <1>10
<1>12. f.nCcalls \in Nat /\ b \in BOOLEAN BY <1>5, FrameTypes
<1>13. PICK u : u = [t1 EXCEPT !.nCcalls = f.nCcalls, !.ci = c, !.base = x, !.allowhook = b] OBVIOUS
<1>14. t2 = restore_stack_limit(u)
  <2>1. [t1 EXCEPT !.nCcalls = f.nCcalls, !.ci = SubSeq(t1.ci, 1, f.ci), !.base = t1.ci[f.ci].base]
          = [t1 EXCEPT !.nCcalls = f.nCcalls, !.ci = c, !.base = x]
    BY <1>5
  <2>2. PICK v : v = [t1 EXCEPT !.nCcalls = f.nCcalls, !.ci = c, !.base = x] OBVIOUS
  <2>3. RestoreHooks(v, f) = [v EXCEPT !.allowhook = b] BY <1>5 DEF RestoreHooks
  <2>4. [v EXCEPT !.allowhook = b] = u BY <1>4, <1>13, <2>2 DEF IsState, LuaState
  <2> QED BY <1>0, <2>1, <2>2, <2>3, <2>4 DEF Failed
<1>15. /\ IsState(u) /\ u.ci = c /\ u.nCcalls = f.nCcalls /\ u.allowhook = b /\ u.status = t1.status /\ u.errorJmp = t1.errorJmp
       /\ u.errfunc = t1.errfunc /\ u.baseCcalls = t1.baseCcalls
       /\ u.body = t1.body
  BY Zenon, <1>4, <1>9, <1>10, <1>11, <1>12, <1>13 DEF IsState, LuaState
<1>16. Keeps(u, t2) BY <1>14, <1>15, StackLimitKeeps
<1>17. /\ IsState(t2) /\ Len(t2.ci) = m /\ (\A j \in 1..m : Kind(t2.ci[j]) = Kind(u.ci[j])) /\ t2.nCcalls = u.nCcalls
       /\ t2.allowhook = u.allowhook /\ t2.status = u.status /\ t2.errorJmp = u.errorJmp /\ t2.errfunc = u.errfunc
       /\ t2.baseCcalls = u.baseCcalls /\ t2.body = u.body
  BY <1>10, <1>15, <1>16 DEF Keeps, SameControl, SameCalls
<1>18. \A j \in 1..m : Kind(t2.ci[j]) = Kind(t.ci[j])
  <2>1. \A j \in 1..m : j \in 1..Len(t.ci) BY <1>6, <1>7, <1>8
  <2> QED BY <1>7, <1>10, <1>15, <1>17, <2>1
<1>19. /\ t1.status = t.status /\ t1.errorJmp = t.errorJmp /\ t1.errfunc = t.errfunc /\ t1.baseCcalls = t.baseCcalls
       /\ t1.body = t.body
  BY <1>4 DEF Keeps, SameControl
<1> QED BY <1>5, <1>15, <1>17, <1>18, <1>19

LEMMA PcallFrameFacts ==
  ASSUME IInv, cstack # <<>>, F.k = "pcall"
  PROVE  /\ Lands(cstack, Len(cstack), l, L) /\ F.ci \in Nat \ {0} /\ F.ci <= Len(l.ci) /\ l.status = "ok"
         /\ F.status = "ok" => l.nCcalls = F.nCcalls /\ l.allowhook = F.allowhook /\ Len(l.ci) = F.ci
<1>1. PICK n \in Nat \ {0} : n = Len(cstack) BY IInvFacts
<1>2. /\ StackOK(cstack) /\ cstack \in Seq(Frames) /\ cstack[n] = F /\ F \in Frames /\ F.L = L /\ L \in Threads /\ IsState(l)
      /\ ThreadAt(cstack, n, l, L) /\ FrameAt(cstack, n)
  BY <1>1, IInvFacts
<1>3. PcallAt(cstack, n) BY <1>2 DEF FrameAt
<1>4. CallsIn(F) = 0 BY DEF CallsIn
<1>5. n \in 1..Len(cstack) /\ n - 1 \in 0..Len(cstack) /\ n - 1 \in Nat /\ n \in 1..n BY <1>1
<1>6. CallsBelow(cstack, L, n) = CallsBelow(cstack, L, n - 1) /\ CallsBelow(cstack, L, n - 1) \in Nat
  <2>1. CallsBelow(cstack, L, n) = CallsBelow(cstack, L, n - 1) + (IF cstack[n].L = L THEN CallsIn(cstack[n]) ELSE 0)
    BY <1>2, <1>5, CallsBelowNext
  <2>2. CallsBelow(cstack, L, n - 1) \in Nat BY <1>2, <1>5, CallsBelowType
  <2> QED BY <1>2, <1>4, <2>1, <2>2
<1>7. Runs(cstack, n, l, L) \/ Lands(cstack, n, l, L)
  <2>1. cstack[n].k # "resume" BY <1>2
  <2>2. CASE cstack[n].k = "pcall" /\ cstack[n].status # "ok" BY <1>2, <2>1, <2>2 DEF ThreadAt
  <2>3. CASE ~ (cstack[n].k = "pcall" /\ cstack[n].status # "ok") BY <1>2, <2>1, <2>3 DEF ThreadAt
  <2> QED BY <2>2, <2>3
<1>8. l.status = "ok" BY <1>7 DEF Runs, Lands
<1>9. PICK b \in 1..Len(l.ci) : AgreesFrom(cstack, n, l.ci, L, b) /\ Len(l.ci) >= b + CallsBelow(cstack, L, n)
                                /\ (Runs(cstack, n, l, L) => Len(l.ci) = b + CallsBelow(cstack, L, n))
  <2>1. CASE Runs(cstack, n, l, L)
    <3>1. PICK b \in 1..Len(l.ci) : AgreesFrom(cstack, n, l.ci, L, b) /\ Len(l.ci) = b + CallsBelow(cstack, L, n)
      BY <2>1 DEF Runs
    <3>2. Len(l.ci) \in Nat BY <1>2, FieldTypes
    <3> QED BY <3>1, <3>2
  <2>2. CASE ~ Runs(cstack, n, l, L) BY <1>7, <2>2 DEF Lands
  <2> QED BY <2>1, <2>2
<1>10. FunctionsAt(cstack, n, l.ci, L, b) BY <1>2, <1>5, <1>9 DEF AgreesFrom
<1>11. F.ci = b + CallsBelow(cstack, L, n - 1) BY <1>2, <1>10 DEF FunctionsAt
<1>12. Len(l.ci) \in Nat \ {0} BY <1>2, FieldTypes
<1>13. F.ci \in Nat \ {0} /\ F.ci <= Len(l.ci) BY <1>6, <1>9, <1>11, <1>12
<1>14. Lands(cstack, n, l, L) BY <1>8, <1>9 DEF Lands
<1>15. ASSUME F.status = "ok" PROVE l.nCcalls = F.nCcalls /\ l.allowhook = F.allowhook /\ Len(l.ci) = F.ci
  <2>1. Runs(cstack, n, l, L) BY <1>2, <1>15 DEF ThreadAt
  <2>2. l.nCcalls = DepthAt(cstack, n) /\ (l.allowhook <=> NoHook(cstack, n, L)) BY <2>1 DEF Runs
  <2>3. F.nCcalls = DepthAt(cstack, n - 1) /\ (F.allowhook <=> NoHook(cstack, n - 1, L)) BY <1>2, <1>3 DEF PcallAt
  <2>4. DepthAt(cstack, n) = DepthAt(cstack, n - 1)
    <3>1. DepthAt(cstack, n) = DepthAt(cstack, n - 1) + (IF cstack[n].k \in {"call", "resume"} THEN 1 ELSE 0) BY DepthNext
    <3>2. DepthAt(cstack, n - 1) \in Nat BY <1>5, DepthType
    <3> QED BY <1>2, <3>1, <3>2
  <2>5. NoHook(cstack, n, L) <=> NoHook(cstack, n - 1, L)
    <3>1. \A j \in 1..n : j = n \/ j \in 1..(n - 1) BY <1>5
    <3>2. \A j \in 1..(n - 1) : j \in 1..n BY <1>5
    <3> QED BY <1>2, <3>1, <3>2 DEF NoHook
  <2>6. F.allowhook \in BOOLEAN /\ l.allowhook \in BOOLEAN
    <3>1. F.allowhook \in BOOLEAN BY <1>2, FrameTypes
    <3>2. l.allowhook \in BOOLEAN BY <1>2, FieldTypes
    <3> QED BY <3>1, <3>2
  <2>7. Len(l.ci) = F.ci BY <1>6, <1>9, <1>11, <2>1
  <2>8. l.allowhook = F.allowhook BY <2>2, <2>3, <2>5, <2>6
  <2> QED BY <2>2, <2>3, <2>4, <2>7, <2>8
<1> QED BY <1>1, <1>8, <1>13, <1>14, <1>15

LEMMA EndPcallStep == ASSUME IInv, EndPcall PROVE Goes
<1>1. cstack # <<>> /\ F.k = "pcall" BY DEF EndPcall
<1>2. /\ StackOK(cstack) /\ F = Last(cstack) /\ F \in Frames /\ IsState(l) /\ L \in Threads /\ F.L = L
      /\ F = cstack[Len(cstack)] /\ (L = MainThread => l.baseCcalls = 0) /\ ThreadAt(cstack, Len(cstack), l, L)
      /\ FrameAt(cstack, Len(cstack))
  BY <1>1, IInvFacts
<1>3. /\ Lands(cstack, Len(cstack), l, L) /\ F.ci \in Nat \ {0} /\ F.ci <= Len(l.ci) /\ l.status = "ok"
      /\ F.status = "ok" => l.nCcalls = F.nCcalls /\ l.allowhook = F.allowhook /\ Len(l.ci) = F.ci
  BY <1>1, PcallFrameFacts
<1>4. Protection(cstack, Len(cstack), l, L) BY <1>2 DEF ThreadAt
<1>5. PICK oldtop : oldtop = restorestack(l, F.old_top) OBVIOUS
<1>6. PICK t1 : t1 = luaD_seterrorobj(luaF_close(l, oldtop), oldtop) OBVIOUS
<1>7. PICK failed : failed = restore_stack_limit(RestoreHooks([t1 EXCEPT !.nCcalls = F.nCcalls, !.ci = SubSeq(t1.ci, 1, F.ci),
                                                                  !.base = t1.ci[F.ci].base], F))
  OBVIOUS
<1>8. PICK t : t = IF F.status = "ok" THEN l ELSE failed OBVIOUS
<1>9. PICK t2 : t2 = [Unprotect(t, F) EXCEPT !.errfunc = F.errfunc] BY Zenon
<1>10. Become(L, adjustresults(t2, F.nresults), Callers) BY <1>5, <1>6, <1>7, <1>8, <1>9 DEF EndPcall
<1>11. F.nCcalls \in Nat /\ F.previous \in Nat /\ F.errfunc \in ErrFunc /\ F.old_top \in Int BY <1>1, <1>2, FrameTypes
<1>12. oldtop \in Int BY Zenon, <1>2, <1>5, <1>11, OffsetType
<1>13. /\ IsState(t) /\ t.body = l.body /\ t.status = "ok" /\ t.nCcalls = F.nCcalls /\ t.allowhook = F.allowhook /\ t.baseCcalls = l.baseCcalls
       /\ Len(t.ci) = F.ci /\ \A j \in 1..F.ci : Kind(t.ci[j]) = Kind(l.ci[j])
  <2>1. CASE F.status = "ok"
    <3>1. t = l BY <1>8, <2>1
    <3> QED BY <1>2, <1>3, <2>1, <3>1
  <2>2. CASE F.status # "ok"
    <3>1. t = failed BY <1>8, <2>2
    <3>2. PICK s, f : s = l /\ f = F OBVIOUS
    <3>3. PICK m \in Nat \ {0} : m = f.ci BY <1>3, <3>2
    <3>5. t = Failed(s, f, oldtop) BY <1>6, <1>7, <3>1, <3>2 DEF Failed
    <3>6. IsState(s) /\ f.k = "pcall" /\ f \in Frames /\ m <= Len(s.ci) BY <1>1, <1>2, <1>3, <3>2, <3>3
    <3>7. /\ IsState(t) /\ t.body = s.body /\ t.status = s.status /\ t.nCcalls = f.nCcalls /\ t.allowhook = f.allowhook
          /\ t.baseCcalls = s.baseCcalls /\ Len(t.ci) = m /\ \A j \in 1..m : Kind(t.ci[j]) = Kind(s.ci[j])
      <4>1. FailsAt(s, f, m, oldtop, t) BY <1>12, <3>3, <3>5, <3>6 DEF FailsAt
      <4> QED BY <4>1, RestoredState
    <3> QED BY <1>3, <3>2, <3>3, <3>7
  <2> QED BY <2>1, <2>2
<1>14. /\ IsState(t2) /\ t2.body = l.body /\ t2.status = "ok" /\ t2.errorJmp = F.previous /\ t2.errfunc = F.errfunc /\ t2.nCcalls = F.nCcalls
       /\ t2.allowhook = F.allowhook /\ t2.baseCcalls = l.baseCcalls
       /\ Len(t2.ci) = F.ci /\ \A j \in 1..F.ci : Kind(t2.ci[j]) = Kind(l.ci[j])
  <2>1. PICK p, e : p = F.previous /\ e = F.errfunc OBVIOUS
  <2>2. t2 = [t EXCEPT !.errorJmp = p, !.errfunc = e] BY <1>9, <1>13, <2>1 DEF Unprotect, IsState, LuaState
  <2>3. /\ IsState(t2) /\ t2.body = t.body /\ t2.ci = t.ci /\ t2.status = t.status /\ t2.errorJmp = p /\ t2.errfunc = e /\ t2.nCcalls = t.nCcalls
        /\ t2.allowhook = t.allowhook /\ t2.baseCcalls = t.baseCcalls
    BY Zenon, <1>11, <1>13, <2>1, <2>2 DEF IsState, LuaState
  <2> QED BY <1>13, <2>1, <2>3
<1>15. EndsPcall(cstack, L, l, F, t2) BY <1>1, <1>2, <1>3, <1>4, <1>14 DEF EndsPcall
<1>16. Ready(Callers, L, t2) /\ Step(cstack, Callers, {L}) BY <1>15, PcallPopped DEF Callers
<1>17. At(Callers, L, t2)
  <2>1. Runner(L, t2) BY <1>14 DEF Runner
  <2> QED BY <1>1, <1>16, <2>1 DEF At
<1>a. Last(Callers).k # "resume"
  <2>1. PICK n \in Nat \ {0} : n = Len(cstack) BY <1>1, IInvFacts
  <2>2. StandsOn(cstack[n], cstack[n - 1]) /\ n > 1
    <3>1. FrameAt(cstack, n) /\ cstack[n].k = "pcall" BY <1>1, <1>2, <2>1
    <3>2. n # 1 BY <3>1 DEF FrameAt
    <3>3. n > 1 BY <3>2
    <3> QED BY <3>1, <3>3 DEF FrameAt
  <2>3. cstack[n - 1].k # "resume" BY <1>1, <1>2, <2>1, <2>2 DEF StandsOn, CCode
  <2>4. Callers \in Seq(Frames) /\ Len(Callers) = n - 1 /\ \A i \in 1..(n - 1) : Callers[i] = cstack[i]
    BY <1>2, <2>1, FrontFacts DEF Callers, StackOK
  <2>5. n - 1 \in 1..(n - 1) BY <2>2
  <2> QED BY <2>3, <2>4, <2>5 DEF Last
<1>18. PICK t3 : t3 = adjustresults(t2, F.nresults) OBVIOUS
<1>19. At(Callers, L, t3) BY <1>14, <1>17, <1>18, AdjustresultsKeeps, AtKeeps
<1> QED BY <1>10, <1>18, <1>19, <1>a, AtPlain

LEMMA AfterHookFacts ==
  ASSUME IInv, cstack # <<>>, F.k = "hook", NEW u, u = AfterHook(l)
  PROVE  /\ IsState(u) /\ SameCalls(l, u) /\ SameFields(l, u) /\ u.nCcalls = l.nCcalls /\ u.allowhook = TRUE
<1>1. F \in Frames /\ IsState(l) BY IInvFacts
<1>2. PICK x, y : x = restorestack(l, F.ci_top) /\ y = restorestack(l, F.top) OBVIOUS
<1>3. F.ci_top \in Int /\ F.top \in Int BY <1>1, FrameTypes
<1>4. x \in Int /\ y \in Int BY Zenon, <1>1, <1>2, <1>3, OffsetType
<1>5. PICK s : s = SetCiTop(l, x) OBVIOUS
<1>6. Keeps(l, s) /\ IsState(s) BY <1>1, <1>4, <1>5, SetCiTopKeeps DEF Keeps
<1>7. u = [s EXCEPT !.allowhook = TRUE, !.top = y] BY <1>2, <1>5 DEF AfterHook
<1>8. /\ IsState(u) /\ u.ci = s.ci /\ u.nCcalls = s.nCcalls /\ u.allowhook = TRUE /\ u.status = s.status /\ u.errorJmp = s.errorJmp
      /\ u.errfunc = s.errfunc /\ u.baseCcalls = s.baseCcalls
      /\ u.body = s.body
  BY Zenon, <1>4, <1>6, <1>7 DEF IsState, LuaState
<1> QED BY <1>6, <1>8 DEF Keeps, SameControl, SameCalls, SameFields

(* The state in which the function that OP_TAILCALL has entered is not yet. *)
Unentered(t) == [t EXCEPT !.ci = Front(t.ci), !.allowhook = TRUE]
EndsHook(t, u) ==
  /\ IsState(t) /\ Len(t.ci) >= 2 /\ Kind(t.ci[Len(t.ci)]) = "lua"
  /\ IsState(u) /\ SameCalls(t, u) /\ SameFields(t, u) /\ u.nCcalls = t.nCcalls /\ u.allowhook = TRUE
LEMMA UnenteredState ==
  ASSUME NEW t, NEW u, EndsHook(t, u)
  PROVE  \E t2 : /\ IsState(t2) /\ SameFields(t, t2) /\ t2.nCcalls = t.nCcalls /\ t2.allowhook = TRUE
                 /\ Len(t2.ci) = Len(t.ci) - 1 /\ (\A j \in 1..Len(t2.ci) : Kind(t2.ci[j]) = Kind(t.ci[j]))
                 /\ Entered(t2, u, "lua")
<1>0. /\ IsState(t) /\ Len(t.ci) >= 2 /\ Kind(t.ci[Len(t.ci)]) = "lua"
      /\ IsState(u) /\ SameCalls(t, u) /\ SameFields(t, u) /\ u.nCcalls = t.nCcalls /\ u.allowhook = TRUE
  BY DEF EndsHook
<1>a. PICK t2 : t2 = Unentered(t) OBVIOUS
<1>1. t.ci \in Seq(CallInfo) /\ Len(t.ci) \in Nat \ {0} BY <1>0, FieldTypes
<1>2. PICK c : c = Front(t.ci) OBVIOUS
<1>3. c \in Seq(CallInfo) /\ Len(c) = Len(t.ci) - 1 /\ \A j \in 1..(Len(t.ci) - 1) : c[j] = t.ci[j] BY <1>1, <1>2, FrontFacts
<1>4. c # <<>> BY <1>0, <1>1, <1>3
<1>5. t2 = [t EXCEPT !.ci = c, !.allowhook = TRUE] BY <1>a, <1>2 DEF Unentered
<1>6. /\ IsState(t2) /\ t2.ci = c /\ t2.nCcalls = t.nCcalls /\ t2.allowhook = TRUE /\ t2.status = t.status
      /\ t2.errorJmp = t.errorJmp /\ t2.errfunc = t.errfunc /\ t2.baseCcalls = t.baseCcalls
      /\ t2.body = t.body
  BY Zenon, <1>0, <1>3, <1>4, <1>5 DEF IsState, LuaState
<1>7. \A j \in 1..Len(t2.ci) : Kind(t2.ci[j]) = Kind(t.ci[j]) BY <1>3, <1>6
<1>8. Len(u.ci) = Len(t.ci) /\ \A j \in 1..Len(t.ci) : Kind(u.ci[j]) = Kind(t.ci[j]) BY <1>0 DEF SameCalls
<1>9. Len(u.ci) = Len(t2.ci) + 1 /\ Len(t2.ci) + 1 = Len(t.ci) BY <1>1, <1>3, <1>6, <1>8
<1>10. Kind(u.ci[Len(t2.ci) + 1]) = "lua"
  <2>1. Len(t.ci) \in 1..Len(t.ci) BY <1>1
  <2> QED BY <1>0, <1>8, <1>9, <2>1
<1>11. \A j \in 1..Len(t2.ci) : Kind(u.ci[j]) = Kind(t2.ci[j])
  <2>1. \A j \in 1..Len(t2.ci) : j \in 1..Len(t.ci) BY <1>1, <1>3, <1>6
  <2> QED BY <1>7, <1>8, <2>1
<1>12. SameFields(t2, u) BY <1>0, <1>6 DEF SameFields
<1>13. Entered(t2, u, "lua") BY Zenon, <1>0, <1>6, <1>9, <1>10, <1>11, <1>12 DEF Entered
<1> QED BY Zenon, <1>0, <1>3, <1>6, <1>7, <1>13 DEF SameFields

LEMMA EndHookStep == ASSUME IInv, EndHook PROVE Goes
<1>1. cstack # <<>> /\ F.k = "hook" BY DEF EndHook, InC
<1>2. At(cstack, L, l) BY <1>1, AtRunning
<1>3. F = Last(cstack) /\ F \in Frames /\ IsState(l) /\ L \in Threads /\ F.L = L BY <1>1, IInvFacts
<1>4. PICK u : u = AfterHook(l) OBVIOUS
<1>5. IsState(u) /\ SameCalls(l, u) /\ SameFields(l, u) /\ u.nCcalls = l.nCcalls /\ u.allowhook = TRUE
  BY Zenon, <1>1, <1>4, AfterHookFacts
<1>6. Ready(cstack, L, l) BY <1>2 DEF At
<1>7. /\ Callers \in Seq(Frames) /\ Callers # <<>> /\ Len(Callers) \in Nat \ {0} /\ Last(Callers) \in Frames
      /\ StandsOn(F, Last(Callers))
  <2>1. /\ Front(cstack) \in Seq(Frames) /\ Len(Front(cstack)) = Len(cstack) - 1 /\ Len(cstack) - 1 \in Nat \ {0}
        /\ Last(Front(cstack)) = cstack[Len(cstack) - 1] /\ cstack[Len(cstack) - 1] \in Frames
        /\ StandsOn(Last(cstack), Last(Front(cstack))) /\ Front(cstack) # <<>>
    BY <1>1, <1>3, <1>6, TopFrame
  <2> QED BY <1>3, <2>1 DEF Callers
<1>8. l.nCcalls \in Nat /\ l.nCcalls - 0 = l.nCcalls BY <1>3, FieldTypes
<1>9. Last(cstack).k = "hook" /\ NoContinue(Last(cstack), Last(Front(cstack))) BY <1>1, <1>3 DEF NoContinue
<1>10. CASE F.then # "tailcall"
  <2>1. CallsIn(Last(cstack)) = 0 BY <1>1, <1>3, <1>10 DEF CallsIn
  <2>2. Len(u.ci) = Len(l.ci) - CallsIn(Last(cstack)) /\ \A j \in 1..Len(u.ci) : Kind(u.ci[j]) = Kind(l.ci[j])
    <3>1. Len(l.ci) \in Nat BY <1>3, FieldTypes
    <3> QED BY <1>5, <2>1, <3>1 DEF SameCalls
  <2>3. u.nCcalls = l.nCcalls - (IF Last(cstack).k = "call" THEN 1 ELSE 0) BY <1>5, <1>8, <1>9
  <2>4. u.allowhook <=> l.allowhook \/ Last(cstack).k = "hook" BY <1>5, <1>9
  <2>5. Ready(Front(cstack), L, u) /\ Step(cstack, Front(cstack), {L})
    BY Zenon, <1>5, <1>6, <1>9, <2>2, <2>3, <2>4, PopFrame
  <2>6. At(Callers, L, u) BY <1>2, <1>5, <2>5, AtNext DEF Callers, SameFields
  <2>7. CASE F.then = "return"
    <3>1. PICK g, cs : g = Last(Callers) /\ cs = Front(Callers) OBVIOUS
    <3>2. g.k = "poscall" /\ g \in Frames BY <1>1, <1>7, <2>7, <3>1 DEF StandsOn
    <3>3. AfterPosCall(L, u, g.first, cs, g.lua) BY <1>4, <2>7, <3>1 DEF EndHook
    <3>4. g.first \in Int BY <3>2, FrameTypes
    <3>5. cs \in Seq(Frames) /\ Callers = Append(cs, g)
      <4>1. cs \in Seq(Frames) /\ Len(cs) = Len(Callers) - 1 /\ \A i \in 1..(Len(Callers) - 1) : cs[i] = Callers[i]
        BY <1>7, <3>1, FrontFacts
      <4>2. g = Callers[Len(Callers)] BY <3>1 DEF Last
      <4>3. PICK s \in Seq(Frames) : s = Callers BY <1>7
      <4>4. s = Append(cs, g)
        <5>1. Len(Append(cs, g)) = Len(s) /\ Append(cs, g) \in Seq(Frames) BY <1>7, <3>2, <4>1, <4>3
        <5>2. ASSUME NEW i \in 1..Len(s) PROVE s[i] = Append(cs, g)[i]
          <6>1. CASE i = Len(s) BY <1>7, <3>2, <4>1, <4>2, <4>3, <6>1
          <6>2. CASE i # Len(s)
            <7>1. i \in 1..(Len(s) - 1) /\ i \in 1..Len(cs) BY <1>7, <4>1, <4>3, <6>2
            <7> QED BY <3>2, <4>1, <4>3, <7>1
          <6> QED BY Zenon, <6>1, <6>2
        <5> QED BY <5>1, <5>2
      <4> QED BY <4>1, <4>3, <4>4
    <3>6. At(Append(cs, g), L, u) BY <2>6, <3>5
    <3> QED BY <3>2, <3>3, <3>4, <3>5, <3>6, AfterPosCallEnds
  <2>8. CASE F.then # "return"
    <3>1. Become(L, u, Reloaded(Callers, u)) BY <1>4, <1>10, <2>8 DEF EndHook
    <3>2. Last(Callers).k # "resume" BY <1>1, <1>7, <1>10, <2>8 DEF StandsOn
    <3> QED BY <1>7, <2>6, <3>1, <3>2, ReloadEnds
  <2> QED BY <2>7, <2>8
<1>11. CASE F.then = "tailcall"
  <2>1. CallsIn(Last(cstack)) = 1 /\ KindIn(Last(cstack)) = "lua" BY <1>1, <1>3, <1>11 DEF CallsIn, KindIn
  <2>2. /\ Len(l.ci) - 1 >= 1 /\ Len(l.ci) \in Nat
        /\ \A m \in 1..1 : Kind(l.ci[Len(l.ci) - 1 + m]) = "lua"
    BY <1>6, <2>1, TopKinds
  <2>3. Len(l.ci) >= 2 /\ Kind(l.ci[Len(l.ci)]) = "lua"
    <3>1. 1 \in 1..1 /\ Len(l.ci) - 1 + 1 = Len(l.ci) BY <2>2
    <3> QED BY <2>2, <3>1
  <2>4. EndsHook(l, u) BY <1>3, <1>5, <2>3 DEF EndsHook
  <2>5. PICK t :
          /\ IsState(t) /\ SameFields(l, t) /\ t.nCcalls = l.nCcalls /\ t.allowhook = TRUE
          /\ Len(t.ci) = Len(l.ci) - 1 /\ (\A j \in 1..Len(t.ci) : Kind(t.ci[j]) = Kind(l.ci[j]))
          /\ Entered(t, u, "lua")
    BY Zenon, <2>4, UnenteredState
  <2>6. Len(t.ci) = Len(l.ci) - CallsIn(Last(cstack)) /\ \A j \in 1..Len(t.ci) : Kind(t.ci[j]) = Kind(l.ci[j])
    BY <2>1, <2>5
  <2>7. t.nCcalls = l.nCcalls - (IF Last(cstack).k = "call" THEN 1 ELSE 0) BY <1>8, <1>9, <2>5
  <2>8. t.allowhook <=> l.allowhook \/ Last(cstack).k = "hook" BY <1>9, <2>5
  <2>10. Ready(Front(cstack), L, t) /\ Step(cstack, Front(cstack), {L})
    BY Zenon, <1>6, <1>9, <2>5, <2>6, <2>7, <2>8, PopFrame
  <2>11. At(Callers, L, t) /\ Ready(Callers, L, t) BY <1>2, <2>5, <2>10, AtNext DEF Callers, SameFields
  <2>12. Kind(Ci(t)) = "lua"
    <3>1. PICK g : g = Last(Callers) OBVIOUS
    <3>2. g.k = "execute" /\ g \in Frames BY <1>1, <1>7, <1>11, <3>1 DEF StandsOn
    <3>3. PICK x \in Nat \ {0} : x = g.nexeccalls BY <3>2, FrameTypes
    <3>4. CallsIn(g) = x /\ KindIn(g) = "lua" BY <3>2, <3>3 DEF CallsIn, KindIn
    <3>5. Len(t.ci) \in Nat /\ \A m \in 1..x : Kind(t.ci[Len(t.ci) - x + m]) = "lua"
      BY Zenon, <2>11, <3>1, <3>4, TopKinds
    <3>6. x \in 1..x /\ Len(t.ci) - x + x = Len(t.ci) BY <3>5
    <3>7. Kind(t.ci[Len(t.ci)]) = "lua" BY Zenon, <3>5, <3>6
    <3> QED BY <2>5, <3>7, LastCi
  <2>13. PICK v : v = MoveFrameDown(u) OBVIOUS
  <2>14. Keeps(t, v) BY <2>5, <2>12, <2>13, MoveKeeps
  <2>15. At(Callers, L, v) BY <2>11, <2>14, AtKeeps
  <2>16. Become(L, v, Reloaded(Callers, v)) BY <1>4, <1>11, <2>13 DEF EndHook
  <2>17. Last(Callers).k # "resume" BY <1>1, <1>7, <1>11 DEF StandsOn
  <2> QED BY <1>7, <2>15, <2>16, <2>17, ReloadEnds
<1> QED BY <1>10, <1>11

(***************************************************************************)
(* The invariant: it holds at the start, and every step keeps it.          *)
(***************************************************************************)
LEMMA StutterStep == ASSUME IInv, UNCHANGED vars PROVE IInv'
<1>1. uses' = uses /\ lstate' = lstate /\ cstack' = cstack BY DEF vars
<1> QED BY <1>1 DEF IInv
LEMMA LuaStep ==
  ASSUME IInv,
         \/ \E fn \in Values, n \in NResults : OP_CALL(fn, n)
         \/ \E fn \in Values : OP_TAILCALL(fn)
         \/ \E n \in NArgs : OP_RETURN(n)
         \/ \E fn \in Values, n \in {0, 1} : Metamethod(fn, n)
         \/ OP_VARARG \/ OP_SETLIST \/ OP_CLOSURE \/ OP_CLOSE \/ LuaError \/ traceexec
  PROVE  Goes
<1>1. CASE \E fn \in Values, n \in NResults : OP_CALL(fn, n) BY <1>1, CallStep
<1>2. CASE \E fn \in Values : OP_TAILCALL(fn) BY <1>2, TailcallStep
<1>3. CASE \E n \in NArgs : OP_RETURN(n) BY <1>3, OpReturnStep
<1>4. CASE \E fn \in Values, n \in {0, 1} : Metamethod(fn, n) BY <1>4, MetamethodStep
<1>5. CASE OP_VARARG BY <1>5, VarargStep
<1>6. CASE OP_SETLIST BY <1>6, SetlistStep
<1>7. CASE OP_CLOSURE BY <1>7, ClosureStep
<1>8. CASE OP_CLOSE BY <1>8, CloseStep
<1>9. CASE LuaError BY <1>9, LuaErrorStep
<1>10. CASE traceexec BY <1>10, TraceexecStep
<1> QED BY <1>1, <1>2, <1>3, <1>4, <1>5, <1>6, <1>7, <1>8, <1>9, <1>10
LEMMA CStep ==
  ASSUME IInv,
         \/ \E fn \in Values, n \in NArgs, r \in NResults :
              \/ lua_call(fn, n, r)
              \/ \E h \in {NoHandler} \cup (IF "handler" \in uses THEN Handlers ELSE {}) : lua_pcall(fn, n, r, h)
         \/ lua_cpcall \/ lua_error \/ MemoryError
         \/ \E n \in NArgs : CReturn(n) \/ lua_yield(n)
         \/ resume \/ EndCall \/ EndPcall \/ luaG_errormsg \/ EndHook
  PROVE  Goes
<1>1. CASE \E fn \in Values, n \in NArgs, r \in NResults :
             \/ lua_call(fn, n, r)
             \/ \E h \in {NoHandler} \cup (IF "handler" \in uses THEN Handlers ELSE {}) : lua_pcall(fn, n, r, h)
  BY <1>1, LuaCallStep, PcallStep
<1>2. CASE lua_cpcall BY <1>2, CpcallStep
<1>3. CASE lua_error BY <1>3, ErrorStep
<1>4. CASE MemoryError BY <1>4, MemoryErrorStep
<1>5. CASE \E n \in NArgs : CReturn(n) \/ lua_yield(n) BY <1>5, CReturnStep, YieldStep
<1>6. CASE resume BY <1>6, ResumeStep
<1>7. CASE EndCall BY <1>7, EndCallStep
<1>8. CASE EndPcall BY <1>8, EndPcallStep
<1>9. CASE luaG_errormsg BY <1>9, ErrormsgStep
<1>10. CASE EndHook BY <1>10, EndHookStep
<1> QED BY <1>1, <1>2, <1>3, <1>4, <1>5, <1>6, <1>7, <1>8, <1>9, <1>10
(* A step is one of the thread that runs, or of several threads.            *)
OwnStep == InLua \/ InC \/ EndCall \/ EndPcall \/ luaG_errormsg \/ resume
LEMMA Steps ==
  ASSUME IInv, Next
  PROVE  \/ Goes /\ OwnStep
         \/ UNCHANGED vars \/ EndResume
         \/ \E th \in Threads : CollectStack(th)
         \/ \E co \in Coroutines :
              \/ \E fn \in LuaFunctions : luaB_cocreate(co, fn)
              \/ \E n \in NArgs : ResumeOther(co, n) \/ luaB_coresume(co, n)
<1>1. CASE \/ \E fn \in Values, n \in NResults : OP_CALL(fn, n)
           \/ \E fn \in Values : OP_TAILCALL(fn)
           \/ \E n \in NArgs : OP_RETURN(n)
           \/ \E fn \in Values, n \in {0, 1} : Metamethod(fn, n)
           \/ OP_VARARG \/ OP_SETLIST \/ OP_CLOSURE \/ OP_CLOSE \/ LuaError \/ traceexec
  <2>1. InLua
    BY Zenon, <1>1 DEF OP_CALL, OP_TAILCALL, OP_RETURN, Metamethod, OP_VARARG, OP_SETLIST, OP_CLOSURE, OP_CLOSE,
                       LuaError, traceexec
  <2> QED BY Zenon, <1>1, <2>1, LuaStep DEF OwnStep
<1>2. CASE \/ \E fn \in Values, n \in NArgs, r \in NResults :
                \/ lua_call(fn, n, r)
                \/ \E h \in {NoHandler} \cup (IF "handler" \in uses THEN Handlers ELSE {}) : lua_pcall(fn, n, r, h)
           \/ lua_cpcall \/ lua_error \/ MemoryError
           \/ \E n \in NArgs : CReturn(n) \/ lua_yield(n)
           \/ resume \/ EndCall \/ EndPcall \/ luaG_errormsg \/ EndHook
  <2>1. OwnStep
    <3>1. CASE \E fn \in Values, n \in NArgs, r \in NResults :
                 \/ lua_call(fn, n, r)
                 \/ \E h \in {NoHandler} \cup (IF "handler" \in uses THEN Handlers ELSE {}) : lua_pcall(fn, n, r, h)
      BY Zenon, <3>1 DEF lua_call, lua_pcall, CanPush, OwnStep
    <3>2. CASE lua_cpcall \/ lua_error \/ MemoryError BY <3>2 DEF lua_cpcall, lua_error, MemoryError, CanPush, OwnStep
    <3>3. CASE \E n \in NArgs : CReturn(n) \/ lua_yield(n) BY <3>3 DEF CReturn, lua_yield, OwnStep
    <3>4. CASE resume \/ EndCall \/ EndPcall \/ luaG_errormsg BY <3>4 DEF OwnStep
    <3>5. CASE EndHook BY <3>5 DEF EndHook, OwnStep
    <3> QED BY Zenon, <1>2, <3>1, <3>2, <3>3, <3>4, <3>5
  <2> QED BY Zenon, <1>2, <2>1, CStep
<1> QED BY Zenon, <1>1, <1>2 DEF Next, Stop
LEMMA NextStep == ASSUME IInv, [Next]_vars PROVE IInv'
<1>1. CASE UNCHANGED vars BY <1>1, StutterStep
<1>2. CASE Goes BY <1>2 DEF Goes
<1>3. CASE EndResume \/ \E th \in Threads : CollectStack(th) BY <1>3, EndResumeStep, CollectStep
<1>4. CASE \E co \in Coroutines :
             \/ \E fn \in LuaFunctions : luaB_cocreate(co, fn)
             \/ \E n \in NArgs : ResumeOther(co, n) \/ luaB_coresume(co, n)
  BY <1>4, CocreateStep, ResumeOtherStep, CoresumeStep
<1> QED BY <1>1, <1>2, <1>3, <1>4, Steps

LEMMA InitInv == Init => IInv
<1> SUFFICES ASSUME Init PROVE IInv OBVIOUS
<1> DEFINE host == [k |-> "host", L |-> MainThread]
<1>1. /\ uses \in Programs /\ DOMAIN lstate = Threads /\ cstack = <<host>>
      /\ MainThread \in Threads /\ lstate[MainThread] = NewState
      /\ \A th \in Threads : th # MainThread => lstate[th] = NoState
  BY DEF Init, Threads
<1>2. host \in Frames /\ host.k = "host" /\ host.L = MainThread /\ CallsIn(host) = 0
  BY <1>1 DEF Frames, Simple, CallsIn
<1> HIDE DEF host
<1>3. PICK cs : cs = cstack OBVIOUS
<1>4. cs \in Seq(Frames) /\ Len(cs) = 1 /\ cs[1] = host /\ cs # <<>> BY <1>1, <1>2, <1>3
<1>5. IsState(NoState) /\ Suspended(NoState) /\ NoState.errorJmp = 0
  <2>1. PICK s : s = "none" OBVIOUS
  <2>2. s \in Errors \cup {"ok", "yield", "none"} /\ s # "ok" /\ s # "yield" BY <2>1
  <2>3. PICK t : t = NewState OBVIOUS
  <2>4. IsState(t) /\ t.allowhook /\ t.errfunc.at = 0 /\ t.errorJmp = 0 BY <2>3, NewStateTypes
  <2>5. PICK u : u = [t EXCEPT !.status = s] BY Zenon
  <2>6. IsState(u) /\ u.status = s /\ u.allowhook = t.allowhook /\ u.errfunc = t.errfunc /\ u.errorJmp = t.errorJmp
    BY Zenon, <2>2, <2>4, <2>5, SetStatus
  <2>7. u = NoState BY <2>1, <2>3, <2>5 DEF NoState
  <2> QED BY Zenon, <2>2, <2>4, <2>6, <2>7 DEF Suspended
<1>6. DepthAt(cs, 1) = 0 /\ CallsBelow(cs, MainThread, 1) = 0
  <2>1. DepthAt(cs, 0) = 0 /\ CallsBelow(cs, MainThread, 0) = 0 BY DepthZero, CallsBelowZero
  <2>2. 1 \in 1..Len(cs) /\ 1 \in Nat \ {0} /\ 1 - 1 = 0 BY <1>4
  <2>3. CallsBelow(cs, MainThread, 1) = CallsBelow(cs, MainThread, 0) + CallsIn(host)
    BY <1>2, <1>4, <2>2, CallsBelowNext
  <2>4. DepthAt(cs, 1) = DepthAt(cs, 0) BY <1>2, <1>4, <2>1, <2>2, DepthNext
  <2> QED BY <1>2, <2>1, <2>3, <2>4
<1>7. PICK i \in 1..Len(cs) : i = 1 BY <1>4
<1>8. FrameAt(cs, i)
  <2>1. cs[i] = host /\ DepthAt(cs, i) = 0 BY <1>4, <1>6, <1>7
  <2>2. Segment(cs, i) BY <1>7 DEF Segment
  <2>3. 0 <= LUAI_MAXCCALLS + ErrorCCalls BY LimitsAssumption
  <2> QED BY <1>2, <1>7, <2>1, <2>2, <2>3 DEF FrameAt
<1>9. StackOK(cs)
  <2>1. \A j \in 1..Len(cs) : j = i /\ ~ (j < Len(cs)) BY <1>4, <1>7
  <2> QED BY <1>4, <1>8, <2>1 DEF StackOK
<1>10. ThreadAt(cs, i, NewState, MainThread)
  <2>1. cs[i] = host /\ DepthAt(cs, i) = 0 /\ CallsBelow(cs, MainThread, i) = 0 BY <1>4, <1>6, <1>7
  <2>2. Protection(cs, i, NewState, MainThread)
    <3>1. LastProtected(cs, i, MainThread, 0)
      BY <1>2, <1>4, <1>7 DEF LastProtected, Protects
    <3>2. \A r \in 1..i : ~ Resumes(cs[r], MainThread) BY <1>2, <1>4, <1>7 DEF Resumes
    <3> QED BY <3>1, <3>2, NewStateTypes DEF Protection, HandlerIn
  <2>3. NoHook(cs, i, MainThread) BY <1>2, <1>4, <1>7 DEF NoHook
  <2>4. AgreesFrom(cs, i, NewState.ci, MainThread, 1)
    <3>1. \A j \in 1..i : FunctionsAt(cs, j, NewState.ci, MainThread, 1)
      BY <1>2, <1>4, <1>7 DEF FunctionsAt
    <3>2. ~ Continuing(cs, i, MainThread) BY <1>7 DEF Continuing
    <3> QED BY <3>1, <3>2 DEF AgreesFrom
  <2>5. Runs(cs, i, NewState, MainThread)
    <3>1. 1 \in 1..Len(NewState.ci) /\ Len(NewState.ci) = 1 + CallsBelow(cs, MainThread, i)
      BY <2>1, NewStateTypes
    <3> QED BY <2>1, <2>3, <2>4, <3>1, NewStateTypes DEF Runs
  <2> QED BY <1>2, <2>1, <2>2, <2>5 DEF ThreadAt
<1>11. ThreadOK(cs, NewState, MainThread)
  <2>1. cs[i].L = MainThread /\ \A n \in 1..Len(cs) : n = i BY <1>2, <1>4, <1>7
  <2> QED BY <1>10, <2>1, NewStateTypes DEF ThreadOK
<1>12. \A th \in Threads : th # MainThread => ThreadOK(cs, NoState, th)
  <2>1. ASSUME NEW th \in Threads, th # MainThread, NEW j \in 1..Len(cs) PROVE cs[j].L # th
    <3>1. j = 1 BY <1>4
    <3> QED BY <1>2, <1>4, <2>1, <3>1
  <2> QED BY <1>5, <2>1 DEF ThreadOK
<1>13. \A th \in Threads : IsState(lstate[th]) /\ ThreadOK(cs, lstate[th], th)
  BY <1>1, <1>5, <1>11, <1>12, NewStateTypes
<1> QED BY <1>1, <1>3, <1>4, <1>9, <1>13 DEF IInv, Good

(* The C stack and the threads agree in every state that is reached.       *)
THEOREM CStackInvariant == Spec => []IInv
BY InitInv, NextStep, PTL DEF Spec

(***************************************************************************)
(* What the invariant says of a thread that is on the C stack.             *)
(***************************************************************************)
LEMMA OnStack ==
  ASSUME IInv, NEW th \in OnCStack
  PROVE  /\ th \in Threads /\ cstack # <<>> /\ StackOK(cstack) /\ Len(cstack) \in Nat \ {0} /\ cstack \in Seq(Frames)
         /\ IsState(lstate[th])
         /\ \E n \in 1..Len(cstack) :
              /\ IsTop(cstack, n, th) /\ cstack[n] \in Frames /\ ThreadAt(cstack, n, lstate[th], th)
              /\ FrameAt(cstack, n) /\ (n = Len(cstack) => L = th /\ F = cstack[n])
              /\ n # Len(cstack) => cstack[n].k \in CCode
<1>1. PICK i \in DOMAIN cstack : cstack[i].L = th BY DEF OnCStack
<1>2. cstack # <<>> BY <1>1
<1>3. /\ StackOK(cstack) /\ cstack \in Seq(Frames) /\ Len(cstack) \in Nat \ {0} /\ F = cstack[Len(cstack)] /\ L = F.L
  BY <1>2, IInvFacts
<1>4. i \in 1..Len(cstack) BY <1>1, <1>3
<1>5. PICK n \in 1..Len(cstack) : IsTop(cstack, n, th)
  <2>1. Len(cstack) \in Nat BY <1>3
  <2> QED BY <1>1, <1>4, <2>1, ExistsTop
<1>6. cstack[n] \in Frames /\ cstack[n].L = th BY <1>3, <1>5, FrameOf DEF IsTop
<1>7. th \in Threads BY <1>6, FrameTypes
<1>8. IsState(lstate[th]) /\ ThreadOK(cstack, lstate[th], th) BY <1>2, <1>7 DEF IInv, Good
<1>9. ThreadAt(cstack, n, lstate[th], th) BY <1>1, <1>4, <1>5, <1>8 DEF ThreadOK
<1>10. n # Len(cstack) => cstack[n].k \in CCode
  <2>1. n # Len(cstack) => n \in 1..(Len(cstack) - 1) BY <1>3, <1>5
  <2> QED BY <1>3, <1>5, <2>1, WaitingFrame
<1> QED BY <1>2, <1>3, <1>5, <1>6, <1>7, <1>8, <1>9, <1>10 DEF StackOK
LEMMA OffStack ==
  ASSUME IInv, NEW th \in Threads, th \notin OnCStack
  PROVE  /\ IsState(lstate[th]) /\ lstate[th].errorJmp = 0
         /\ cstack # <<>> => Suspended(lstate[th])
         /\ cstack = <<>> => Over(lstate[th])
<1>1. CASE cstack = <<>> BY <1>1 DEF IInv, Good, Over
<1>2. CASE cstack # <<>>
  <2>1. cstack \in Seq(Frames) BY <1>2, IInvFacts
  <2>2. Off(cstack, th) BY <2>1 DEF Off, OnCStack
  <2> QED BY <1>2, <2>2, OffSuspended
<1> QED BY <1>1, <1>2
(* A thread whose resume or whose failed protected call runs.               *)
LEMMA Unsettled ==
  ASSUME IInv, NEW th \in OnCStack, ~ Landing(th), NEW n \in 1..Len(cstack), IsTop(cstack, n, th),
         n = Len(cstack) => L = th /\ F = cstack[n], n # Len(cstack) => cstack[n].k \in CCode,
         ThreadAt(cstack, n, lstate[th], th)
  PROVE  \/ Runs(cstack, n, lstate[th], th)
         \/ n = Len(cstack) /\ cstack[n].k = "resume" /\ cstack[n].status = "ok" /\ AtResume(cstack, n, lstate[th])
<1>1. cstack # <<>> BY OnStack
<1>2. CASE cstack[n].k \in {"pcall", "resume"}
  <2>1. n = Len(cstack) /\ L = th /\ F = cstack[n] BY <1>2 DEF CCode
  <2>2. cstack[n].status = "ok" BY <1>1, <1>2, <2>1 DEF Landing, L
  <2> QED BY <1>2, <2>1, <2>2 DEF ThreadAt
<1>3. CASE cstack[n].k \notin {"pcall", "resume"} BY <1>3 DEF ThreadAt
<1> QED BY <1>2, <1>3

(***************************************************************************)
(* Theorems.                                                               *)
(***************************************************************************)
LEMMA TypesHold == IInv => TypeOK
<1> SUFFICES ASSUME IInv PROVE TypeOK OBVIOUS
<1>1. uses \in Programs BY DEF IInv
<1>2. ASSUME NEW th \in Threads PROVE IsState(lstate[th]) /\ lstate[th].errorJmp \in 0..Len(cstack)
  <2>1. CASE th \in OnCStack
    <3>1. PICK n \in 1..Len(cstack) : ThreadAt(cstack, n, lstate[th], th) BY <2>1, OnStack
    <3>2. IsState(lstate[th]) /\ Len(cstack) \in Nat BY <2>1, OnStack
    <3>3. lstate[th].errorJmp \in 0..n BY <3>1 DEF ThreadAt, Protection, LastProtected
    <3> QED BY <3>2, <3>3
  <2>2. CASE th \notin OnCStack
    <3>1. Len(cstack) \in Nat
      <4>1. CASE cstack = <<>> BY <4>1
      <4>2. CASE cstack # <<>> BY <4>2, IInvFacts
      <4> QED BY <4>1, <4>2
    <3> QED BY <2>2, <3>1, OffStack
  <2> QED BY <2>1, <2>2
<1>3. ASSUME NEW i \in DOMAIN cstack PROVE cstack[i].k \in Kinds /\ cstack[i].L \in Threads
  <2>1. cstack # <<>> BY <1>3
  <2>2. cstack \in Seq(Frames) BY <2>1, IInvFacts
  <2>3. cstack[i] \in Frames BY <2>2
  <2> QED BY <2>3, FrameTypes
<1>4. ASSUME NEW th \in Threads
      PROVE  LET t == lstate[th]
             IN  /\ t.stack \in {0, Block} /\ {t.stacksize, t.nCcalls, t.baseCcalls} \subseteq Nat
                 /\ t.ci # <<>> /\ t.size_ci \in Nat /\ t.allowhook \in BOOLEAN
                 /\ t.status \in {"none", "ok", "yield", "errrun", "errmem", "errerr"}
                 /\ t.errorJmp \in 0..Len(cstack)
  <2>1. PICK t : t = lstate[th] OBVIOUS
  <2>2. IsState(t) /\ t.errorJmp \in 0..Len(cstack) BY <1>2, <2>1
  <2> QED BY <2>1, <2>2, FieldTypes
<1> QED BY <1>1, <1>3, <1>4 DEF TypeOK

LEMMA FramesHold ==
  ASSUME IInv, NEW th \in OnCStack, NEW n \in 1..Len(cstack), IsTop(cstack, n, th),
         AgreesFrom(cstack, n, lstate[th].ci, th, 1), Len(lstate[th].ci) = 1 + CallsBelow(cstack, th, n)
  PROVE  FramesAgree(th)
<1>1. cstack \in Seq(Frames) /\ Len(cstack) \in Nat BY OnStack
<1>2. \A i \in DOMAIN cstack : cstack[i].L = th => i \in 1..n BY <1>1 DEF IsTop
<1>3. CallsBelow(cstack, th, Len(cstack)) = CallsBelow(cstack, th, n)
  <2>1. {j \in 1..Len(cstack) : cstack[j].L = th} = {j \in 1..n : cstack[j].L = th} BY <1>1, <1>2
  <2> QED BY Zenon, <2>1 DEF CallsBelow
<1>4. ASSUME NEW i \in DOMAIN cstack, cstack[i].L = th, NEW m \in 1..CallsIn(cstack[i])
      PROVE  lstate[th].ci[1 + CallsBelow(cstack, th, i - 1) + m].func.fn.kind = KindIn(cstack[i])
  <2>1. i \in 1..n BY <1>2, <1>4
  <2>2. FunctionsAt(cstack, i, lstate[th].ci, th, 1) BY <1>4, <2>1 DEF AgreesFrom
  <2> QED BY <1>4, <2>2 DEF FunctionsAt, Kind
<1> QED BY <1>3, <1>4 DEF FramesAgree
LEMMA ActivationsHold == IInv => ActivationsAgree
<1> SUFFICES ASSUME IInv PROVE ActivationsAgree OBVIOUS
<1>1. ASSUME NEW th \in Active PROVE Switching(th) \/ FramesAgree(th)
  <2>1. th \in OnCStack /\ ~ Landing(th) BY DEF Active
  <2>2. PICK n \in 1..Len(cstack) :
          /\ IsTop(cstack, n, th) /\ cstack[n] \in Frames /\ ThreadAt(cstack, n, lstate[th], th)
          /\ FrameAt(cstack, n) /\ (n = Len(cstack) => L = th /\ F = cstack[n])
          /\ n # Len(cstack) => cstack[n].k \in CCode
    BY <2>1, OnStack
  <2>3. cstack \in Seq(Frames) /\ Len(cstack) \in Nat \ {0} BY <2>1, OnStack
  <2>4. CASE Runs(cstack, n, lstate[th], th)
    <3>1. PICK b \in 1..Len(lstate[th].ci) :
            AgreesFrom(cstack, n, lstate[th].ci, th, b) /\ Len(lstate[th].ci) = b + CallsBelow(cstack, th, n)
      BY <2>4 DEF Runs
    <3>2. CASE b > 1
      <4>1. PICK r \in 1..(n - 1) : Resumes(cstack[r], th) /\ cstack[r + 1].k = "poscall"
        BY <3>1, <3>2 DEF AgreesFrom, Continuing
      <4>2. r \in DOMAIN cstack BY <2>3
      <4> QED BY <4>1, <4>2 DEF Switching, Resumes
    <3>3. CASE b = 1 BY <2>1, <2>2, <3>1, <3>3, FramesHold
    <3>4. b > 1 \/ b = 1 OBVIOUS
    <3> QED BY <3>2, <3>3, <3>4
  <2>5. CASE n = Len(cstack) /\ cstack[n].k = "resume"
    <3>1. n \in DOMAIN cstack /\ ~ (n < Len(cstack)) BY <2>3, <2>5
    <3> QED BY <2>2, <2>5, <3>1 DEF Switching, IsTop
  <2> QED BY <2>1, <2>2, <2>4, <2>5, Unsettled
<1>2. ASSUME cstack # <<>>, ~ Landing(L) PROVE l.nCcalls = DepthAt(cstack, Len(cstack))
  <2>1. PICK n : n = Len(cstack) BY Zenon
  <2>2. /\ n \in Nat \ {0} /\ F = cstack[n] /\ cstack \in Seq(Frames)
        /\ ThreadAt(cstack, n, l, L) /\ IsTop(cstack, n, L)
    BY <1>2, <2>1, IInvFacts
  <2>3. L \in OnCStack
    <3>1. n \in DOMAIN cstack BY <2>1, <2>2
    <3> QED BY <2>2, <3>1 DEF OnCStack, L
  <2>4. \/ Runs(cstack, n, l, L)
        \/ n = Len(cstack) /\ cstack[n].k = "resume" /\ cstack[n].status = "ok" /\ AtResume(cstack, n, l)
    BY <1>2, <2>1, <2>2, <2>3, Unsettled DEF l
  <2> QED BY <2>1, <2>4 DEF Runs, AtResume
<1>3. DepthAt(cstack, Len(cstack)) <= LUAI_MAXCCALLS + ErrorCCalls
  <2>1. CASE cstack = <<>>
    <3>1. Len(cstack) = 0 BY <2>1
    <3> QED BY <3>1, DepthZero, LimitsAssumption
  <2>2. CASE cstack # <<>> BY <2>2, IInvFacts DEF FrameAt
  <2> QED BY <2>1, <2>2
<1> QED BY <1>1, <1>2, <1>3 DEF ActivationsAgree, StacksAgree, CCallsCounted

LEMMA LargestIs ==
  ASSUME NEW S \in SUBSET Int, NEW e \in S, \A i \in S : i <= e
  PROVE  Max(S) = e
<1>1. \A x \in S : x >= e => x = e OBVIOUS
<1>2. \A y \in S : e >= y OBVIOUS
<1> QED BY Zenon, <1>1, <1>2 DEF Max
LEMMA ThrowsHold == IInv => ThrowLands
<1> SUFFICES ASSUME IInv, NEW th \in OnCStack
             PROVE  LET protected == {i \in DOMAIN cstack : cstack[i].k \in {"pcall", "resume"} /\ cstack[i].L = th}
                    IN  /\ lstate[th].errorJmp = Max(protected \cup {0})
                        /\ th = L => \A i \in (lstate[th].errorJmp + 1)..Len(cstack) : cstack[i].L = th
  BY Zenon DEF ThrowLands
<1> DEFINE protected == {i \in DOMAIN cstack : cstack[i].k \in {"pcall", "resume"} /\ cstack[i].L = th}
<1>1. PICK n \in 1..Len(cstack) : IsTop(cstack, n, th) /\ ThreadAt(cstack, n, lstate[th], th) BY OnStack
<1>2. cstack \in Seq(Frames) /\ Len(cstack) \in Nat \ {0} /\ cstack # <<>> /\ StackOK(cstack) BY OnStack
<1>3. PICK e : e = lstate[th].errorJmp OBVIOUS
<1>4. LastProtected(cstack, n, th, e) BY <1>1, <1>3 DEF ThreadAt, Protection
<1>5. e = Max(protected \cup {0})
  <2>1. protected \cup {0} \in SUBSET Int BY <1>2
  <2>2. e \in protected \cup {0}
    <3>1. e # 0 => e \in DOMAIN cstack BY <1>2, <1>4 DEF LastProtected
    <3> QED BY <1>4, <3>1 DEF LastProtected, Protects
  <2>3. ASSUME NEW i \in protected \cup {0} PROVE i <= e
    <3>1. e \in 0..n BY <1>4 DEF LastProtected
    <3>2. CASE i = 0 BY <3>1, <3>2
    <3>3. CASE i \in protected
      <4>1. i \in 1..Len(cstack) /\ Protects(cstack[i], th) BY <1>2, <3>3 DEF Protects
      <4>2. i \in 1..n BY <1>1, <4>1 DEF IsTop, Protects
      <4>3. i \notin (e + 1)..n BY <1>4, <4>1 DEF LastProtected
      <4> QED BY <3>1, <4>2, <4>3
    <3> QED BY <3>2, <3>3
  <2> HIDE DEF protected
  <2> QED BY Zenon, <2>1, <2>2, <2>3, LargestIs
<1>6. th = L => \A i \in (e + 1)..Len(cstack) : cstack[i].L = th
  <2>1. SUFFICES ASSUME th = L PROVE Above(cstack, e, {th}) BY DEF Above
  <2>2. th = cstack[Len(cstack)].L /\ n = Len(cstack)
    <3>1. F = cstack[Len(cstack)] /\ L = F.L BY <1>2, IInvFacts
    <3>2. th = cstack[Len(cstack)].L BY <2>1, <3>1
    <3>3. Len(cstack) \notin (n + 1)..Len(cstack) BY <1>1, <3>2 DEF IsTop
    <3> QED BY <1>2, <3>2, <3>3
  <2> QED BY <1>2, <1>4, <2>2, ThrowsOwn
<1> QED BY <1>3, <1>5, <1>6

LEMMA HandlerHolds == IInv => HandlerKept
<1> SUFFICES ASSUME IInv, NEW th \in Threads, lstate[th].errfunc.at # 0
             PROVE  LET pcalls == {i \in DOMAIN cstack : cstack[i].k = "pcall" /\ cstack[i].L = th}
                    IN  \/ th \in OnCStack /\ pcalls # {} /\ lstate[th].errfunc.at = cstack[Max(pcalls)].old_top - 1
                        \/ lstate[th].status \in {"errrun", "errmem", "errerr"}
  BY DEF HandlerKept
<1> DEFINE pcalls == {i \in DOMAIN cstack : cstack[i].k = "pcall" /\ cstack[i].L = th}
<1>1. CASE th \in OnCStack
  <2>1. PICK n \in 1..Len(cstack) : IsTop(cstack, n, th) /\ ThreadAt(cstack, n, lstate[th], th) BY <1>1, OnStack
  <2>2. cstack \in Seq(Frames) /\ Len(cstack) \in Nat \ {0} BY <1>1, OnStack
  <2>3. PICK p \in 1..n : /\ IsPcall(cstack[p], th) /\ lstate[th].errfunc.at = cstack[p].old_top - 1
                          /\ \A j \in (p + 1)..n : ~ IsPcall(cstack[j], th)
    BY <2>1 DEF ThreadAt, Protection, HandlerIn
  <2>4. pcalls \in SUBSET Int /\ p \in pcalls BY <2>2, <2>3 DEF IsPcall
  <2>5. ASSUME NEW i \in pcalls PROVE i <= p
    <3>1. i \in 1..Len(cstack) /\ IsPcall(cstack[i], th) BY <2>2, <2>5 DEF IsPcall
    <3>2. i \in 1..n BY <2>1, <3>1 DEF IsTop, IsPcall
    <3>3. i \notin (p + 1)..n BY <2>3, <3>1
    <3> QED BY <2>3, <3>2, <3>3
  <2>6. Max(pcalls) = p
    <3> HIDE DEF pcalls
    <3> QED BY <2>4, <2>5, LargestIs
  <2> QED BY <1>1, <2>3, <2>4, <2>6
<1>2. CASE th \notin OnCStack
  <2>1. (cstack # <<>> => Suspended(lstate[th])) /\ (cstack = <<>> => Over(lstate[th])) BY <1>2, OffStack
  <2> QED BY <2>1 DEF Suspended, Over
<1> QED BY <1>1, <1>2
LEMMA HooksHold == IInv => HooksOffInHook
<1> SUFFICES ASSUME IInv, NEW th \in Active
             PROVE  lstate[th].allowhook <=> ~ \E i \in DOMAIN cstack : cstack[i].k = "hook" /\ cstack[i].L = th
  BY DEF HooksOffInHook
<1>1. th \in OnCStack /\ ~ Landing(th) BY DEF Active
<1>2. PICK n \in 1..Len(cstack) :
        /\ IsTop(cstack, n, th) /\ ThreadAt(cstack, n, lstate[th], th)
        /\ FrameAt(cstack, n) /\ (n = Len(cstack) => L = th /\ F = cstack[n])
        /\ n # Len(cstack) => cstack[n].k \in CCode
  BY <1>1, OnStack
<1>3. cstack \in Seq(Frames) /\ Len(cstack) \in Nat \ {0} BY <1>1, OnStack
<1>4. (\E i \in DOMAIN cstack : cstack[i].k = "hook" /\ cstack[i].L = th) <=> ~ NoHook(cstack, n, th)
  <2>1. \A i \in DOMAIN cstack : cstack[i].L = th => i \in 1..n BY <1>2, <1>3 DEF IsTop
  <2>2. 1..n \subseteq DOMAIN cstack BY <1>3
  <2> QED BY <2>1, <2>2 DEF NoHook
<1>5. CASE Runs(cstack, n, lstate[th], th) BY <1>4, <1>5 DEF Runs
<1>6. CASE n = Len(cstack) /\ cstack[n].k = "resume" /\ cstack[n].status = "ok" /\ AtResume(cstack, n, lstate[th])
  <2>1. lstate[th].allowhook
    <3>1. lstate[th].status \in {"ok", "yield"} /\ Suspended(lstate[th]) BY <1>6 DEF AtResume
    <3> QED BY <3>1 DEF Suspended
  <2>2. NoHook(cstack, n, th)
    <3>1. cstack[n].L = th /\ \A j \in 1..(n - 1) : cstack[j].L # th BY <1>2, <1>6 DEF FrameAt, ResumeAt, IsTop
    <3> QED BY <1>6, <3>1 DEF NoHook
  <2> QED BY <1>4, <2>1, <2>2
<1> QED BY <1>1, <1>2, <1>5, <1>6, Unsettled
LEMMA YieldsHold == IInv => YieldedInLua
<1> SUFFICES ASSUME IInv, NEW co \in Coroutines, lstate[co].status = "yield"
             PROVE  /\ \A i \in 2..(Len(lstate[co].ci) - 1) : f_isLua(lstate[co].ci[i])
                    /\ ~ f_isLua(Ci(lstate[co])) /\ Len(lstate[co].ci) > 2
                    /\ \A i \in DOMAIN cstack : cstack[i].L = co => i = Len(cstack) /\ cstack[i].k = "resume"
  BY DEF YieldedInLua
<1>1. co \in Threads BY DEF Threads
<1>2. IsState(lstate[co])
  <2>1. CASE co \in OnCStack BY <2>1, OnStack
  <2>2. CASE co \notin OnCStack BY <1>1, <2>2, OffStack
  <2> QED BY <2>1, <2>2
<1>3. ASSUME co \in OnCStack
      PROVE  Yielded(lstate[co].ci) /\ \A i \in DOMAIN cstack : cstack[i].L = co => i = Len(cstack) /\ cstack[i].k = "resume"
  <2>1. PICK n \in 1..Len(cstack) :
          IsTop(cstack, n, co) /\ ThreadAt(cstack, n, lstate[co], co) /\ FrameAt(cstack, n)
          /\ (n # Len(cstack) => cstack[n].k \in CCode)
    BY <1>3, OnStack
  <2>2. cstack \in Seq(Frames) /\ Len(cstack) \in Nat \ {0} BY <1>3, OnStack
  <2>3. cstack[n].k = "resume" /\ AtResume(cstack, n, lstate[co])
    BY <2>1 DEF ThreadAt, Runs, Lands
  <2>4. n = Len(cstack) BY <2>1, <2>3 DEF CCode
  <2>5. Suspended(lstate[co]) BY <2>3 DEF AtResume
  <2>6. cstack[n].L = co /\ \A j \in 1..(n - 1) : cstack[j].L # co BY <2>1, <2>3 DEF FrameAt, ResumeAt, IsTop
  <2>7. ASSUME NEW i \in DOMAIN cstack, cstack[i].L = co PROVE i = n
    <3>1. i \in 1..n BY <2>2, <2>4
    <3>2. i \notin 1..(n - 1) BY <2>6, <2>7
    <3> QED BY <3>1, <3>2
  <2>8. Yielded(lstate[co].ci) BY <2>5 DEF Suspended
  <2>9. \A i \in DOMAIN cstack : cstack[i].L = co => i = Len(cstack) /\ cstack[i].k = "resume"
    BY <2>3, <2>4, <2>7
  <2> QED BY <2>8, <2>9
<1>4. ASSUME co \notin OnCStack
      PROVE  Yielded(lstate[co].ci) /\ \A i \in DOMAIN cstack : cstack[i].L = co => i = Len(cstack) /\ cstack[i].k = "resume"
  <2>1. \A i \in DOMAIN cstack : cstack[i].L # co BY <1>4 DEF OnCStack
  <2>2. (cstack # <<>> => Suspended(lstate[co])) /\ (cstack = <<>> => Over(lstate[co])) BY <1>1, <1>4, OffStack
  <2>3. Yielded(lstate[co].ci) BY <2>2 DEF Suspended, Over
  <2>4. \A i \in DOMAIN cstack : cstack[i].L = co => i = Len(cstack) /\ cstack[i].k = "resume" BY <2>1
  <2> QED BY <2>3, <2>4
<1>5. Yielded(lstate[co].ci) /\ \A i \in DOMAIN cstack : cstack[i].L = co => i = Len(cstack) /\ cstack[i].k = "resume"
  BY <1>3, <1>4
<1>6. Ci(lstate[co]) = lstate[co].ci[Len(lstate[co].ci)] BY <1>2, LastCi
<1> QED BY Zenon, <1>5, <1>6 DEF Yielded, Kind, f_isLua

(* The states of all threads and the frames of C have the types that        *)
(* lstate.h gives them, and errorJmp is a frame that exists.               *)
THEOREM TypesCorrect == Spec => []TypeOK
BY CStackInvariant, TypesHold, PTL

(* Whatever errors, hooks, tail calls and switches of coroutines have come  *)
(* before: the CallInfo list of an active thread holds the functions whose *)
(* activations are on the C stack, and nCcalls counts the C calls of all    *)
(* threads, within the limit (luaD_precall, luaD_poscall, luaD_pcall,       *)
(* lua_resume, lua_yield).                                                 *)
THEOREM CallsAndCStackAgree == Spec => []ActivationsAgree
BY CStackInvariant, ActivationsHold, PTL

(* luaD_throw lands in the innermost protected call of its thread and never *)
(* jumps over a frame of another one.                                      *)
THEOREM ErrorsLandInOwnThread == Spec => []ThrowLands
BY CStackInvariant, ThrowsHold, PTL

(* Whatever protected calls and hooks an error leaves: the error function   *)
(* is that of the innermost protected call that is left, and hooks are off  *)
(* exactly while one runs (luaD_pcall, lua_pcall, luaD_callhook).           *)
THEOREM ErrorsRestoreAll == Spec => []ErrorsRestore
<1>1. IInv => ErrorsRestore BY HandlerHolds, HooksHold DEF ErrorsRestore
<1> QED BY <1>1, CStackInvariant, PTL

(* A coroutine that has yielded has only Lua functions below the C function *)
(* that yielded and no activation on the C stack, also after an error that  *)
(* ends the program (lua_yield, lua_resume).                               *)
THEOREM YieldsOnlyLua == Spec => []YieldedInLua
BY CStackInvariant, YieldsHold, PTL

=============================================================================
