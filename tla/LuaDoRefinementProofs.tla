------------------------- MODULE LuaDoRefinementProofs -------------------------
(***************************************************************************)
(* Proofs about LuaDo: it implements the coroutines of the manual           *)
(* (LuaCoroutines), which know neither of stacks nor of calls: what         *)
(* luaB_costatus finds out of status, ci and top of a thread is what the    *)
(* resumes and yields of the program have made of it.                      *)
(***************************************************************************)
EXTENDS LuaDoProofs

USE DEF Errors, CFunction, NotFunction, NoBody, LUA_MULTRET, Done

(***************************************************************************)
(* What a reallocation keeps: the distances of top, base and the base of    *)
(* the last CallInfo.                                                      *)
(***************************************************************************)
Shifted(t, t2) ==
  /\ Keeps(t, t2) /\ t2.top - t2.base = t.top - t.base
  /\ Ci(t2).base - t2.base = Ci(t).base - t.base

LEMMA BaseTypes == ASSUME NEW t, IsState(t) PROVE t.top \in Int /\ t.base \in Int /\ Ci(t).base \in Int
BY FieldTypes, LastCi, CiTypes
LEMMA ShiftedSelf == ASSUME NEW t, IsState(t) PROVE Shifted(t, t)
BY KeepsSelf, BaseTypes DEF Shifted
LEMMA ShiftedTrans ==
  ASSUME NEW t, IsState(t), NEW t1, NEW t2, Shifted(t, t1), Shifted(t1, t2)
  PROVE  Shifted(t, t2)
<1>1. Keeps(t, t2) BY KeepsTrans DEF Shifted
<1> QED BY <1>1 DEF Shifted
(* The same positions.                                                      *)
LEMMA ShiftedSame ==
  ASSUME NEW t, IsState(t), NEW t2, Keeps(t, t2), t2.top = t.top, t2.base = t.base, t2.ci = t.ci
  PROVE  Shifted(t, t2)
BY BaseTypes DEF Shifted, Ci
LEMMA CorrectstackShifts == ASSUME NEW t, IsState(t), NEW n \in {0, Block} PROVE Shifted(t, correctstack(t, n))
<1> DEFINE moved(p) == (p - t.stack) + n
<1> DEFINE movedci(ci) == [func |-> [at |-> moved(ci.func.at), fn |-> ci.func.fn], base |-> moved(ci.base),
                           top |-> moved(ci.top), nresults |-> ci.nresults]
<1>1. PICK c, up : c = [i \in DOMAIN t.ci |-> movedci(t.ci[i])] /\ up = {moved(p) : p \in t.openupval} OBVIOUS
<1>2. PICK x, y : x = moved(t.top) /\ y = moved(t.base) OBVIOUS
<1>3. PICK u : u = correctstack(t, n) OBVIOUS
<1>4. u = [t EXCEPT !.stack = n, !.top = x, !.base = y, !.openupval = up, !.ci = c]
  BY <1>1, <1>2, <1>3 DEF correctstack
<1>5. u.top = x /\ u.base = y /\ u.ci = c BY <1>4 DEF IsState, LuaState
<1>6. t.ci \in Seq(CallInfo) /\ Len(t.ci) \in Nat \ {0} /\ t.stack \in Int /\ n \in Int BY FieldTypes DEF Block
<1>7. Len(c) = Len(t.ci) /\ c[Len(t.ci)] = movedci(t.ci[Len(t.ci)]) /\ c \in Seq({movedci(t.ci[i]) : i \in DOMAIN t.ci})
  <2> HIDE DEF movedci
  <2> QED BY <1>1, <1>6
<1>8. Ci(u).base = moved(Ci(t).base)
  <2>1. movedci(t.ci[Len(t.ci)]).base = moved(t.ci[Len(t.ci)].base) OBVIOUS
  <2> HIDE DEF movedci, moved
  <2> QED BY <1>5, <1>7, <2>1 DEF Ci, Last
<1>9. Keeps(t, u) BY <1>3, CorrectstackKeeps
<1>10. t.top \in Int /\ t.base \in Int /\ Ci(t).base \in Int BY BaseTypes
<1>11. u.top - u.base = t.top - t.base /\ Ci(u).base - u.base = Ci(t).base - t.base
  BY <1>2, <1>5, <1>6, <1>8, <1>10
<1> QED BY <1>3, <1>9, <1>11 DEF Shifted

LEMMA ReallocShifts == ASSUME NEW t, IsState(t), NEW n \in Nat PROVE Shifted(t, luaD_reallocstack(t, n))
<1>1. Block - t.stack \in {0, Block} BY FieldTypes DEF Block
<1>2. PICK s : s = correctstack(t, Block - t.stack) OBVIOUS
<1>3. Shifted(t, s) BY <1>1, <1>2, CorrectstackShifts
<1>4. PICK x \in Nat : x = n + 1 + EXTRA_STACK BY LimitsAssumption
<1>5. luaD_reallocstack(t, n) = [s EXCEPT !.stacksize = x] BY <1>2, <1>4 DEF luaD_reallocstack
<1>6. IsState(s) BY <1>3 DEF Shifted, Keeps
<1>7. Shifted(s, [s EXCEPT !.stacksize = x])
  <2>1. Keeps(s, [s EXCEPT !.stacksize = x]) BY <1>6, SetStackSize
  <2>2. PICK u : u = [s EXCEPT !.stacksize = x] OBVIOUS
  <2>3. u.top = s.top /\ u.base = s.base /\ u.ci = s.ci BY <1>6, <2>2 DEF IsState, LuaState
  <2> QED BY <1>6, <2>1, <2>2, <2>3, ShiftedSame
<1> QED BY <1>3, <1>5, <1>7, ShiftedTrans
LEMMA CheckstackShifts == ASSUME NEW t, IsState(t), NEW n \in Int PROVE Shifted(t, luaD_checkstack(t, n))
<1>1. (IF n <= t.stacksize THEN 2 * t.stacksize ELSE t.stacksize + n) \in Nat BY FieldTypes
<1>2. Shifted(t, luaD_growstack(t, n)) BY <1>1, ReallocShifts DEF luaD_growstack
<1> QED BY <1>2, ShiftedSelf DEF luaD_checkstack
LEMMA SetCiTopShifts == ASSUME NEW t, IsState(t), NEW x \in Int PROVE Shifted(t, SetCiTop(t, x))
<1>1. PICK c : c = [Ci(t) EXCEPT !.top = x] OBVIOUS
<1>2. PICK s : s = [t.ci EXCEPT ![Len(t.ci)] = c] OBVIOUS
<1>3. PICK u : u = SetCiTop(t, x) OBVIOUS
<1>4. u = [t EXCEPT !.ci = s] BY <1>1, <1>2, <1>3 DEF SetCiTop
<1>5. u.top = t.top /\ u.base = t.base /\ u.ci = s BY <1>4 DEF IsState, LuaState
<1>6. c \in CallInfo /\ c.base = Ci(t).base BY <1>1, LastCi DEF CallInfo
<1>7. t.ci \in Seq(CallInfo) /\ Len(t.ci) \in Nat \ {0} BY FieldTypes
<1>8. Len(s) = Len(t.ci) /\ s[Len(t.ci)] = c BY <1>2, <1>6, <1>7
<1>9. Ci(u).base = Ci(t).base BY <1>5, <1>6, <1>8 DEF Ci, Last
<1>10. Keeps(t, u) BY <1>3, SetCiTopKeeps
<1> QED BY <1>3, <1>5, <1>9, <1>10, BaseTypes DEF Shifted
LEMMA LuaCheckstackShifts ==
  ASSUME NEW t, IsState(t), NEW n \in Int
  PROVE  Shifted(t, lua_checkstack(t, n).t)
<1>1. PICK t1 : t1 = IF n > 0 THEN luaD_checkstack(t, n) ELSE t OBVIOUS
<1>2. Shifted(t, t1) /\ IsState(t1) BY <1>1, CheckstackShifts, ShiftedSelf DEF Shifted, Keeps
<1>3. PICK t2 : t2 = IF n > 0 /\ Ci(t1).top < t1.top + n THEN SetCiTop(t1, t1.top + n) ELSE t1 OBVIOUS
<1>4. Shifted(t, t2)
  <2>1. t1.top + n \in Int BY <1>2, FieldTypes
  <2>2. Shifted(t1, SetCiTop(t1, t1.top + n)) BY <1>2, <2>1, SetCiTopShifts
  <2> QED BY <1>2, <1>3, <2>2, ShiftedTrans
<1>5. lua_checkstack(t, n) = IF n > LUAI_MAXCSTACK \/ t.top - t.base + n > LUAI_MAXCSTACK
                             THEN [ok |-> FALSE, t |-> t] ELSE [ok |-> TRUE, t |-> t2]
  BY <1>1, <1>3 DEF lua_checkstack
<1> QED BY <1>4, <1>5, ShiftedSelf
LEMMA ShrunkShifts == ASSUME NEW t, IsState(t) PROVE Shifted(t, Shrunk(t))
<1>1. PICK t1 : t1 = IF 4 * (Len(t.ci) - 1) < t.size_ci /\ 2 * BASIC_CI_SIZE < t.size_ci
                     THEN [t EXCEPT !.size_ci = t.size_ci \div 2] ELSE t
  OBVIOUS
<1>2. t.size_ci \div 2 \in Nat /\ t.stacksize \div 2 \in Nat BY FieldTypes
<1>3. Shifted(t, t1)
  <2>1. PICK x, u : x = t.size_ci \div 2 /\ u = [t EXCEPT !.size_ci = x] OBVIOUS
  <2>2. Keeps(t, u) /\ u.top = t.top /\ u.base = t.base /\ u.ci = t.ci
    <3>1. Keeps(t, u) BY <1>2, <2>1, SetSizeCi
    <3>2. u.top = t.top /\ u.base = t.base /\ u.ci = t.ci BY <2>1 DEF IsState, LuaState
    <3> QED BY <3>1, <3>2
  <2>3. Shifted(t, u) BY <2>2, ShiftedSame
  <2> QED BY <1>1, <2>1, <2>3, ShiftedSelf
<1>4. IsState(t1) BY <1>3 DEF Shifted, Keeps
<1>5. Shifted(t, luaD_reallocstack(t1, t.stacksize \div 2)) BY <1>2, <1>3, <1>4, ReallocShifts, ShiftedTrans
<1>6. Shrunk(t) \in {t, t1, luaD_reallocstack(t1, t.stacksize \div 2)} BY <1>1 DEF Shrunk
<1> QED BY <1>3, <1>5, <1>6, ShiftedSelf

(* A coroutine that resume_error has been done to has nothing left.         *)
LEMMA ResumeErrorEmpties ==
  ASSUME NEW t, IsState(t), t.base = Ci(t).base, NEW e, e = resume_error(t)
  PROVE  Keeps(t, e) /\ e.top = e.base /\ Ci(e).base = e.base
<1>1. PICK t1 : t1 = [t EXCEPT !.top = Ci(t).base] BY Zenon
<1>2. t1.top = Ci(t).base /\ t1.base = t.base /\ t1.ci = t.ci /\ IsState(t1)
  <2>1. Ci(t).base \in Int BY BaseTypes
  <2>2. PICK x \in Int : x = Ci(t).base BY <2>1
  <2>3. t1 = [t EXCEPT !.top = x] BY <1>1, <2>2
  <2>4. IsState(t1) BY <2>3, SetTop DEF Keeps
  <2>5. t1.top = x /\ t1.base = t.base /\ t1.ci = t.ci BY <2>3 DEF IsState, LuaState
  <2> QED BY <2>2, <2>4, <2>5
<1>3. PICK t2 : t2 = luaD_checkstack(t1, 1) OBVIOUS
<1>4. Shifted(t1, t2) /\ IsState(t2) BY <1>2, <1>3, CheckstackShifts DEF Shifted, Keeps
<1>5. t2.top = t2.base /\ Ci(t2).base = t2.base
  <2>1. t2.top \in Int /\ t2.base \in Int /\ Ci(t2).base \in Int /\ Ci(t).base \in Int BY <1>4, BaseTypes
  <2>2. Ci(t1) = Ci(t) BY <1>2 DEF Ci
  <2> QED BY <1>2, <1>4, <2>1, <2>2 DEF Shifted
<1>6. PICK t3 : t3 = incr_top(t1) OBVIOUS
<1>7. t3 = [t2 EXCEPT !.top = t2.top + 1] BY <1>3, <1>6 DEF incr_top
<1>8. e = [t3 EXCEPT !.top = t3.top - 1] BY <1>1, <1>6 DEF resume_error
<1>9. t2.top \in Int BY <1>4, BaseTypes
<1>10. t3.top = t2.top + 1 /\ t3.base = t2.base /\ t3.ci = t2.ci /\ IsState(t3)
  <2>1. PICK x \in Int : x = t2.top + 1 BY <1>9
  <2>2. t3 = [t2 EXCEPT !.top = x] BY <1>7, <2>1
  <2>3. IsState(t3) BY <1>4, <2>2, SetTop DEF Keeps
  <2>4. t3.top = x /\ t3.base = t2.base /\ t3.ci = t2.ci BY <1>4, <2>2 DEF IsState, LuaState
  <2> QED BY <2>1, <2>3, <2>4
<1>11. e.top = t2.top /\ e.base = t2.base /\ e.ci = t2.ci
  <2>1. t3.top - 1 = t2.top BY <1>9, <1>10
  <2>2. e = [t3 EXCEPT !.top = t2.top] BY <1>8, <2>1
  <2> QED BY <1>10, <2>2 DEF IsState, LuaState
<1>12. Ci(e) = Ci(t2) BY <1>11 DEF Ci
<1>13. Keeps(t, e) BY ResumeErrorKeeps
<1> QED BY <1>5, <1>11, <1>12, <1>13

(***************************************************************************)
(* What IInv does not say of a coroutine, which has the state t while cs is *)
(* the C stack.                                                            *)
(***************************************************************************)
OnTop(cs, co) == Last(cs).k = "resume" /\ Last(cs).L = co
CoOK(cs, t, co) ==
  (* It does not exist, ...                                                *)
  /\ t.status = "none" => t = NoState
  (* ... it has still its body when it has not started, ...                *)
  /\ t.body # NoBody => t.status = "ok" /\ (Off(cs, co) \/ (OnTop(cs, co) /\ Last(cs).n # Done))
  (* ... and with no function in progress its base is in place.            *)
  /\ t.status = "ok" /\ Len(t.ci) = 1 /\ (Off(cs, co) \/ (OnTop(cs, co) /\ Last(cs).status = "ok"))
       => t.base = Ci(t).base
CoInv == cstack # <<>> => \A co \in Coroutines : CoOK(cstack, lstate[co], co)

LEMMA CoOutside ==
  ASSUME NEW cs, NEW new, NEW co, NEW t, CoOK(cs, t, co), Off(cs, co), Off(new, co)
  PROVE  CoOK(new, t, co)
BY DEF CoOK
LEMMA CoShifted ==
  ASSUME NEW cs, NEW new, NEW co, NEW t, IsState(t), CoOK(cs, t, co), t.status # "none", NEW t2, Shifted(t, t2)
  PROVE  CoOK(cs, t2, co)
<1>1. t2.base = Ci(t2).base <=> t.base = Ci(t).base
  <2>1. t.base \in Int /\ Ci(t).base \in Int BY BaseTypes
  <2>2. t2.base \in Int /\ Ci(t2).base \in Int BY BaseTypes DEF Shifted, Keeps
  <2> QED BY <2>1, <2>2 DEF Shifted
<1>2. t2.status = t.status /\ t2.body = t.body /\ Len(t2.ci) = Len(t.ci) BY DEF Shifted, Keeps, SameControl, SameCalls
<1> QED BY <1>1, <1>2 DEF CoOK
(* One that waits or runs, but not in its lua_resume.                       *)
LEMMA CoInside ==
  ASSUME NEW new, NEW co, ~ Off(new, co), ~ OnTop(new, co), NEW t, t.status # "none", t.body = NoBody
  PROVE  CoOK(new, t, co)
BY DEF CoOK
LEMMA CoBody ==
  ASSUME NEW cs, NEW co, NEW t, CoOK(cs, t, co), ~ Off(cs, co), OnTop(cs, co) => Last(cs).n = Done
  PROVE  t.body = NoBody
BY DEF CoOK

(* A thread on the C stack exists.                                          *)
LEMMA OnExists ==
  ASSUME NEW cs, StackOK(cs), NEW th, ~ Off(cs, th), NEW t, ThreadOK(cs, t, th)
  PROVE  t.status # "none" /\ t.status \notin Errors
<1>1. Len(cs) \in Nat BY DEF StackOK
<1>2. PICK i \in 1..Len(cs) : cs[i].L = th BY DEF Off
<1>3. PICK n \in 1..Len(cs) : IsTop(cs, n, th) BY <1>1, <1>2, ExistsTop
<1>4. ThreadAt(cs, n, t, th) BY <1>2, <1>3 DEF ThreadOK
<1>5. (cs[n].k = "resume" /\ AtResume(cs, n, t)) \/ Lands(cs, n, t, th) \/ Runs(cs, n, t, th) BY <1>4 DEF ThreadAt
<1>6. t.status \in {"ok", "yield"} BY <1>5 DEF AtResume, Lands, Runs
<1> QED BY <1>6
LEMMA OnState ==
  ASSUME IInv, cstack # <<>>, NEW th \in Threads, ~ Off(cstack, th)
  PROVE  lstate[th].status # "none" /\ lstate[th] # NoState
<1>1. StackOK(cstack) /\ ThreadOK(cstack, lstate[th], th) BY DEF IInv, Good
<1>2. lstate[th].status # "none" BY <1>1, OnExists
<1>3. NoState.status = "none" BY NewStateTypes DEF NoState, IsState, LuaState
<1> QED BY <1>2, <1>3

(***************************************************************************)
(* The coroutines of the manual, of the state t of each.                   *)
(***************************************************************************)
OffStatus(t) ==
  CASE t.status = "yield" -> "suspended"
    [] t.status = "ok" -> IF Len(t.ci) > 1 THEN "normal" ELSE IF t.top = t.base THEN "dead" ELSE "suspended"
    [] OTHER -> "dead"
View(t, runs) == IF t = NoState THEN "none" ELSE IF runs THEN "running" ELSE OffStatus(t)
Prog(t) ==
  IF t.status = "none" \/ t.body # NoBody THEN "new" ELSE IF Len(t.ci) > 1 THEN "inside" ELSE "over"
Pairs(cs) == {<<cs[i].from, cs[i].L>> : i \in {i \in DOMAIN cs : cs[i].k = "resume"}}

LEMMA StatusView ==
  ASSUME cstack # <<>>
  PROVE  status = [co \in Coroutines |-> View(lstate[co], co = L)]
<1>1. ASSUME NEW co \in Coroutines, co # L PROVE costatus(co) = OffStatus(lstate[co]) BY <1>1 DEF costatus, OffStatus
<1>2. ASSUME NEW co \in Coroutines, co = L PROVE costatus(co) = "running" BY <1>2 DEF costatus
<1> QED BY <1>1, <1>2 DEF status, View
LEMMA ProgressView == progress = [co \in Coroutines |-> Prog(lstate[co])]
BY DEF progress, Prog
LEMMA Views ==
  ASSUME cstack # <<>>
  PROVE  /\ status = [co \in Coroutines |-> View(lstate[co], co = L)] /\ progress = [co \in Coroutines |-> Prog(lstate[co])]
         /\ running = L /\ waits = Pairs(cstack) /\ ended = FALSE
BY StatusView, ProgressView DEF running, waits, Pairs, ended
LEMMA NextStatus ==
  ASSUME cstack' # <<>>
  PROVE  status' = [co \in Coroutines |-> View(lstate'[co], co = L')]
<1>1. ASSUME NEW co \in Coroutines, co # L' PROVE costatus(co)' = OffStatus(lstate'[co]) BY <1>1 DEF costatus, OffStatus
<1>2. ASSUME NEW co \in Coroutines, co = L' PROVE costatus(co)' = "running" BY <1>2 DEF costatus
<1> QED BY <1>1, <1>2 DEF status, View
LEMMA NextViews ==
  ASSUME cstack' # <<>>
  PROVE  /\ status' = [co \in Coroutines |-> View(lstate'[co], co = L')] /\ progress' = [co \in Coroutines |-> Prog(lstate'[co])]
         /\ running' = L' /\ waits' = Pairs(cstack') /\ ended' = FALSE /\ L' = Last(cstack').L
<1>1. progress' = [co \in Coroutines |-> Prog(lstate'[co])] BY DEF progress, Prog
<1> QED BY <1>1, NextStatus DEF running, waits, Pairs, ended, L, F

(* Of one coroutine, before and after a step.                               *)
LEMMA StatusOf ==
  ASSUME cstack # <<>>, NEW u \in Coroutines
  PROVE  /\ progress[u] = Prog(lstate[u])
         /\ (u = L => status[u] = View(lstate[u], TRUE)) /\ (u # L => status[u] = View(lstate[u], FALSE))
<1>1. progress[u] = Prog(lstate[u]) BY Views
<1>2. status[u] = View(lstate[u], u = L) BY Views
<1> QED BY <1>1, <1>2 DEF View
LEMMA NextStatusOf ==
  ASSUME cstack' # <<>>, NEW th, th = Last(cstack').L, NEW u \in Coroutines
  PROVE  /\ progress'[u] = Prog(lstate'[u])
         /\ (u = th => status'[u] = View(lstate'[u], TRUE)) /\ (u # th => status'[u] = View(lstate'[u], FALSE))
<1>1. progress'[u] = Prog(lstate'[u]) BY NextViews
<1>2. status'[u] = View(lstate'[u], u = L') BY NextViews
<1>3. th = L' BY NextViews
<1> QED BY <1>1, <1>2, <1>3 DEF View
LEMMA AreFunctions ==
  ASSUME cstack # <<>>, cstack' # <<>>
  PROVE  /\ status = [u \in Coroutines |-> status[u]] /\ status' = [u \in Coroutines |-> status'[u]]
         /\ progress = [u \in Coroutines |-> progress[u]] /\ progress' = [u \in Coroutines |-> progress'[u]]
BY Views, NextViews
LEMMA ProgressSame ==
  ASSUME cstack # <<>>, cstack' # <<>>, \A u \in Coroutines : Prog(lstate'[u]) = Prog(lstate[u])
  PROVE  progress' = progress
BY Views, NextViews
LEMMA StatusSame ==
  ASSUME cstack # <<>>, cstack' # <<>>, Last(cstack').L = L,
         \A u \in Coroutines : View(lstate'[u], u = L) = View(lstate[u], u = L)
  PROVE  status' = status
BY Views, NextViews

(* Every coroutine stays what it is.                                        *)
Simulated == AbstractCoroutines!Next \/ UNCHANGED AbstractCoroutines!vars
LEMMA Stutters ==
  ASSUME cstack # <<>>, cstack' # <<>>, Last(cstack').L = L, Pairs(cstack') = Pairs(cstack),
         \A co \in Coroutines : View(lstate'[co], co = L) = View(lstate[co], co = L) /\ Prog(lstate'[co]) = Prog(lstate[co])
  PROVE  UNCHANGED AbstractCoroutines!vars
<1>1. status' = status /\ progress' = progress BY Views, NextViews
<1>2. running' = running /\ waits' = waits /\ ended' = ended BY Views, NextViews
<1> QED BY <1>1, <1>2 DEF AbstractCoroutines!vars

(***************************************************************************)
(* A step of the thread that runs: who waits for whom stays the same.      *)
(***************************************************************************)
LEMMA PairsFrom ==
  ASSUME NEW cs, StackOK(cs), NEW new, StackOK(new), cs # <<>>, new # <<>>, NEW th, Last(cs).L = th, Last(new).L = th,
         NEW m \in Nat, m <= Len(cs), m <= Len(new), Above(cs, m, {th}), Above(new, m, {th}),
         \A i \in 1..m : new[i].L = cs[i].L /\ new[i].k = cs[i].k /\ (cs[i].k = "resume" => new[i] = cs[i])
  PROVE  Pairs(cs) \subseteq Pairs(new)
<1>1. cs \in Seq(Frames) /\ new \in Seq(Frames) /\ Len(cs) \in Nat \ {0} /\ Len(new) \in Nat \ {0} BY DEF StackOK
<1>2. SUFFICES ASSUME NEW i \in 1..Len(cs), cs[i].k = "resume"
               PROVE  \E j \in 1..Len(new) : new[j].k = "resume" /\ new[j].from = cs[i].from /\ new[j].L = cs[i].L
  BY <1>1 DEF Pairs
<1>3. CASE i <= m BY <1>1, <1>2, <1>3
<1>4. CASE i > m
  <2>1. cs[i].L = th BY <1>1, <1>2, <1>4 DEF Above
  <2>2. FrameAt(cs, i) /\ ResumeAt(cs, i) /\ i > 1
    <3>1. FrameAt(cs, i) BY <1>2 DEF StackOK
    <3>2. i # 1 BY <1>2, <3>1 DEF FrameAt
    <3> QED BY <1>1, <1>2, <3>1, <3>2 DEF FrameAt
  <2>3. \A j \in 1..(i - 1) : cs[j].L # th BY <2>1, <2>2 DEF ResumeAt
  <2>4. i = m + 1
    <3>1. SUFFICES ASSUME m + 1 < i PROVE FALSE BY <1>1, <1>4
    <3>2. cs[m + 1].L = th /\ m + 1 \in 1..(i - 1) BY <1>1, <3>1 DEF Above
    <3> QED BY <2>3, <3>2
  <2>5. m >= 1 /\ cs[m].L # th /\ new[m].L = cs[m].L /\ cs[i].from = cs[m].L
    <3>1. m \in 1..(i - 1) /\ m \in 1..m /\ i - 1 = m BY <1>1, <2>2, <2>4
    <3> QED BY <2>2, <2>3, <3>1 DEF ResumeAt
  <2>6. Len(new) > m
    <3>1. SUFFICES ASSUME Len(new) = m PROVE FALSE BY <1>1
    <3>2. Last(new) = new[m] BY <3>1 DEF Last
    <3> QED BY <2>5, <3>2
  <2>7. FrameAt(new, m + 1) /\ m + 1 \in 1..Len(new) /\ m + 1 > 1
    <3>1. m + 1 \in 1..Len(new) /\ m + 1 > 1 BY <1>1, <2>5, <2>6
    <3> QED BY <3>1 DEF StackOK
  <2>8. new[m + 1].L = th
    <3>1. m + 1 \in (m + 1)..Len(new) BY <1>1, <2>6
    <3> QED BY <3>1 DEF Above
  <2>9. new[m + 1].k = "resume" /\ ResumeAt(new, m + 1) BY <2>5, <2>7, <2>8 DEF FrameAt
  <2>10. new[m + 1].from = cs[m].L BY <1>1, <2>5, <2>9 DEF ResumeAt
  <2> QED BY <1>2, <2>1, <2>5, <2>7, <2>8, <2>9, <2>10
<1> QED BY <1>1, <1>3, <1>4
LEMMA PairsKept ==
  ASSUME NEW cs, StackOK(cs), NEW new, StackOK(new), cs # <<>>, new # <<>>, NEW th, Last(cs).L = th, Last(new).L = th,
         Step(cs, new, {th})
  PROVE  Pairs(new) = Pairs(cs)
<1>1. PICK m \in Nat : SameUpTo(cs, new, m) /\ Above(cs, m, {th}) /\ Above(new, m, {th}) BY DEF Step
<1>2. m <= Len(cs) /\ m <= Len(new) BY <1>1 DEF SameUpTo
<1>3. ASSUME NEW i \in 1..m PROVE new[i].L = cs[i].L /\ new[i].k = cs[i].k /\ (cs[i].k = "resume" => new[i] = cs[i])
  <2>1. Like(cs[i], new[i]) BY <1>1 DEF SameUpTo
  <2> QED BY <2>1, LikeFacts
<1>4. Pairs(cs) \subseteq Pairs(new) BY <1>1, <1>2, <1>3, PairsFrom
<1>5. \A i \in 1..m : cs[i].L = new[i].L /\ cs[i].k = new[i].k /\ (new[i].k = "resume" => cs[i] = new[i])
  BY <1>3
<1>6. Pairs(new) \subseteq Pairs(cs) BY <1>1, <1>2, <1>5, PairsFrom
<1> QED BY <1>4, <1>6
LEMMA OffKept ==
  ASSUME NEW cs, NEW new, NEW X, Step(cs, new, X), NEW th, th \notin X, Off(cs, th)
  PROVE  Off(new, th)
<1>1. PICK m \in Nat : SameUpTo(cs, new, m) /\ Above(new, m, X) BY DEF Step
<1>2. ASSUME NEW i \in 1..Len(new), i <= m PROVE new[i].L # th
  <2>1. Like(cs[i], new[i]) /\ i \in 1..Len(cs) BY <1>1, <1>2 DEF SameUpTo
  <2> QED BY <2>1, LikeFacts DEF Off
<1>3. ASSUME NEW i \in 1..Len(new), i > m PROVE new[i].L # th BY <1>1, <1>3 DEF Above
<1>4. \A i \in 1..Len(new) : i <= m \/ i > m BY <1>1 DEF SameUpTo
<1> QED BY <1>2, <1>3, <1>4 DEF Off

(***************************************************************************)
(* How far a body gets in such a step.                                     *)
(***************************************************************************)
(* A C function or hook, or luaV_execute, is a function in progress.        *)
LEMMA InProgress ==
  ASSUME IInv, InLua \/ InC, L \in Coroutines
  PROVE  Len(l.ci) > 1
<1>1. cstack # <<>> BY DEF InLua, InC
<1>2. /\ StackOK(cstack) /\ Len(cstack) \in Nat \ {0} /\ F = cstack[Len(cstack)] /\ L = F.L /\ IsState(l) /\ F = Last(cstack)
      /\ L # MainThread
  BY <1>1, IInvFacts, LimitsAssumption
<1>3. Ready(cstack, L, l) BY <1>1, RunningReady DEF InLua, InC
<1>4. CASE InLua
  <2>1. CallsIn(Last(cstack)) \in Nat /\ Len(l.ci) - CallsIn(Last(cstack)) >= 1 /\ Len(l.ci) \in Nat BY <1>3, TopKinds
  <2>2. F \in Frames /\ F.k = "execute" BY <1>1, <1>4, IInvFacts DEF InLua
  <2>3. CallsIn(F) = F.nexeccalls /\ F.nexeccalls \in Nat \ {0} BY <2>2, FrameTypes DEF CallsIn
  <2> QED BY <1>2, <2>1, <2>3
<1>5. CASE InC
  <2>1. CallsBelow(cstack, L, Len(cstack)) >= 1 /\ CallsBelow(cstack, L, Len(cstack)) \in Nat
    <3>1. PICK n \in 1..Len(cstack) : n = Len(cstack) BY <1>2
    <3>2. cstack[n].k \in CCode /\ cstack[n].L = L BY <1>2, <1>5, <3>1 DEF InC, CCode
    <3> HIDE DEF L
    <3> QED BY <1>2, <3>1, <3>2, InsideCalls
  <2>2. PICK b \in 1..Len(l.ci) : Len(l.ci) = b + CallsBelow(cstack, L, Len(cstack)) BY <1>3 DEF Ready, Runs
  <2> QED BY <2>1, <2>2
<1> QED BY <1>4, <1>5
(* So is one that has called luaD_pcall, and an error handler has one.      *)
LEMMA PcallInProgress ==
  ASSUME IInv, cstack # <<>>, L \in Coroutines, NEW p \in 1..Len(cstack), IsPcall(cstack[p], L), F.k # "resume"
  PROVE  Len(l.ci) > 1
<1>1. /\ StackOK(cstack) /\ cstack \in Seq(Frames) /\ Len(cstack) \in Nat \ {0} /\ F = cstack[Len(cstack)] /\ L = F.L /\ IsState(l)
      /\ L # MainThread /\ ThreadAt(cstack, Len(cstack), l, L)
  BY IInvFacts, LimitsAssumption
<1>2. FrameAt(cstack, p) /\ cstack[p].k = "pcall" /\ cstack[p].L = L BY <1>1 DEF StackOK, IsPcall
<1>3. p > 1 /\ cstack[p - 1].k \in CCode /\ cstack[p - 1].L = L
  <2>1. p # 1 BY <1>2 DEF FrameAt
  <2> QED BY <1>1, <1>2, <2>1 DEF FrameAt, StandsOn
<1>4. CallsBelow(cstack, L, p - 1) >= 1 /\ CallsBelow(cstack, L, p - 1) \in Nat
  <2>1. p - 1 \in 1..Len(cstack) BY <1>1, <1>3
  <2> QED BY <1>1, <1>3, <2>1, InsideCalls
<1>5. CallsBelow(cstack, L, Len(cstack)) >= 1 /\ CallsBelow(cstack, L, Len(cstack)) \in Nat
  <2>1. p - 1 \in 0..Len(cstack) /\ Len(cstack) \in 0..Len(cstack) BY <1>1, <1>3
  <2>2. CallsBelow(cstack, L, Len(cstack)) \in Nat BY <1>1, <2>1, CallsBelowType
  <2>3. CallsBelow(cstack, L, p - 1) <= CallsBelow(cstack, L, Len(cstack)) BY <1>1, <2>1, CallsBelowGrows
  <2> QED BY <1>4, <2>2, <2>3
<1>6. Lands(cstack, Len(cstack), l, L) \/ Runs(cstack, Len(cstack), l, L) BY <1>1 DEF ThreadAt
<1>7. PICK b \in 1..Len(l.ci) : Len(l.ci) >= b + CallsBelow(cstack, L, Len(cstack))
  <2>1. CASE Runs(cstack, Len(cstack), l, L) BY <1>1, <2>1, <1>5, FieldTypes DEF Runs
  <2>2. CASE Lands(cstack, Len(cstack), l, L) BY <2>2 DEF Lands
  <2> QED BY <1>6, <2>1, <2>2
<1> QED BY <1>1, <1>5, <1>7, FieldTypes

LEMMA BecomeThread ==
  ASSUME IInv, NEW th \in Threads, NEW t, NEW cs, Become(th, t, cs)
  PROVE  lstate'[th] = t /\ cstack' = cs
BY DEF Become, IInv
LEMMA ThrowLeaves ==
  ASSUME IInv, NEW th \in Threads, NEW t, IsState(t), NEW cs, NEW e, luaD_throw(th, t, cs, e), cstack' # <<>>
  PROVE  lstate'[th] = t
BY BecomeThread DEF luaD_throw
LEMMA EndCallKeepsCi ==
  ASSUME IInv, EndCall
  PROVE  Len(lstate'[L].ci) = Len(l.ci)
<1>1. cstack # <<>> /\ F.k = "call" BY DEF EndCall
<1>2. F = Last(cstack) /\ F \in Frames /\ IsState(l) /\ L \in Threads BY <1>1, IInvFacts
<1>3. F.nresults \in Int BY <1>1, <1>2, FrameTypes
<1>4. PICK t0 : t0 = [l EXCEPT !.nCcalls = l.nCcalls - 1] BY Zenon
<1>5. PICK t \in Collected(t0) :
        CASE Last(Callers).k \in {"host", "cfunc", "hook"} -> Become(L, adjustresults(t, F.nresults), Callers)
          [] Last(Callers).k = "execute" ->
               Become(L, [t EXCEPT !.top = t.top - F.nresults], Reloaded(Callers, [t EXCEPT !.top = t.top - F.nresults]))
          [] OTHER -> Become(L, t, Callers)
  BY Zenon, <1>4 DEF EndCall
<1>6. l.nCcalls - 1 \in Nat
  <2>1. Ready(cstack, L, l) BY <1>1, RunningReady
  <2>2. PICK n \in Nat \ {0} : n = Len(cstack) BY <1>1, IInvFacts
  <2>3. l.nCcalls = DepthAt(cstack, n) /\ cstack[n] = F BY <1>2, <2>1, <2>2, ReadyFacts
  <2>4. DepthAt(cstack, n) = DepthAt(cstack, n - 1) + 1 BY <1>1, <2>3, DepthNext
  <2>5. n - 1 \in Nat /\ DepthAt(cstack, n - 1) \in Nat BY DepthType
  <2> QED BY <2>3, <2>4, <2>5
<1>7. IsState(t0) /\ t0.ci = l.ci
  <2>1. PICK x \in Nat : x = l.nCcalls - 1 BY <1>6
  <2>2. t0 = [l EXCEPT !.nCcalls = x] BY <1>4, <2>1
  <2> QED BY <1>2, <2>1, <2>2, AddCcall
<1>8. Keeps(t0, t) /\ IsState(t) BY <1>7, CollectedKeeps DEF Keeps
<1>9. \A u : Keeps(t, u) => Len(u.ci) = Len(l.ci) BY <1>7, <1>8, KeepsTrans DEF Keeps, SameControl, SameCalls
<1>10. t.top - F.nresults \in Int
  <2>1. t.top \in Int BY <1>8, FieldTypes
  <2> QED BY <1>3, <2>1
<1>11. lstate'[L] \in {adjustresults(t, F.nresults), [t EXCEPT !.top = t.top - F.nresults], t}
  BY <1>2, <1>5, BecomeThread
<1>12. Keeps(t, adjustresults(t, F.nresults)) /\ Keeps(t, [t EXCEPT !.top = t.top - F.nresults]) /\ Keeps(t, t)
  BY <1>8, <1>10, AdjustresultsKeeps, SetTop, KeepsSelf
<1> QED BY <1>9, <1>11, <1>12

LEMMA ResumeFacts ==
  ASSUME IInv, resume
  PROVE  /\ cstack # <<>> /\ F.k = "resume" /\ F.n # Done /\ F.n \in Int /\ IsState(l) /\ L \in Threads
         /\ l.status \in {"ok", "yield"} /\ Suspended(l) /\ l.body \in Bodies
<1>1. cstack # <<>> /\ F.k = "resume" /\ F.n # Done BY DEF resume
<1>2. PICK cs : cs = Append(Callers, [F EXCEPT !.n = Done]) BY Zenon
<1>3. L \in Threads /\ IsState(l) /\ l.status \in {"ok", "yield"} /\ Suspended(l) BY Zenon, <1>1, <1>2, Resumed
<1>4. F \in Frames BY <1>1, IInvFacts
<1> QED BY <1>1, <1>3, <1>4, FrameTypes, FieldTypes
(* A coroutine that is resumed when no function is in progress loses its     *)
(* body; only a Lua function is entered.                                    *)
LEMMA BodyTaken ==
  ASSUME IInv, resume, l.status = "ok", cstack' # <<>>
  PROVE  lstate'[L].body = NoBody /\ (l.body \notin LuaFunctions => Len(lstate'[L].ci) = 1)
<1>1. F.n \in Int /\ IsState(l) /\ L \in Threads /\ Len(l.ci) = 1 /\ l.body \in Bodies BY ResumeFacts DEF Suspended
<1>2. PICK t : t = [l EXCEPT !.body = NoBody] BY Zenon
<1>3. IsState(t) /\ Len(t.ci) = 1 /\ t.body = NoBody
  <2>1. PICK b \in Bodies : b = NoBody BY Zenon DEF Bodies
  <2>2. t = [l EXCEPT !.body = b] BY <1>2, <2>1
  <2> QED BY <1>1, <2>1, <2>2, SetBody
<1>4. PICK func : func = savestack(l, l.top - F.n - 1) OBVIOUS
<1>5. func \in Int
  <2>1. l.top - F.n - 1 \in Int BY <1>1, FieldTypes
  <2> QED BY <1>1, <1>4, <2>1, OffsetType
<1>6. PICK r : r = luaD_precall(t, func, l.body, LUA_MULTRET) OBVIOUS
<1>7. Precalled(t, r, {"lua"})
  <2>1. l.body \in Callees /\ LUA_MULTRET \in Int BY <1>1 DEF Callees
  <2> QED BY Zenon, <1>1, <1>3, <1>5, <1>6, <2>1, PrecallFacts
<1>8. PICK cs : cs = Append(Callers, [F EXCEPT !.n = Done]) BY Zenon
<1>9. EnterNew(L, r, cs) BY Zenon, <1>2, <1>4, <1>6, <1>8 DEF resume
<1>10. \A u : Keeps(t, u) => u.body = NoBody /\ Len(u.ci) = 1 BY <1>3 DEF Keeps, SameControl, SameCalls
<1>11. l.body \notin LuaFunctions => r.result = "runerror"
  <2>1. l.body \notin LuaFunctions => l.body.kind \in {"other", "called"} BY <1>1 DEF Bodies
  <2> QED BY <1>6, <2>1 DEF luaD_precall
<1>12. CASE r.result = "entered"
  <2>1. \E cs1 : WithCallHook(L, r.t, cs1) BY <1>9, <1>12 DEF EnterNew, Enter
  <2>2. IsState(r.t) /\ r.t.body = NoBody
    <3>1. \E k : Entered(t, r.t, k) BY <1>7, <1>12 DEF Precalled
    <3> QED BY <1>3, <3>1 DEF Entered, SameFields
  <2>3. lstate'[L] \in {r.t, luaD_callhook(r.t)} BY <1>1, <2>1, BecomeThread DEF WithCallHook
  <2>4. luaD_callhook(r.t).body = NoBody BY <2>2, CallhookFacts DEF SameFields
  <2>5. lstate'[L].body = NoBody
    <3>1. CASE lstate'[L] = r.t BY <2>2, <3>1
    <3>2. CASE lstate'[L] = luaD_callhook(r.t) BY <2>4, <3>2
    <3> QED BY <2>3, <3>1, <3>2
  <2> QED BY <1>11, <1>12, <2>5
<1>13. CASE r.result = "runerror"
  <2>1. Keeps(t, r.t) BY <1>7, <1>13 DEF Precalled
  <2>2. PICK u : u = IF f_isLua(Ci(r.t)) THEN incr_top(incr_top(r.t)) ELSE incr_top(r.t) OBVIOUS
  <2>3. luaG_runerror(L, r.t, cs) BY <1>9, <1>13 DEF EnterNew, Enter
  <2>4. \E cs1 : Become(L, u, cs1) BY <2>2, <2>3 DEF luaG_runerror
  <2>5. lstate'[L] = u BY <1>1, <2>4, BecomeThread
  <2>6. Keeps(t, incr_top(r.t)) BY <2>1, IncrTopKeeps, KeepsTrans DEF Keeps
  <2>7. Keeps(t, incr_top(incr_top(r.t))) BY <2>6, IncrTopKeeps, KeepsTrans DEF Keeps
  <2>8. Keeps(t, u) BY <2>2, <2>6, <2>7
  <2> QED BY <1>10, <2>5, <2>8
<1>14. CASE r.result = "errerr"
  <2>1. Keeps(t, r.t) BY <1>7, <1>14 DEF Precalled
  <2>2. luaD_throw(L, r.t, cs, "errerr") BY <1>9, <1>14 DEF EnterNew, Enter
  <2>3. lstate'[L] = r.t BY <1>1, <2>1, <2>2, ThrowLeaves DEF Keeps
  <2> QED BY <1>10, <2>1, <2>3
<1> QED BY <1>7, <1>12, <1>13, <1>14 DEF Precalled, Results

LEMMA OverStays ==
  ASSUME IInv, cstack # <<>>, OwnStep, cstack' # <<>>, L \in Coroutines, l.body = NoBody, Len(l.ci) = 1
  PROVE  Len(lstate'[L].ci) = 1
<1>1. IsState(l) /\ L \in Threads /\ F = cstack[Len(cstack)] /\ F.L = L /\ Len(cstack) \in Nat \ {0}
      /\ ThreadAt(cstack, Len(cstack), l, L)
  BY IInvFacts
<1>2. CASE InLua \/ InC BY <1>2, InProgress
<1>3. CASE EndCall BY <1>3, EndCallKeepsCi
<1>4. CASE EndPcall
  <2>1. F.k = "pcall" BY <1>4 DEF EndPcall
  <2>2. Len(cstack) \in 1..Len(cstack) /\ IsPcall(cstack[Len(cstack)], L) /\ F.k # "resume" BY <1>1, <2>1 DEF IsPcall
  <2> QED BY <2>2, PcallInProgress
<1>5. CASE luaG_errormsg
  <2>1. F.k = "errormsg" BY <1>5 DEF luaG_errormsg
  <2>2. l.errfunc.at = 0
    <3>1. SUFFICES ASSUME l.errfunc.at # 0 PROVE FALSE OBVIOUS
    <3>2. HandlerIn(cstack, Len(cstack), L, l.errfunc) BY <1>1 DEF ThreadAt, Protection
    <3>3. PICK p \in 1..Len(cstack) : IsPcall(cstack[p], L) BY <3>1, <3>2 DEF HandlerIn
    <3>4. F.k # "resume" BY <2>1
    <3> QED BY <3>3, <3>4, PcallInProgress
  <2>3. luaD_throw(L, l, Callers, "errrun") BY <1>5, <2>2 DEF luaG_errormsg
  <2>4. lstate'[L] = l BY <1>1, <2>3, ThrowLeaves
  <2> QED BY <2>4
<1>6. CASE resume
  <2>1. l.status # "yield" BY <1>6, ResumeFacts DEF Suspended, Yielded
  <2>2. l.status = "ok" BY <1>6, <2>1, ResumeFacts
  <2>3. l.body \notin LuaFunctions BY FunctionsAssumption
  <2> QED BY <1>6, <2>2, <2>3, BodyTaken
<1> QED BY <1>2, <1>3, <1>4, <1>5, <1>6 DEF OwnStep
LEMMA BodyStarts ==
  ASSUME IInv, CoInv, cstack # <<>>, OwnStep, cstack' # <<>>, L \in Coroutines, l.body # NoBody
  PROVE  lstate'[L].body = NoBody
<1>1. StackOK(cstack) /\ F = Last(cstack) /\ F = cstack[Len(cstack)] /\ F.L = L /\ Len(cstack) \in Nat \ {0} BY IInvFacts
<1>2. CoOK(cstack, l, L) BY DEF CoInv, l
<1>3. ~ Off(cstack, L) BY <1>1 DEF Off
<1>4. l.status = "ok" /\ F.k = "resume" /\ F.n # Done BY <1>1, <1>2, <1>3 DEF CoOK, OnTop
<1>5. resume BY <1>4 DEF OwnStep, InLua, InC, EndCall, EndPcall, luaG_errormsg
<1> QED BY <1>4, <1>5, BodyTaken

(***************************************************************************)
(* A step of the thread that runs.                                         *)
(***************************************************************************)
Proceeds(th) == cstack # <<>> /\ cstack' # <<>> /\ OwnStep /\ Goes /\ th = L
LEMMA OwnFacts ==
  ASSUME IInv, NEW th, Proceeds(th)
  PROVE  /\ StackOK(cstack) /\ StackOK(cstack') /\ Last(cstack).L = th /\ Last(cstack').L = th /\ th \in Threads
         /\ Step(cstack, cstack', {th}) /\ AtBase(cstack', lstate'[th]) /\ ~ Off(cstack, th) /\ ~ Off(cstack', th)
         /\ \A u \in Threads : u # th => lstate'[u] = lstate[u]
         /\ lstate[th].status # "none" /\ lstate[th] # NoState /\ lstate'[th].status # "none" /\ lstate'[th] # NoState
         /\ IInv' /\ lstate'[th].body \in {lstate[th].body, NoBody}
<1>1. IInv' /\ Advance(th) BY DEF Goes, Proceeds
<1>2. cstack # <<>> /\ cstack' # <<>> /\ th = L BY DEF Proceeds
<1>3. StackOK(cstack) /\ F = Last(cstack) /\ L = F.L /\ L \in Threads /\ Len(cstack) \in Nat \ {0} BY <1>2, IInvFacts
<1>4. StackOK(cstack') /\ Len(cstack') \in Nat \ {0} BY <1>1, <1>2 DEF IInv, Good, StackOK
<1>5. Last(cstack').L = th /\ Step(cstack, cstack', {th}) /\ AtBase(cstack', lstate'[th])
      /\ (\A u \in Threads : u # th => lstate'[u] = lstate[u]) /\ lstate'[th].body \in {lstate[th].body, NoBody}
  BY <1>1, <1>2 DEF Advance
<1>6. ~ Off(cstack, th) /\ ~ Off(cstack', th)
  <2>1. Last(cstack) = cstack[Len(cstack)] /\ Last(cstack') = cstack'[Len(cstack')] BY DEF Last
  <2> QED BY <1>2, <1>3, <1>4, <1>5, <2>1 DEF Off
<1>7. lstate[th].status # "none" BY <1>2, <1>3, <1>6, OnState
<1>8. lstate'[th].status # "none"
  <2>1. ThreadOK(cstack', lstate'[th], th) BY <1>1, <1>2, <1>3 DEF IInv, Good
  <2> QED BY <1>4, <1>6, <2>1, OnExists
<1>9. NoState.status = "none" BY NewStateTypes DEF NoState, IsState, LuaState
<1> QED BY <1>1, <1>2, <1>3, <1>4, <1>5, <1>6, <1>7, <1>8, <1>9

LEMMA NoneOrMore == ASSUME NEW k \in Nat \ {0} PROVE (k = 1 \/ k > 1) /\ ~ (k = 1 /\ k > 1)
OBVIOUS
LEMMA OwnCoInv == ASSUME IInv, CoInv, NEW th, Proceeds(th) PROVE CoInv'
<1>1. /\ StackOK(cstack) /\ Last(cstack).L = th /\ Last(cstack').L = th /\ th \in Threads
      /\ Step(cstack, cstack', {th}) /\ AtBase(cstack', lstate'[th]) /\ ~ Off(cstack, th) /\ ~ Off(cstack', th)
      /\ \A u \in Threads : u # th => lstate'[u] = lstate[u]
      /\ lstate'[th].status # "none" /\ lstate'[th].body \in {lstate[th].body, NoBody}
  BY OwnFacts
<1>2. cstack # <<>> /\ cstack' # <<>> /\ OwnStep /\ th = L BY DEF Proceeds
<1>3. SUFFICES ASSUME NEW co \in Coroutines PROVE CoOK(cstack', lstate'[co], co) BY DEF CoInv
<1>4. CoOK(cstack, lstate[co], co) /\ co \in Threads BY <1>2 DEF CoInv, Threads
<1>5. CASE co = th
  <2>1. lstate'[th].body = NoBody
    <3>1. CASE l.body # NoBody BY <1>2, <1>5, <3>1, BodyStarts
    <3>2. CASE l.body = NoBody BY <1>1, <1>2, <3>2 DEF l
    <3> QED BY <3>1, <3>2
  <2> QED BY <1>1, <1>5, <2>1 DEF CoOK, OnTop, AtBase
<1>6. CASE co # th
  <2>1. lstate'[co] = lstate[co] BY <1>1, <1>4, <1>6
  <2>2. CASE Off(cstack, co)
    <3>1. Off(cstack', co) BY <1>1, <1>6, <2>2, OffKept
    <3> QED BY <1>4, <2>1, <2>2, <3>1, CoOutside
  <2>3. CASE ~ Off(cstack, co)
    <3>1. lstate[co].body = NoBody BY <1>1, <1>4, <1>6, <2>3, CoBody DEF OnTop
    <3>2. lstate[co].status # "none" BY <1>2, <1>4, <2>3, OnState
    <3>3. Len(lstate[co].ci) # 1
      <4>1. PICK i \in 1..Len(cstack) : cstack[i].L = co BY <2>3 DEF Off
      <4>2. Len(lstate[co].ci) > 1 BY <1>2, <1>6, <4>1, Waiting
      <4>3. IsState(lstate[co]) BY <1>4 DEF IInv, Good
      <4>4. Len(lstate[co].ci) \in Nat \ {0} BY <4>3, FieldTypes
      <4> QED BY Zenon, <4>2, <4>4, NoneOrMore
    <3> QED BY <2>1, <3>1, <3>2, <3>3 DEF CoOK
  <2> QED BY <2>2, <2>3
<1> QED BY <1>5, <1>6

LEMMA OwnSimulated == ASSUME IInv, CoInv, NEW th, Proceeds(th) PROVE Simulated
<1>1. /\ StackOK(cstack) /\ StackOK(cstack') /\ Last(cstack).L = th /\ Last(cstack').L = th /\ th \in Threads
      /\ Step(cstack, cstack', {th}) /\ \A u \in Threads : u # th => lstate'[u] = lstate[u]
      /\ lstate[th].status # "none" /\ lstate[th] # NoState /\ lstate'[th].status # "none" /\ lstate'[th] # NoState
      /\ lstate'[th].body \in {lstate[th].body, NoBody}
  BY OwnFacts
<1>2. cstack # <<>> /\ cstack' # <<>> /\ OwnStep /\ th = L BY DEF Proceeds
<1>3. Pairs(cstack') = Pairs(cstack) BY <1>1, <1>2, PairsKept
<1>4. ASSUME NEW co \in Coroutines, co # th PROVE lstate'[co] = lstate[co] BY <1>1, <1>4 DEF Threads
<1>5. \A co \in Coroutines : View(lstate'[co], co = L) = View(lstate[co], co = L) BY <1>1, <1>2, <1>4 DEF View
<1>6. CASE L \in Coroutines => Prog(lstate'[L]) = Prog(lstate[L])
  <2>1. UNCHANGED AbstractCoroutines!vars BY <1>1, <1>2, <1>3, <1>4, <1>5, <1>6, Stutters
  <2> QED BY <2>1 DEF Simulated
<1>7. CASE L \in Coroutines /\ Prog(lstate'[L]) # Prog(lstate[L])
  <2>1. status' = status /\ running' = running /\ waits' = waits /\ ended' = ended BY <1>1, <1>2, <1>3, <1>5, Views, NextViews
  <2>2. running = L /\ ~ ended /\ progress[L] = Prog(lstate[L]) BY <1>2, <1>7, Views
  <2>3. progress' = [progress EXCEPT ![L] = Prog(lstate'[L])] BY <1>1, <1>2, <1>4, <1>7, Views, NextViews
  <2>4. \/ Prog(lstate[L]) = "new" /\ Prog(lstate'[L]) \in {"inside", "over"}
        \/ Prog(lstate[L]) = "inside" /\ Prog(lstate'[L]) = "over"
    <3>1. CASE l.body # NoBody
      <4>1. lstate'[L].body = NoBody BY <1>2, <1>7, <3>1, BodyStarts
      <4> QED BY <1>1, <1>2, <3>1, <4>1 DEF Prog, l
    <3>2. CASE l.body = NoBody
      <4>1. lstate'[L].body = NoBody BY <1>1, <1>2, <3>2 DEF l
      <4>2. Len(l.ci) \in Nat \ {0} /\ Len(lstate'[L].ci) \in Nat \ {0}
        <5>1. IsState(l) BY <1>2, IInvFacts
        <5>2. IsState(lstate'[L]) BY <1>1, <1>2, OwnFacts DEF IInv, Good
        <5> QED BY <5>1, <5>2, FieldTypes
      <4>3. Len(l.ci) = 1 => Len(lstate'[L].ci) = 1 BY <1>2, <1>7, <3>2, OverStays
      <4>4. Prog(l) = (IF Len(l.ci) > 1 THEN "inside" ELSE "over") BY <1>1, <1>2, <3>2 DEF Prog, l
      <4>5. Prog(lstate'[L]) = (IF Len(lstate'[L].ci) > 1 THEN "inside" ELSE "over") BY <1>1, <1>2, <4>1 DEF Prog
      <4>6. Prog(lstate'[L]) # Prog(l) BY <1>7 DEF l
      <4>7. CASE Len(l.ci) = 1
        <5>1. Prog(l) = "over" /\ Prog(lstate'[L]) = "over" BY Zenon, <4>2, <4>3, <4>4, <4>5, <4>7, NoneOrMore
        <5> QED BY <4>6, <5>1
      <4>8. CASE Len(l.ci) > 1
        <5>1. Prog(l) = "inside" /\ Prog(lstate'[L]) \in {"inside", "over"} BY <4>4, <4>5, <4>8
        <5> QED BY <4>6, <5>1 DEF l
      <4>9. Len(l.ci) = 1 \/ Len(l.ci) > 1 BY Zenon, <4>2, NoneOrMore
      <4> QED BY <4>7, <4>8, <4>9
    <3> QED BY <3>1, <3>2
  <2>5. AbstractCoroutines!Call \/ AbstractCoroutines!NotCalled \/ AbstractCoroutines!Return
    BY <1>7, <2>1, <2>2, <2>3, <2>4
    DEF AbstractCoroutines!Call, AbstractCoroutines!NotCalled, AbstractCoroutines!Return, AbstractCoroutines!Body, AbstractCoroutines!Set
  <2> QED BY <2>5 DEF Simulated, AbstractCoroutines!Next
<1> QED BY <1>6, <1>7

(* An error that nobody catches.                                            *)
LEMMA PanicSimulated ==
  ASSUME IInv, cstack # <<>>, cstack' = <<>>, Goes
  PROVE  CoInv' /\ Simulated
<1>1. L = MainThread /\ \A u \in Threads : u # L => lstate'[u] = lstate[u] BY DEF Goes, Advance
<1>2. running = MainThread /\ ~ ended /\ running' = MainThread /\ ended' BY <1>1 DEF running, ended
<1>3. status' = [co \in Coroutines |-> "dead"] BY DEF status
<1>4. waits' = {} BY DEF waits
<1>5. progress' = progress
  <2>1. \A co \in Coroutines : lstate'[co] = lstate[co] BY <1>1, LimitsAssumption DEF Threads
  <2>2. progress' = [co \in Coroutines |-> Prog(lstate'[co])] BY DEF progress, Prog
  <2> QED BY <2>1, <2>2, ProgressView
<1>6. AbstractCoroutines!Panic BY <1>2, <1>3, <1>4, <1>5 DEF AbstractCoroutines!Panic, ended
<1> QED BY <1>6 DEF CoInv, Simulated, AbstractCoroutines!Next
LEMMA GoesSimulated == ASSUME IInv, CoInv, Goes, OwnStep PROVE CoInv' /\ Simulated
<1>1. cstack # <<>> BY DEF OwnStep, InLua, InC, EndCall, EndPcall, luaG_errormsg, resume
<1>2. CASE cstack' = <<>> BY <1>1, <1>2, PanicSimulated
<1>3. CASE cstack' # <<>>
  <2>1. Proceeds(L) BY <1>1, <1>3 DEF Proceeds
  <2> QED BY <2>1, OwnCoInv, OwnSimulated
<1> QED BY <1>2, <1>3

(***************************************************************************)
(* Coroutines that are only looked at, or whose stacks are moved.          *)
(***************************************************************************)
LEMMA NoStateStatus == NoState.status = "none"
BY NewStateTypes DEF NoState, IsState, LuaState
LEMMA ShiftedViews ==
  ASSUME NEW t, IsState(t), NEW t2, Shifted(t, t2), t.status # "none", NEW runs
  PROVE  View(t2, runs) = View(t, runs) /\ Prog(t2) = Prog(t)
<1>1. t2.status = t.status /\ t2.body = t.body /\ Len(t2.ci) = Len(t.ci) BY DEF Shifted, Keeps, SameControl, SameCalls
<1>2. t2.top = t2.base <=> t.top = t.base
  <2>1. t.top \in Int /\ t.base \in Int /\ t2.top \in Int /\ t2.base \in Int BY BaseTypes DEF Shifted, Keeps
  <2> QED BY <2>1 DEF Shifted
<1>3. OffStatus(t2) = OffStatus(t) BY <1>1, <1>2 DEF OffStatus
<1>4. t # NoState /\ t2 # NoState BY <1>1, NoStateStatus
<1> QED BY <1>1, <1>3, <1>4 DEF View, Prog
(* The thread that runs, in a function.                                     *)
LEMMA RunningViews ==
  ASSUME IInv, CoInv, cstack # <<>>, F.k # "resume", L \in Coroutines
  PROVE  ~ Off(cstack, L) /\ ~ OnTop(cstack, L) /\ l.body = NoBody /\ l.status # "none" /\ l # NoState
<1>1. F = Last(cstack) /\ F = cstack[Len(cstack)] /\ F.L = L /\ Len(cstack) \in Nat \ {0} /\ L \in Threads BY IInvFacts
<1>2. ~ Off(cstack, L) /\ ~ OnTop(cstack, L) BY <1>1 DEF Off, OnTop
<1>3. CoOK(cstack, l, L) BY DEF CoInv, l
<1> QED BY <1>1, <1>2, <1>3, CoBody, OnState DEF l
LEMMA Unmoved ==
  ASSUME IInv, CoInv, cstack # <<>>, F.k # "resume", cstack' = cstack,
         \A co \in Coroutines :
           \/ lstate'[co] = lstate[co]
           \/ lstate[co] # NoState /\ Shifted(lstate[co], lstate'[co])
           \/ co = L /\ Keeps(lstate[co], lstate'[co])
  PROVE  CoInv' /\ Simulated
<1>1. ASSUME NEW co \in Coroutines
      PROVE  /\ CoOK(cstack, lstate'[co], co) /\ Prog(lstate'[co]) = Prog(lstate[co])
             /\ View(lstate'[co], co = L) = View(lstate[co], co = L)
  <2>1. CoOK(cstack, lstate[co], co) /\ co \in Threads BY DEF CoInv, Threads
  <2>2. IsState(lstate[co]) BY <2>1 DEF IInv, Good
  <2>3. CASE lstate'[co] = lstate[co] BY <2>1, <2>3
  <2>4. CASE lstate[co] # NoState /\ Shifted(lstate[co], lstate'[co])
    <3>1. lstate[co].status # "none" BY <2>1, <2>4 DEF CoOK
    <3> QED BY <2>1, <2>2, <2>4, <3>1, CoShifted, ShiftedViews
  <2>5. CASE co = L /\ Keeps(lstate[co], lstate'[co])
    <3>1. ~ Off(cstack, co) /\ ~ OnTop(cstack, co) /\ lstate[co].body = NoBody /\ lstate[co].status # "none" /\ lstate[co] # NoState
      BY <2>5, RunningViews DEF l
    <3>2. /\ lstate'[co].body = lstate[co].body /\ lstate'[co].status = lstate[co].status
          /\ Len(lstate'[co].ci) = Len(lstate[co].ci)
      BY <2>5 DEF Keeps, SameControl, SameCalls
    <3>3. lstate'[co] # NoState BY <3>1, <3>2, NoStateStatus
    <3>4. CoOK(cstack, lstate'[co], co) BY <3>1, <3>2, CoInside
    <3> QED BY <2>5, <3>1, <3>2, <3>3, <3>4 DEF View, Prog
  <2> QED BY <2>3, <2>4, <2>5
<1>2. Last(cstack').L = L /\ Pairs(cstack') = Pairs(cstack) BY IInvFacts
<1>3. UNCHANGED AbstractCoroutines!vars BY <1>1, <1>2, Stutters
<1>4. CoInv' BY <1>1 DEF CoInv
<1> QED BY <1>3, <1>4 DEF Simulated

LEMMA CollectSimulated == ASSUME IInv, CoInv, NEW th \in Threads, CollectStack(th) PROVE CoInv' /\ Simulated
<1>1. InLua \/ InC BY DEF CollectStack
<1>2. /\ At(cstack, L, l) /\ cstack # <<>> /\ IsState(l) /\ Last(cstack) \in Frames /\ F.k # "resume" /\ Last(cstack) = F
  BY <1>1, LuaFacts, CFacts DEF CCode
<1>3. PICK t : t = Shrunk(lstate[th]) OBVIOUS
<1>4. Become(th, t, IF th = L THEN Reloaded(cstack, t) ELSE cstack) /\ lstate[th] # NoState BY <1>3 DEF CollectStack
<1>5. DOMAIN lstate = Threads /\ IsState(lstate[th]) BY DEF IInv, Good
<1>6. Shifted(lstate[th], t) BY <1>3, <1>5, ShrunkShifts
<1>7. CASE th = L
  <2>1. At(cstack, L, t) BY <1>2, <1>6, <1>7, AtKeeps DEF l, Shifted
  <2>2. Become(L, t, Reloaded(cstack, t)) BY <1>4, <1>7
  <2>3. Goes BY <1>2, <2>1, <2>2, ReloadEnds
  <2> QED BY <1>1, <2>3, GoesSimulated DEF OwnStep
<1>8. CASE th # L
  <2>1. cstack' = cstack /\ lstate' = [lstate EXCEPT ![th] = t] BY <1>4, <1>8 DEF Become
  <2>2. ASSUME NEW co \in Coroutines PROVE lstate'[co] = lstate[co] \/ (lstate[co] # NoState /\ Shifted(lstate[co], lstate'[co]))
    <3>1. co \in Threads BY DEF Threads
    <3>2. CASE co = th BY <1>4, <1>5, <1>6, <2>1, <3>2
    <3>3. CASE co # th BY <1>5, <2>1, <3>1, <3>3
    <3> QED BY <3>2, <3>3
  <2> QED BY <1>2, <2>1, <2>2, Unmoved
<1> QED BY <1>7, <1>8

LEMMA ResumeOtherSimulated ==
  ASSUME IInv, CoInv, NEW co \in Coroutines, NEW n \in NArgs, ResumeOther(co, n)
  PROVE  CoInv' /\ Simulated
<1>1. InC /\ lstate[co] # NoState BY DEF ResumeOther
<1>2. PICK mine : mine = WithValues(n + 1) OBVIOUS
<1>3. PICK t0 : t0 = IF co = L THEN mine ELSE lstate[co] OBVIOUS
<1>4. PICK room : room = lua_checkstack(t0, n) OBVIOUS
<1>5. IF ~ room.ok THEN luaG_runerror(L, mine, cstack)
      ELSE /\ lstate' = [lstate EXCEPT ![L] = [IF co = L THEN room.t ELSE mine EXCEPT !.top = @ - n],
                                       ![co] = IF co = L THEN [room.t EXCEPT !.top = @ - n] ELSE room.t]
           /\ UNCHANGED <<uses, cstack>>
  BY <1>2, <1>3, <1>4 DEF ResumeOther
<1>6. /\ At(cstack, L, l) /\ cstack # <<>> /\ IsState(l) /\ L \in Threads /\ Last(cstack).k \in CCode /\ Last(cstack) = F
      /\ F.k # "resume"
  BY <1>1, CFacts DEF CCode
<1>7. n \in Int /\ n + 1 \in Int BY InputTypes
<1>8. Keeps(l, mine) /\ IsState(mine) /\ At(cstack, L, mine) BY <1>1, <1>2, <1>7, WithValuesKeeps
<1>9. co \in Threads /\ DOMAIN lstate = Threads /\ \A th \in Threads : IsState(lstate[th]) BY DEF IInv, Good, Threads
<1>10. IsState(t0) BY <1>3, <1>8, <1>9
<1>11. Shifted(t0, room.t) /\ Keeps(t0, room.t) /\ IsState(room.t) BY <1>4, <1>7, <1>10, LuaCheckstackShifts DEF Shifted, Keeps
<1>12. CASE ~ room.ok
  <2>1. Goes BY <1>5, <1>6, <1>8, <1>12, Runerror
  <2> QED BY <1>1, <2>1, GoesSimulated DEF OwnStep
<1>13. CASE room.ok
  <2>1. PICK base : base = IF co = L THEN room.t ELSE mine OBVIOUS
  <2>2. PICK mine2 : mine2 = [base EXCEPT !.top = base.top - n] BY Zenon
  <2>3. PICK other : other = IF co = L THEN mine2 ELSE room.t OBVIOUS
  <2>4. Keeps(l, base) /\ IsState(base)
    <3>1. CASE co = L BY <1>3, <1>8, <1>11, <2>1, <3>1, KeepsTrans
    <3>2. CASE co # L BY <1>8, <2>1, <3>2
    <3> QED BY <3>1, <3>2
  <2>5. Keeps(l, mine2)
    <3>1. base.top - n \in Int BY <1>7, <2>4, FieldTypes
    <3> QED BY <2>2, <2>4, <3>1, SetTop, KeepsTrans
  <2>6. lstate' = [lstate EXCEPT ![L] = mine2, ![co] = other] /\ cstack' = cstack
    BY <1>5, <1>13, <2>1, <2>2, <2>3
  <2>7. ASSUME NEW u \in Coroutines
        PROVE  \/ lstate'[u] = lstate[u]
               \/ lstate[u] # NoState /\ Shifted(lstate[u], lstate'[u])
               \/ u = L /\ Keeps(lstate[u], lstate'[u])
    <3>0. u \in Threads BY DEF Threads
    <3>1. CASE u = co
      <4>1. lstate'[u] = other BY <1>9, <2>6, <3>1
      <4>2. CASE co = L BY <2>3, <2>5, <3>1, <4>1, <4>2 DEF l
      <4>3. CASE co # L BY <1>1, <1>3, <1>11, <2>3, <3>1, <4>1, <4>3
      <4> QED BY <4>2, <4>3
    <3>2. CASE u = L /\ u # co
      <4>1. lstate'[u] = mine2 BY <1>9, <2>6, <3>0, <3>2
      <4> QED BY <2>5, <3>2, <4>1 DEF l
    <3>3. CASE u # L /\ u # co BY <1>9, <2>6, <3>0, <3>3
    <3> QED BY <3>1, <3>2, <3>3
  <2> QED BY <1>6, <2>6, <2>7, Unmoved
<1> QED BY <1>12, <1>13

(***************************************************************************)
(* coroutine.create.                                                       *)
(***************************************************************************)
LEMMA CocreateSimulated ==
  ASSUME IInv, CoInv, NEW co \in Coroutines, NEW fn \in LuaFunctions, luaB_cocreate(co, fn)
  PROVE  CoInv' /\ Simulated
<1>1. PICK t : t = [NewState EXCEPT !.top = NewState.top + 1, !.body = fn] OBVIOUS
<1>2. InC /\ lstate[co] = NoState /\ Become(co, t, cstack) BY <1>1 DEF luaB_cocreate
<1>3. /\ cstack # <<>> /\ co \in Threads /\ Last(cstack) = F /\ F.L = L /\ F.k # "resume" /\ L \in Threads
  BY <1>2, CFacts DEF Threads, CCode
<1>4. lstate[co].status = "none" BY <1>2, NoStateStatus
<1>5. Off(cstack, co) BY <1>2, <1>3, OnState
<1>6. co # L
  <2>1. F = cstack[Len(cstack)] /\ Len(cstack) \in Nat \ {0} BY <1>3, IInvFacts
  <2> QED BY <1>3, <1>5, <2>1 DEF Off
<1>7. t.status = "ok" /\ Len(t.ci) = 1 /\ t.body = fn /\ t.top = 2 /\ t.base = 1 /\ Ci(t).base = 1 /\ t # NoState
  <2>1. t.status = "ok" /\ t.ci = NewState.ci /\ t.body = fn /\ t.top = NewState.top + 1 /\ t.base = NewState.base
    BY <1>1 DEF NewState
  <2>2. NewState.top = 1 /\ NewState.base = 1 /\ Len(NewState.ci) = 1 /\ NewState.ci[1].base = 1 BY DEF NewState
  <2>3. Ci(t).base = 1 BY <2>1, <2>2 DEF Ci, Last
  <2> QED BY <2>1, <2>2, <2>3, NoStateStatus
<1>8. fn # NoBody BY FunctionsAssumption
<1>9. lstate' = [lstate EXCEPT ![co] = t] /\ cstack' = cstack BY <1>2 DEF Become
<1>10. lstate'[co] = t /\ \A u \in Coroutines : u # co => lstate'[u] = lstate[u] BY <1>3, <1>9 DEF IInv, Threads
<1>11. CoInv'
  <2>1. CoOK(cstack, t, co) BY <1>5, <1>7 DEF CoOK
  <2> QED BY <1>9, <1>10, <2>1 DEF CoInv
<1>12. View(lstate[co], co = L) = "none" /\ View(lstate'[co], co = L) = "suspended" /\ Prog(lstate[co]) = "new" /\ Prog(lstate'[co]) = "new"
  <2>1. Prog(lstate[co]) = "new" /\ Prog(t) = "new" BY <1>4, <1>7, <1>8 DEF Prog
  <2>2. OffStatus(t) = "suspended" BY <1>7 DEF OffStatus
  <2>3. View(lstate[co], co = L) = "none" BY <1>2 DEF View
  <2>4. View(t, co = L) = "suspended" BY <1>6, <1>7, <2>2 DEF View
  <2> QED BY <1>10, <2>1, <2>3, <2>4
<1>13. status[co] = "none" /\ status' = [status EXCEPT ![co] = "suspended"] /\ progress' = progress
  BY <1>3, <1>9, <1>10, <1>12, Views, NextViews
<1>14. UNCHANGED <<running, waits, ended>> /\ ~ ended BY <1>3, <1>9, Views, NextViews
<1>15. AbstractCoroutines!Create(co) BY <1>13, <1>14 DEF AbstractCoroutines!Create, AbstractCoroutines!Set
<1> QED BY <1>11, <1>15 DEF Simulated, AbstractCoroutines!Next

(***************************************************************************)
(* coroutine.resume.                                                       *)
(***************************************************************************)
(* The stack of a coroutine gets n arguments, and its nCcalls is x.         *)
Arguments(c, n, x, t) ==
  t = [[lua_checkstack(c, n).t EXCEPT !.top = lua_checkstack(c, n).t.top + n] EXCEPT !.nCcalls = x]
LEMMA ArgumentsFacts ==
  ASSUME NEW c, IsState(c), NEW n \in Int, NEW x \in Nat, NEW t, Arguments(c, n, x, t)
  PROVE  /\ IsState(t) /\ Len(t.ci) = Len(c.ci) /\ t.status = c.status /\ t.body = c.body /\ t.nCcalls = x
         /\ t.base = Ci(t).base <=> c.base = Ci(c).base
<1>1. PICK r : r = lua_checkstack(c, n).t OBVIOUS
<1>2. PICK u : u = [r EXCEPT !.top = r.top + n] BY Zenon
<1>3. t = [u EXCEPT !.nCcalls = x] BY <1>1, <1>2 DEF Arguments
<1>4. Shifted(c, r) /\ IsState(r) BY <1>1, LuaCheckstackShifts DEF Shifted, Keeps
<1>5. r.top + n \in Int BY <1>4, FieldTypes
<1>6. Keeps(r, u) /\ IsState(u) BY <1>2, <1>4, <1>5, SetTop DEF Keeps
<1>7. u.base = r.base /\ u.ci = r.ci
  <2>1. PICK y \in Int : y = r.top + n BY <1>5
  <2>2. u = [r EXCEPT !.top = y] BY <1>2, <2>1
  <2> QED BY <1>4, <2>2 DEF IsState, LuaState
<1>8. IsState(t) /\ SameFields(u, t) /\ t.ci = u.ci /\ t.nCcalls = x BY <1>3, <1>6, AddCcall
<1>9. t.base = u.base BY <1>3, <1>6 DEF IsState, LuaState
<1>10. Len(t.ci) = Len(c.ci) /\ t.status = c.status /\ t.body = c.body
  BY <1>4, <1>6, <1>8 DEF Shifted, Keeps, SameControl, SameCalls, SameFields
<1>11. Ci(t) = Ci(r) /\ t.base = r.base BY <1>7, <1>8, <1>9 DEF Ci
<1>12. r.base = Ci(r).base <=> c.base = Ci(c).base
  <2>1. r.base \in Int /\ Ci(r).base \in Int /\ c.base \in Int /\ Ci(c).base \in Int BY <1>4, BaseTypes
  <2> QED BY <1>4, <2>1 DEF Shifted
<1> QED BY <1>8, <1>10, <1>11, <1>12

(* The coroutine co, suspended, has the state c; the thread that resumes it *)
(* gets the state mine.                                                    *)
Resuming(co, c, mine) ==
  /\ InC /\ co \in Coroutines /\ co # L /\ c = lstate[co] /\ IsState(c) /\ Off(cstack, co) /\ CoOK(cstack, c, co)
  /\ View(c, FALSE) = "suspended" /\ c # NoState /\ Suspended(c) /\ c.status \in {"ok", "yield"} /\ Keeps(l, mine)

(* There is no C stack for it.                                              *)
LEMMA RefuseSimulated ==
  ASSUME IInv, CoInv, NEW co, NEW c, NEW mine, Resuming(co, c, mine), NEW n \in Int, NEW x \in Nat, NEW t, Arguments(c, n, x, t),
         lstate' = [lstate EXCEPT ![co] = resume_error(t), ![L] = mine], cstack' = cstack
  PROVE  CoInv' /\ Simulated
<1>1. /\ cstack # <<>> /\ Last(cstack) = F /\ F.L = L /\ F.k # "resume" /\ L \in Threads /\ DOMAIN lstate = Threads
      /\ co \in Threads /\ co # L /\ co \in Coroutines /\ IsState(c) /\ c = lstate[co]
  BY CFacts DEF Threads, CCode, Resuming, InC, IInv
<1>2. PICK e : e = resume_error(t) OBVIOUS
<1>3. lstate'[co] = e /\ lstate'[L] = mine /\ \A u \in Coroutines : u # co /\ u # L => lstate'[u] = lstate[u]
  BY <1>1, <1>2 DEF Threads
<1>4. /\ IsState(t) /\ Len(t.ci) = Len(c.ci) /\ t.status = c.status /\ t.body = c.body
      /\ t.base = Ci(t).base <=> c.base = Ci(c).base
  BY <1>1, ArgumentsFacts
<1>5. IsState(e) /\ e.status = c.status /\ e.body = c.body /\ Len(e.ci) = Len(c.ci)
  BY <1>2, <1>4, ResumeErrorKeeps DEF Keeps, SameControl, SameCalls
<1>6. c.status = "ok" => e.top = e.base /\ Ci(e).base = e.base /\ Len(c.ci) = 1
  <2>1. ASSUME c.status = "ok" PROVE c.base = Ci(c).base /\ Len(c.ci) = 1 BY <2>1 DEF Resuming, CoOK, Suspended
  <2> QED BY <1>2, <1>4, <2>1, ResumeErrorEmpties
<1>7. e # NoState /\ c # NoState /\ c.status \in {"ok", "yield"} BY <1>5, NoStateStatus DEF Resuming
<1>8. Off(cstack, co) /\ CoOK(cstack, c, co) BY DEF Resuming
<1>9. CoOK(cstack, e, co) BY <1>5, <1>6, <1>7, <1>8 DEF CoOK
<1>10. ASSUME L \in Coroutines
       PROVE  CoOK(cstack, mine, L) /\ Prog(mine) = Prog(l) /\ View(mine, TRUE) = "running" /\ View(l, TRUE) = "running"
  <2>1. ~ Off(cstack, L) /\ ~ OnTop(cstack, L) /\ l.body = NoBody /\ l.status # "none" /\ l # NoState
    BY <1>1, <1>10, RunningViews
  <2>2. mine.body = l.body /\ mine.status = l.status /\ Len(mine.ci) = Len(l.ci) BY DEF Resuming, Keeps, SameControl, SameCalls
  <2>3. mine # NoState BY <2>1, <2>2, NoStateStatus
  <2> QED BY <2>1, <2>2, <2>3, CoInside DEF View, Prog
<1>11. CoInv' BY <1>1, <1>3, <1>9, <1>10 DEF CoInv
<1>12. UNCHANGED <<running, waits, ended>> /\ ~ ended BY <1>1, Views, NextViews
<1>13. Prog(e) = Prog(c) BY <1>5 DEF Prog
<1>14. progress' = progress
  <2>1. ASSUME NEW u \in Coroutines PROVE Prog(lstate'[u]) = Prog(lstate[u])
    <3>1. CASE u = co BY <1>1, <1>3, <1>13, <3>1
    <3>2. CASE u = L BY <1>3, <1>10, <3>2 DEF l
    <3>3. CASE u # co /\ u # L BY <1>3, <3>3
    <3> QED BY <3>1, <3>2, <3>3
  <2> QED BY <1>1, <2>1, ProgressSame
<1>15. View(c, FALSE) = "suspended" BY DEF Resuming
<1>16. CASE c.status = "yield"
  <2>1. View(e, FALSE) = "suspended" BY <1>5, <1>7, <1>16 DEF View, OffStatus
  <2>2. \A u \in Coroutines : View(lstate'[u], u = L) = View(lstate[u], u = L) BY <1>1, <1>3, <1>10, <1>15, <2>1 DEF l
  <2>3. status' = status BY <1>1, <2>2, StatusSame
  <2> QED BY <1>11, <1>12, <1>14, <2>3 DEF Simulated, AbstractCoroutines!vars
<1>17. CASE c.status = "ok"
  <2>1. View(e, FALSE) = "dead" /\ Prog(c) # "inside"
    <3>1. Len(c.ci) = 1 /\ Len(e.ci) = 1 /\ ~ (1 > 1) /\ e.top = e.base /\ e.status = "ok" BY <1>5, <1>6, <1>17
    <3>2. OffStatus(e) = "dead" BY <3>1 DEF OffStatus
    <3>3. Prog(c) # "inside" BY <3>1 DEF Prog
    <3> QED BY <1>7, <3>2, <3>3 DEF View
  <2>2. status[co] = "suspended" /\ progress[co] # "inside" BY <1>1, <1>15, <2>1, StatusOf
  <2>3. ASSUME NEW u \in Coroutines PROVE status'[u] = IF u = co THEN "dead" ELSE status[u]
    <3>0. Last(cstack').L = L BY <1>1
    <3>1. CASE u = co BY <1>1, <1>3, <2>1, <3>0, <3>1, NextStatusOf
    <3>2. CASE u = L
      <4>1. status'[u] = "running" BY <1>1, <1>3, <1>10, <3>0, <3>2, NextStatusOf
      <4>2. status[u] = "running" BY <1>1, <1>10, <3>2, StatusOf DEF l
      <4> QED BY <1>1, <3>2, <4>1, <4>2
    <3>3. CASE u # co /\ u # L
      <4>1. status'[u] = View(lstate[u], FALSE) BY ZenonT(90), <1>1, <1>3, <3>0, <3>3, NextStatusOf
      <4>2. status[u] = View(lstate[u], FALSE) BY <1>1, <3>3, StatusOf
      <4> QED BY <3>3, <4>1, <4>2
    <3> QED BY <3>1, <3>2, <3>3
  <2>5. status' = [status EXCEPT ![co] = "dead"] BY <1>1, <2>3, AreFunctions
  <2>4. AbstractCoroutines!Refuse(co)
    BY <1>12, <1>14, <2>2, <2>5 DEF AbstractCoroutines!Refuse, AbstractCoroutines!Set
  <2> QED BY <1>1, <1>11, <2>4 DEF Simulated, AbstractCoroutines!Next
<1> QED BY <1>7, <1>16, <1>17

(* Its lua_resume goes onto the C stack.                                    *)
LEMMA PairsPushed ==
  ASSUME NEW cs \in Seq(Frames), NEW f \in Frames
  PROVE  Pairs(Append(cs, f)) = Pairs(cs) \cup (IF f.k = "resume" THEN {<<f.from, f.L>>} ELSE {})
<1>1. PICK new : new = Append(cs, f) BY Zenon
<1>2. Len(new) = Len(cs) + 1 /\ new \in Seq(Frames) /\ new[Len(cs) + 1] = f /\ (\A i \in 1..Len(cs) : new[i] = cs[i])
  BY <1>1, FrontAppend
<1>3. Len(cs) \in Nat /\ DOMAIN cs = 1..Len(cs) /\ DOMAIN new = 1..(Len(cs) + 1) BY <1>2
<1>4. \A i \in 1..(Len(cs) + 1) : i \in 1..Len(cs) \/ i = Len(cs) + 1 BY <1>3
<1>5. \A i \in 1..Len(cs) : i \in 1..(Len(cs) + 1) BY <1>3
<1>6. Len(cs) + 1 \in 1..(Len(cs) + 1) BY <1>3
<1>7. Pairs(new) = Pairs(cs) \cup (IF f.k = "resume" THEN {<<f.from, f.L>>} ELSE {})
  BY <1>2, <1>3, <1>4, <1>5, <1>6 DEF Pairs
<1> QED BY <1>1, <1>7
(* It has the state c2 then, and the frame f with n arguments.             *)
Pushing(co, n, t, c2, f) ==
  /\ c2.status = t.status /\ c2.body = t.body /\ c2.ci = t.ci /\ c2.base = t.base
  /\ f \in Frames /\ f.k = "resume" /\ f.L = co /\ f.from = L /\ f.n = n /\ f.status = "ok"
LEMMA ResumeSimulated ==
  ASSUME IInv, CoInv, NEW co, NEW c, NEW mine, Resuming(co, c, mine), NEW n \in Nat, NEW x \in Nat, NEW t, Arguments(c, n, x, t),
         NEW c2, NEW f, Pushing(co, n, t, c2, f),
         lstate' = [lstate EXCEPT ![co] = c2, ![L] = mine], cstack' = Append(cstack, f)
  PROVE  CoInv' /\ Simulated
<1> USE DEF Pushing
<1>1. /\ cstack # <<>> /\ Last(cstack) = F /\ F.L = L /\ F.k # "resume" /\ L \in Threads /\ DOMAIN lstate = Threads
      /\ co \in Threads /\ co # L /\ co \in Coroutines /\ IsState(c) /\ c = lstate[co] /\ cstack \in Seq(Frames) /\ InC
  BY CFacts DEF Threads, CCode, Resuming, InC, IInv
<1>2. PICK new : new = Append(cstack, f) BY Zenon
<1>3. new # <<>> /\ Last(new) = f /\ Len(new) = Len(cstack) + 1 /\ new[Len(cstack) + 1] = f
      /\ Len(cstack) \in Nat /\ (\A i \in 1..Len(cstack) : new[i] = cstack[i]) /\ cstack' = new
  BY <1>1, <1>2, FrontAppend
<1>4. lstate'[co] = c2 /\ lstate'[L] = mine /\ \A u \in Coroutines : u # co /\ u # L => lstate'[u] = lstate[u]
  BY <1>1 DEF Threads
<1>5. /\ IsState(t) /\ Len(t.ci) = Len(c.ci) /\ t.status = c.status /\ t.body = c.body
      /\ t.base = Ci(t).base <=> c.base = Ci(c).base
  BY <1>1, ArgumentsFacts
<1>6. Off(cstack, co) /\ CoOK(cstack, c, co) /\ c # NoState /\ c.status \in {"ok", "yield"} /\ View(c, FALSE) = "suspended"
  BY DEF Resuming
<1>7. c2 # NoState BY <1>5, <1>6, NoStateStatus
<1>8. n # Done BY DEF Done
<1>9. OnTop(new, co) /\ ~ Off(new, co) /\ \A u : u # co => ~ OnTop(new, u)
  <2>1. Len(cstack) + 1 \in 1..Len(new) BY <1>3
  <2> QED BY <1>3, <2>1 DEF OnTop, Off
<1>10. Ci(c2) = Ci(t) BY DEF Ci
<1>11. CoOK(new, c2, co) BY <1>3, <1>5, <1>6, <1>8, <1>9, <1>10 DEF CoOK
<1>12. \A u : u # co => (Off(new, u) <=> Off(cstack, u))
  <2>1. \A i \in 1..Len(new) : i \in 1..Len(cstack) \/ i = Len(cstack) + 1 BY <1>3
  <2>2. \A i \in 1..Len(cstack) : i \in 1..Len(new) BY <1>3
  <2> QED BY <1>3, <2>1, <2>2 DEF Off
<1>13. ASSUME L \in Coroutines
       PROVE  CoOK(new, mine, L) /\ Prog(mine) = Prog(l) /\ View(mine, FALSE) = "normal"
  <2>1. ~ Off(cstack, L) /\ l.body = NoBody /\ l.status # "none" /\ l # NoState BY <1>1, <1>13, RunningViews
  <2>2. mine.body = l.body /\ mine.status = l.status /\ Len(mine.ci) = Len(l.ci) BY DEF Resuming, Keeps, SameControl, SameCalls
  <2>3. mine # NoState BY <2>1, <2>2, NoStateStatus
  <2>4. Len(l.ci) > 1 BY <1>1, <1>13, InProgress
  <2>5. l.status = "ok"
    <3>1. Ready(cstack, L, l) BY <1>1, RunningReady DEF InC
    <3> QED BY <3>1 DEF Ready, Runs
  <2>6. CoOK(new, mine, L) BY <1>1, <1>9, <1>12, <2>1, <2>2, CoInside
  <2>7. View(mine, FALSE) = "normal" BY <2>2, <2>3, <2>4, <2>5 DEF View, OffStatus
  <2>8. Prog(mine) = Prog(l) BY <2>2 DEF Prog
  <2> QED BY <2>6, <2>7, <2>8
<1>14. ASSUME NEW u \in Coroutines, u # co, u # L PROVE CoOK(new, lstate[u], u)
  <2>1. CoOK(cstack, lstate[u], u) /\ ~ OnTop(cstack, u) BY <1>1, <1>14 DEF CoInv, OnTop
  <2> QED BY <1>9, <1>12, <1>14, <2>1 DEF CoOK
<1>15. CoInv' BY <1>1, <1>3, <1>4, <1>11, <1>13, <1>14 DEF CoInv
<1>16. running = L /\ running' = co /\ ended = FALSE /\ ended' = FALSE BY <1>1, <1>3, Views, NextViews
<1>17. waits' = waits \cup {<<L, co>>}
  <2>1. Pairs(new) = Pairs(cstack) \cup {<<f.from, f.L>>} BY <1>1, <1>2, PairsPushed
  <2> QED BY <1>1, <1>3, <2>1, Views, NextViews
<1>18. progress' = progress
  <2>1. Prog(c2) = Prog(c) BY <1>5 DEF Prog
  <2>2. ASSUME NEW u \in Coroutines PROVE Prog(lstate'[u]) = Prog(lstate[u])
    <3>1. CASE u = co BY <1>1, <1>4, <2>1, <3>1
    <3>2. CASE u = L BY <1>4, <1>13, <3>2 DEF l
    <3>3. CASE u # co /\ u # L BY <1>4, <3>3
    <3> QED BY <3>1, <3>2, <3>3
  <2> QED BY <1>1, <1>3, <2>2, ProgressSame
<1>19. View(c2, TRUE) = "running" BY <1>7 DEF View
<1>20. \A u \in Coroutines : status'[u] = IF u = co THEN "running" ELSE IF u = L THEN "normal" ELSE status[u]
  <2> SUFFICES ASSUME NEW u \in Coroutines
               PROVE  status'[u] = IF u = co THEN "running" ELSE IF u = L THEN "normal" ELSE status[u]
    OBVIOUS
  <2>1. co = Last(cstack').L BY <1>3
  <2>2. CASE u = co BY <1>3, <1>4, <1>19, <2>1, <2>2, NextStatusOf
  <2>3. CASE u = L
    <3>1. L \in Coroutines /\ u # co /\ lstate'[u] = mine BY <1>1, <1>4, <2>3
    <3>2. status'[u] = View(mine, FALSE) BY <1>3, <2>1, <3>1, NextStatusOf
    <3> QED BY <1>1, <1>13, <2>3, <3>1, <3>2
  <2>4. CASE u # co /\ u # L
    <3>1. status'[u] = View(lstate[u], FALSE) BY <1>3, <1>4, <2>1, <2>4, NextStatusOf
    <3>2. status[u] = View(lstate[u], FALSE) BY <1>1, <2>4, StatusOf
    <3> QED BY <2>4, <3>1, <3>2
  <2> QED BY <2>2, <2>3, <2>4
<1>21. status[co] = "suspended" BY <1>1, <1>6, StatusOf
<1>22. status' = [u \in Coroutines |-> status'[u]] /\ status = [u \in Coroutines |-> status[u]]
  BY <1>1, <1>3, AreFunctions
<1>23. status' = AbstractCoroutines!Set(AbstractCoroutines!Gets(status, L, "normal"), co, "running")
  BY <1>1, <1>20, <1>22 DEF AbstractCoroutines!Set, AbstractCoroutines!Gets
<1>24. AbstractCoroutines!Resume(co) BY <1>16, <1>17, <1>18, <1>21, <1>23 DEF AbstractCoroutines!Resume
<1> QED BY <1>1, <1>15, <1>24 DEF Simulated, AbstractCoroutines!Next
LEMMA CoresumeSimulated ==
  ASSUME IInv, CoInv, NEW co \in Coroutines, NEW n \in NArgs, luaB_coresume(co, n)
  PROVE  CoInv' /\ Simulated
<1>1. InC /\ costatus(co) = "suspended" /\ lstate[co] # NoState BY DEF luaB_coresume
<1>2. PICK c : c = lstate[co] OBVIOUS
<1>3. PICK r : r = lua_checkstack(c, n) OBVIOUS
<1>4. PICK u : u = [r.t EXCEPT !.top = r.t.top + n] BY Zenon
<1>5. PICK x : x = l.nCcalls OBVIOUS
<1>6. PICK t : t = [u EXCEPT !.nCcalls = x] BY Zenon
<1>7. PICK c2 : c2 = [t EXCEPT !.nCcalls = t.nCcalls + 1, !.baseCcalls = t.nCcalls + 1, !.errorJmp = Len(cstack) + 1] OBVIOUS
<1>8. PICK f : f = [k |-> "resume", L |-> co, from |-> L, status |-> "ok", previous |-> t.errorJmp, n |-> n] BY Zenon
<1>9. IF ~ r.ok THEN luaG_runerror(L, WithValues(n + 1), cstack)
      ELSE IF t.nCcalls >= LUAI_MAXCCALLS
      THEN lstate' = [lstate EXCEPT ![co] = resume_error(t), ![L] = WithValues(2)] /\ UNCHANGED <<uses, cstack>>
      ELSE lstate' = [lstate EXCEPT ![co] = c2, ![L] = WithValues(1)] /\ cstack' = Append(cstack, f) /\ UNCHANGED uses
  BY <1>2, <1>3, <1>4, <1>5, <1>6, <1>7, <1>8 DEF luaB_coresume, lua_setlevel
<1>10. At(cstack, L, l) /\ cstack # <<>> /\ IsState(l) /\ L \in Threads /\ Last(cstack).k \in CCode /\ cstack \in Seq(Frames)
  <2>1. At(cstack, L, l) /\ cstack # <<>> /\ IsState(l) /\ L \in Threads /\ Last(cstack).k \in CCode BY <1>1, CFacts
  <2> QED BY <2>1, IInvFacts
<1>11. /\ co # L /\ Off(cstack, co) /\ IsState(c) /\ Suspended(c) /\ c.errorJmp = 0 /\ c.status \in {"yield", "ok"} /\ co \in Threads
  BY <1>1, <1>2, <1>10, SuspendedStatus
<1>12. n \in Nat /\ n \in Int /\ n + 1 \in Int /\ x \in Nat
  <2>1. n \in Nat BY LimitsAssumption
  <2>2. x \in Nat BY <1>5, <1>10, FieldTypes
  <2> QED BY <2>1, <2>2
<1>13. Arguments(c, n, x, t) BY <1>3, <1>4, <1>6 DEF Arguments
<1>14. View(c, FALSE) = "suspended" BY <1>1, <1>2, <1>11 DEF View, OffStatus, costatus
<1>15. ASSUME NEW m \in {1, 2}, NEW mine, mine = WithValues(m) PROVE Resuming(co, c, mine)
  <2>1. Keeps(l, mine) BY <1>1, <1>15, WithValuesKeeps
  <2>2. CoOK(cstack, c, co) BY <1>2, <1>10 DEF CoInv
  <2> QED BY <1>1, <1>2, <1>11, <1>14, <2>1, <2>2 DEF Resuming
<1>16. CASE ~ r.ok
  <2>1. PICK mine : mine = WithValues(n + 1) OBVIOUS
  <2>2. At(cstack, L, mine) BY <1>1, <1>12, <2>1, WithValuesKeeps
  <2>3. Goes BY <1>9, <1>10, <1>16, <2>1, <2>2, Runerror
  <2> QED BY <1>1, <2>3, GoesSimulated DEF OwnStep
<1>17. CASE r.ok /\ t.nCcalls >= LUAI_MAXCCALLS
  <2>1. PICK mine : mine = WithValues(2) OBVIOUS
  <2>2. lstate' = [lstate EXCEPT ![co] = resume_error(t), ![L] = mine] /\ cstack' = cstack BY <1>9, <1>17, <2>1
  <2>3. Resuming(co, c, mine) BY <1>15, <2>1
  <2> QED BY <1>12, <1>13, <2>2, <2>3, RefuseSimulated
<1>18. CASE r.ok /\ ~ (t.nCcalls >= LUAI_MAXCCALLS)
  <2>1. PICK mine : mine = WithValues(1) OBVIOUS
  <2>2. lstate' = [lstate EXCEPT ![co] = c2, ![L] = mine] /\ cstack' = Append(cstack, f) BY <1>9, <1>18, <2>1
  <2>3. Resuming(co, c, mine) BY <1>15, <2>1
  <2>4. IsState(t) BY <1>11, <1>12, <1>13, ArgumentsFacts
  <2>5. c2.status = t.status /\ c2.body = t.body /\ c2.ci = t.ci /\ c2.base = t.base
    BY Zenon, <1>7, <2>4 DEF IsState, LuaState
  <2>6. f \in Frames /\ f.k = "resume" /\ f.L = co /\ f.from = L /\ f.n = n /\ f.status = "ok"
    <3>1. PICK p \in Nat : p = t.errorJmp BY <2>4, FieldTypes
    <3>2. PICK th \in Threads : th = L BY <1>10
    <3>3. f = [k |-> "resume", L |-> co, from |-> th, status |-> "ok", previous |-> p, n |-> n] BY <1>8, <3>1, <3>2
    <3> HIDE DEF L
    <3> QED BY <1>11, <1>12, <3>2, <3>3, ResumeFrameTypes
  <2>7. Pushing(co, n, t, c2, f) BY <2>5, <2>6 DEF Pushing
  <2> QED BY <1>12, <1>13, <2>2, <2>3, <2>7, ResumeSimulated
<1> QED BY <1>16, <1>17, <1>18

(***************************************************************************)
(* The end of lua_resume.                                                  *)
(***************************************************************************)
(* The C stack new without the frame of lua_resume, in which the thread th  *)
(* runs again.                                                             *)
Backs(th, new) ==
  /\ new # <<>> /\ Last(new).L = th /\ Last(new).k # "resume" /\ Pairs(new) = Pairs(Callers)
  /\ \A u \in Threads : (Off(new, u) <=> Off(Callers, u))
LEMMA BacksCallers == ASSUME NEW th, NEW t, Ready(Callers, th, t), Last(Callers).k \in CCode PROVE Backs(th, Callers)
BY ReadyFacts DEF Backs, CCode
LEMMA BacksErrormsg ==
  ASSUME NEW th \in Threads, NEW t, Ready(Callers, th, t), NEW new, new = Append(Callers, [k |-> "errormsg", L |-> th, called |-> FALSE])
  PROVE  Backs(th, new)
<1>1. PICK cs : cs = Callers BY Zenon
<1>2. cs \in Seq(Frames) /\ Len(cs) \in Nat \ {0} /\ cs[Len(cs)].L = th BY <1>1, ReadyFacts
<1>3. PICK f : f = [k |-> "errormsg", L |-> th, called |-> FALSE] BY Zenon
<1>4. f \in Frames /\ f.L = th /\ f.k = "errormsg"
  <2>1. FALSE \in BOOLEAN OBVIOUS
  <2> QED BY Zenon, <1>3, <2>1, ErrormsgTypes
<1>5. new = Append(cs, f) BY <1>1, <1>3
<1>6. /\ new # <<>> /\ Last(new) = f /\ Len(new) = Len(cs) + 1 /\ new[Len(cs) + 1] = f /\ \A i \in 1..Len(cs) : new[i] = cs[i]
  <2>1. cs \in Seq(Frames) /\ f \in Frames BY <1>2, <1>4
  <2>2. /\ Append(cs, f) # <<>> /\ Last(Append(cs, f)) = f /\ Len(Append(cs, f)) = Len(cs) + 1
        /\ Append(cs, f)[Len(cs) + 1] = f /\ \A i \in 1..Len(cs) : Append(cs, f)[i] = cs[i]
    BY <2>1, FrontAppend
  <2> HIDE DEF Last
  <2> QED BY Zenon, <1>5, <2>2
<1>7. Pairs(new) = Pairs(cs) BY <1>2, <1>4, <1>5, PairsPushed
<1>8. ASSUME NEW u \in Threads PROVE Off(new, u) <=> Off(cs, u)
  <2>1. \A i \in 1..Len(new) : i \in 1..Len(cs) \/ i = Len(cs) + 1 BY <1>2, <1>6
  <2>2. \A i \in 1..Len(cs) : i \in 1..Len(new) BY <1>2, <1>6
  <2>3. Len(cs) \in 1..Len(cs) BY <1>2
  <2> QED BY <1>2, <1>4, <1>6, <2>1, <2>2, <2>3 DEF Off
<1> QED BY <1>1, <1>4, <1>6, <1>7, <1>8 DEF Backs

(* The coroutine of lua_resume leaves control to the one that resumed it.   *)
LEMMA LeavesCaller ==
  ASSUME IInv, cstack # <<>>, F.k = "resume", NEW th, th = F.from
  PROVE  /\ Pairs(Callers) = Pairs(cstack) \ {<<th, L>>} /\ <<th, L>> \in Pairs(cstack)
         /\ \A u \in Threads : u # L => (Off(cstack, u) <=> Off(Callers, u))
         /\ ~ Off(cstack, L) /\ OnTop(cstack, L) /\ \A u : u # L => ~ OnTop(cstack, u)
<1>1. PICK cs : cs = Callers BY Zenon
<1>2. cstack \in Seq(Frames) /\ Len(cstack) \in Nat \ {0} /\ F = cstack[Len(cstack)] /\ F = Last(cstack) /\ F.L = L BY IInvFacts
<1>3. Off(cs, L) BY <1>1, ResumeOver
<1>4. PICK n \in Nat : n = Len(cstack) - 1 BY <1>2
<1>5. Len(cs) = n /\ (\A i \in 1..n : cs[i] = cstack[i]) /\ Len(cstack) = n + 1 /\ cs \in Seq(Frames) BY <1>1, <1>2, <1>4, FrontFacts DEF Callers
<1>6. DOMAIN cs = 1..n /\ DOMAIN cstack = 1..(n + 1) BY <1>2, <1>5
<1>7. \A i \in 1..(n + 1) : i \in 1..n \/ i = n + 1 BY <1>4
<1>8. (\A i \in 1..n : i \in 1..(n + 1)) /\ n + 1 \in 1..(n + 1) BY <1>4
<1>9. Pairs(cstack) = Pairs(cs) \cup {<<th, L>>} BY <1>2, <1>5, <1>6, <1>7, <1>8 DEF Pairs
<1>10. <<th, L>> \notin Pairs(cs)
  <2>1. \A i \in 1..n : cs[i].L # L BY <1>3, <1>5 DEF Off
  <2> QED BY <1>6, <2>1 DEF Pairs
<1>11. \A u \in Threads : u # L => (Off(cstack, u) <=> Off(cs, u)) BY <1>2, <1>5, <1>7, <1>8 DEF Off
<1>12. ~ Off(cstack, L) BY <1>2, <1>5, <1>8 DEF Off
<1>13. OnTop(cstack, L) /\ \A u : u # L => ~ OnTop(cstack, u) BY <1>2 DEF OnTop
<1> QED BY <1>1, <1>9, <1>10, <1>11, <1>12, <1>13

Leaving(th, t2, from2) ==
  /\ cstack # <<>> /\ F.k = "resume" /\ F.n = Done /\ th = F.from /\ Backs(th, cstack') /\ Keeps(lstate[th], from2)
  /\ lstate' = [lstate EXCEPT ![L] = t2, ![th] = from2]
LEMMA LeavingFacts ==
  ASSUME IInv, CoInv, NEW th, NEW t2, t2.status # "none", NEW from2, Leaving(th, t2, from2)
  PROVE  /\ L \in Coroutines /\ th \in Threads /\ th # L /\ Off(Callers, L) /\ Off(cstack', L) /\ ~ OnTop(cstack', L)
         /\ (CoOK(cstack', t2, L) => CoInv')
         /\ running = L /\ running' = th /\ <<th, L>> \in waits /\ waits' = waits \ {<<th, L>>} /\ ended' = ended /\ ~ ended
         /\ status' = AbstractCoroutines!Gets(AbstractCoroutines!Set(status, L, View(t2, FALSE)), th, "running")
         /\ progress' = AbstractCoroutines!Set(progress, L, Prog(t2)) /\ progress[L] = Prog(l)
<1>1. /\ cstack # <<>> /\ F.k = "resume" /\ th = F.from /\ Keeps(lstate[th], from2) /\ lstate' = [lstate EXCEPT ![L] = t2, ![th] = from2]
      /\ cstack' # <<>> /\ Last(cstack').L = th /\ Last(cstack').k # "resume" /\ Pairs(cstack') = Pairs(Callers)
      /\ \A u \in Threads : (Off(cstack', u) <=> Off(Callers, u))
  BY DEF Leaving, Backs
<1>2. Ready(Callers, th, lstate[th]) /\ Off(Callers, L) /\ th # L /\ th \in Threads /\ L \in Coroutines BY <1>1, ResumeOver
<1>3. /\ Pairs(Callers) = Pairs(cstack) \ {<<th, L>>} /\ <<th, L>> \in Pairs(cstack)
      /\ \A u \in Threads : u # L => (Off(cstack, u) <=> Off(Callers, u))
      /\ ~ Off(cstack, L) /\ OnTop(cstack, L) /\ \A u : u # L => ~ OnTop(cstack, u)
  <2>1. cstack # <<>> /\ F.k = "resume" /\ th = F.from BY <1>1
  <2> QED BY Zenon, <2>1, LeavesCaller
<1>4. DOMAIN lstate = Threads /\ L \in Threads /\ Coroutines \subseteq Threads BY <1>2 DEF IInv, Threads
<1>5. lstate'[L] = t2 /\ lstate'[th] = from2 /\ \A u \in Threads : u # L /\ u # th => lstate'[u] = lstate[u] BY <1>1, <1>2, <1>4
<1>6. \A u : ~ OnTop(cstack', u) BY <1>1 DEF OnTop
<1>7. ~ Off(Callers, th)
  <2>1. Len(Callers) \in 1..Len(Callers) /\ th = Callers[Len(Callers)].L BY <1>2, ReadyFacts
  <2> QED BY <2>1 DEF Off
<1>8. ASSUME th \in Coroutines PROVE CoOK(cstack', from2, th) /\ Prog(from2) = Prog(lstate[th]) /\ View(from2, TRUE) = "running"
  <2>1. ~ Off(cstack, th) /\ ~ OnTop(cstack, th) BY <1>2, <1>3, <1>7
  <2>2. lstate[th].body = NoBody BY <1>1, <1>8, <2>1, CoBody DEF CoInv
  <2>3. lstate[th].status # "none" BY <1>1, <1>2, <2>1, OnState
  <2>4. from2.body = lstate[th].body /\ from2.status = lstate[th].status /\ Len(from2.ci) = Len(lstate[th].ci)
    BY <1>1 DEF Keeps, SameControl, SameCalls
  <2>5. from2 # NoState BY <2>3, <2>4, NoStateStatus
  <2>6. ~ Off(cstack', th) BY <1>1, <1>2, <1>7
  <2>7. CoOK(cstack', from2, th) BY <1>6, <2>2, <2>3, <2>4, <2>6, CoInside
  <2> QED BY <2>4, <2>5, <2>7 DEF View, Prog
<1>9. ASSUME NEW u \in Coroutines, u # L, u # th PROVE CoOK(cstack', lstate[u], u)
  <2>1. CoOK(cstack, lstate[u], u) /\ ~ OnTop(cstack, u) BY <1>1, <1>3, <1>9 DEF CoInv
  <2>2. Off(cstack', u) <=> Off(cstack, u) BY <1>1, <1>3, <1>4, <1>9
  <2> QED BY <1>6, <2>1, <2>2 DEF CoOK
<1>10. ASSUME CoOK(cstack', t2, L) PROVE CoInv'
  <2>1. ASSUME NEW u \in Coroutines PROVE CoOK(cstack', lstate'[u], u) BY <1>4, <1>5, <1>8, <1>9, <1>10
  <2> QED BY <2>1 DEF CoInv
<1>11. running = L /\ running' = th /\ waits = Pairs(cstack) /\ waits' = Pairs(cstack') /\ ended = FALSE /\ ended' = FALSE BY <1>1, Views, NextViews
<1>13. t2 # NoState BY NoStateStatus
<1>14. \A u \in Coroutines : status'[u] = IF u = th THEN "running" ELSE IF u = L THEN View(t2, FALSE) ELSE status[u]
  <2> SUFFICES ASSUME NEW u \in Coroutines
               PROVE  status'[u] = IF u = th THEN "running" ELSE IF u = L THEN View(t2, FALSE) ELSE status[u]
    OBVIOUS
  <2>1. th = Last(cstack').L BY <1>1
  <2>2. CASE u = th BY <1>1, <1>5, <1>8, <2>1, <2>2, NextStatusOf
  <2>3. CASE u = L BY <1>1, <1>2, <1>5, <2>1, <2>3, NextStatusOf
  <2>4. CASE u # th /\ u # L
    <3>1. lstate'[u] = lstate[u] BY <1>4, <1>5, <2>4
    <3>2. status'[u] = View(lstate[u], FALSE) BY <1>1, <2>1, <2>4, <3>1, NextStatusOf
    <3>3. status[u] = View(lstate[u], FALSE) BY <1>1, <2>4, StatusOf
    <3> QED BY <2>4, <3>2, <3>3
  <2> QED BY <2>2, <2>3, <2>4
<1>15. status' = [u \in Coroutines |-> status'[u]] /\ status = [u \in Coroutines |-> status[u]] BY <1>1, AreFunctions
<1>16. status' = AbstractCoroutines!Gets(AbstractCoroutines!Set(status, L, View(t2, FALSE)), th, "running")
  BY <1>2, <1>14, <1>15 DEF AbstractCoroutines!Set, AbstractCoroutines!Gets
<1>17. \A u \in Coroutines : progress'[u] = IF u = L THEN Prog(t2) ELSE progress[u]
  <2> SUFFICES ASSUME NEW u \in Coroutines PROVE progress'[u] = IF u = L THEN Prog(t2) ELSE progress[u]
    OBVIOUS
  <2>1. progress'[u] = Prog(lstate'[u]) /\ progress[u] = Prog(lstate[u]) BY <1>1, NextStatusOf, StatusOf
  <2>2. CASE u = th BY <1>2, <1>5, <1>8, <2>1, <2>2
  <2>3. CASE u = L BY <1>5, <2>1, <2>3
  <2>4. CASE u # th /\ u # L BY <1>4, <1>5, <2>1, <2>4
  <2> QED BY <2>2, <2>3, <2>4
<1>18. progress' = [u \in Coroutines |-> progress'[u]] /\ progress = [u \in Coroutines |-> progress[u]] BY <1>1, AreFunctions
<1>19. progress' = AbstractCoroutines!Set(progress, L, Prog(t2)) BY <1>2, <1>17, <1>18 DEF AbstractCoroutines!Set
<1>20. progress[L] = Prog(l) BY <1>1, <1>2, StatusOf DEF l
<1>21. Off(cstack', L) BY <1>1, <1>2, <1>4
<1> QED BY <1>1, <1>2, <1>3, <1>6, <1>10, <1>11, <1>16, <1>19, <1>20, <1>21

BodyEnds == cstack # <<>> /\ F.k = "resume" /\ F.n = Done
(* The body is not there any more, and has functions in progress or is over. *)
LEMMA EndOfBody ==
  ASSUME IInv, CoInv, BodyEnds
  PROVE  /\ l.body = NoBody /\ IsState(l) /\ l.status \in {"ok", "yield"} /\ Prog(l) \in {"inside", "over"} /\ L \in Coroutines
         /\ F.status # "ok" => l.status = "ok"
         /\ F.status = "ok" => Suspended(l) /\ (l.status = "ok" => l.base = Ci(l).base)
<1> USE DEF BodyEnds
<1>1. PICK th : th = F.from BY Zenon
<1>2. L \in Coroutines /\ AtResume(cstack, Len(cstack), l) BY <1>1, ResumeOver
<1>3. ~ Off(cstack, L) /\ OnTop(cstack, L) BY <1>1, LeavesCaller
<1>4. IsState(l) /\ F = cstack[Len(cstack)] /\ F = Last(cstack) BY IInvFacts
<1>5. CoOK(cstack, l, L) BY <1>2 DEF CoInv, l
<1>6. l.body = NoBody BY <1>3, <1>4, <1>5, CoBody
<1>7. l.status \in {"ok", "yield"} /\ (F.status # "ok" => l.status = "ok") /\ (F.status = "ok" => Suspended(l))
  BY <1>2, <1>4 DEF AtResume
<1>8. F.status = "ok" /\ l.status = "ok" => l.base = Ci(l).base BY <1>3, <1>4, <1>5, <1>7 DEF CoOK, Suspended
<1>9. Prog(l) \in {"inside", "over"} BY <1>6, <1>7 DEF Prog
<1> QED BY <1>2, <1>4, <1>6, <1>7, <1>8, <1>9

LEMMA SameProgress == ASSUME cstack # <<>>, L \in Coroutines, NEW p, p = progress[L] PROVE AbstractCoroutines!Set(progress, L, p) = progress
<1>1. progress = [u \in Coroutines |-> progress[u]] BY Views
<1> QED BY <1>1 DEF AbstractCoroutines!Set

(* It ends with an error, ...                                              *)
LEMMA DeadSimulated ==
  ASSUME IInv, CoInv, NEW th, NEW t2, NEW from2, Leaving(th, t2, from2), F.status # "ok",
         t2.status \in Errors, t2.body = l.body, Len(t2.ci) = Len(l.ci)
  PROVE  CoInv' /\ Simulated
<1>1. cstack # <<>> /\ BodyEnds BY DEF Leaving, BodyEnds
<1>2. l.body = NoBody /\ l.status = "ok" /\ Prog(l) \in {"inside", "over"} /\ L \in Coroutines BY <1>1, EndOfBody
<1>3. t2.status # "none" /\ t2.status # "ok" /\ t2.status # "yield" OBVIOUS
<1>4. CoOK(cstack', t2, L) BY <1>2, <1>3 DEF CoOK
<1>5. View(t2, FALSE) = "dead" BY <1>3, NoStateStatus DEF View, OffStatus
<1>6. Prog(t2) = Prog(l) BY <1>2, <1>3 DEF Prog
<1>7. /\ CoInv' /\ th \in Threads /\ running = L /\ running' = th /\ <<th, L>> \in waits /\ waits' = waits \ {<<th, L>>}
      /\ ended' = ended /\ ~ ended /\ progress' = AbstractCoroutines!Set(progress, L, Prog(l)) /\ progress[L] = Prog(l)
      /\ status' = AbstractCoroutines!Gets(AbstractCoroutines!Set(status, L, "dead"), th, "running")
  BY <1>3, <1>4, <1>5, <1>6, LeavingFacts
<1>8. progress' = progress BY <1>1, <1>2, <1>7, SameProgress
<1>9. AbstractCoroutines!End BY <1>2, <1>7, <1>8 DEF AbstractCoroutines!End, AbstractCoroutines!Leave, Threads
<1> QED BY <1>7, <1>9 DEF Simulated, AbstractCoroutines!Next
(* ... yields, ends with its results, or keeps them.                        *)
LEMMA DoneSimulated ==
  ASSUME IInv, CoInv, NEW th, NEW t2, NEW from2, Leaving(th, t2, from2), F.status = "ok",
         t2.status = l.status, t2.ci = l.ci, t2.base = l.base,
         t2.body # NoBody <=> l.status = "ok" /\ t2.top # t2.base
  PROVE  CoInv' /\ Simulated
<1>1. cstack # <<>> /\ BodyEnds BY DEF Leaving, BodyEnds
<1>2. /\ l.body = NoBody /\ IsState(l) /\ l.status \in {"ok", "yield"} /\ Suspended(l) /\ L \in Coroutines
      /\ l.status = "ok" => l.base = Ci(l).base
  BY <1>1, EndOfBody
<1>3. Off(cstack', L) /\ ~ OnTop(cstack', L) BY <1>2, LeavingFacts
<1>4. CoOK(cstack', t2, L) BY <1>2, <1>3 DEF CoOK, Ci
<1>5. /\ CoInv' /\ th \in Threads /\ running = L /\ running' = th /\ <<th, L>> \in waits /\ waits' = waits \ {<<th, L>>}
      /\ ended' = ended /\ ~ ended /\ progress' = AbstractCoroutines!Set(progress, L, Prog(t2)) /\ progress[L] = Prog(l)
      /\ status' = AbstractCoroutines!Gets(AbstractCoroutines!Set(status, L, View(t2, FALSE)), th, "running")
  BY <1>2, <1>4, LeavingFacts
<1>6. t2 # NoState BY <1>2, NoStateStatus
<1>7. CASE l.status = "yield"
  <2>1. Len(l.ci) > 2 /\ Len(l.ci) \in Nat BY <1>2, <1>7, FieldTypes DEF Suspended, Yielded
  <2>2. View(t2, FALSE) = "suspended" BY <1>6, <1>7 DEF View, OffStatus
  <2>3. Prog(t2) = "inside" /\ Prog(l) = "inside" BY <1>2, <1>7, <2>1 DEF Prog
  <2>4. progress' = progress BY <1>1, <1>2, <1>5, <2>3, SameProgress
  <2>5. AbstractCoroutines!Yield BY <1>2, <1>5, <2>2, <2>3, <2>4 DEF AbstractCoroutines!Yield, AbstractCoroutines!Leave, Threads
  <2> QED BY <1>5, <2>5 DEF Simulated, AbstractCoroutines!Next
<1>8. CASE l.status = "ok" /\ t2.top = t2.base
  <2>1. Len(l.ci) = 1 BY <1>2, <1>8 DEF Suspended
  <2>2. View(t2, FALSE) = "dead" BY <1>6, <1>8, <2>1 DEF View, OffStatus
  <2>3. Prog(t2) = "over" /\ Prog(l) = "over" BY <1>2, <1>8, <2>1 DEF Prog
  <2>4. progress' = progress BY <1>1, <1>2, <1>5, <2>3, SameProgress
  <2>5. AbstractCoroutines!End BY <1>2, <1>5, <2>2, <2>3, <2>4 DEF AbstractCoroutines!End, AbstractCoroutines!Leave, Threads
  <2> QED BY <1>5, <2>5 DEF Simulated, AbstractCoroutines!Next
<1>9. CASE l.status = "ok" /\ t2.top # t2.base
  <2>1. Len(l.ci) = 1 BY <1>2, <1>9 DEF Suspended
  <2>2. View(t2, FALSE) = "suspended" BY <1>6, <1>9, <2>1 DEF View, OffStatus
  <2>3. Prog(t2) = "new" /\ Prog(l) = "over" BY <1>2, <1>9, <2>1 DEF Prog
  <2>4. progress' = AbstractCoroutines!Set(progress, L, "new") BY <1>5, <2>3
  <2>5. AbstractCoroutines!Overflow
    BY <1>2, <1>5, <2>2, <2>3, <2>4 DEF AbstractCoroutines!Overflow, AbstractCoroutines!Leave, Threads
  <2> QED BY <1>5, <2>5 DEF Simulated, AbstractCoroutines!Next
<1> QED BY <1>2, <1>7, <1>8, <1>9

LEMMA EndResumeSimulated == ASSUME IInv, CoInv, EndResume PROVE CoInv' /\ Simulated
<1>1. PICK th : th = F.from OBVIOUS
<1>2. PICK from : from = lstate[th] OBVIOUS
<1>3. PICK t : t = [Unprotect(l, F) EXCEPT !.nCcalls = l.nCcalls - 1] BY Zenon
<1>4. PICK failed : failed = [luaD_seterrorobj(t, t.top) EXCEPT !.status = F.status] BY Zenon
<1>5. PICK n : n = l.top - l.base OBVIOUS
<1>6. PICK room : room = lua_checkstack(from, n + 1) OBVIOUS
<1>7. PICK dead : dead = [SetCiTop(failed, failed.top) EXCEPT !.top = failed.top - 1] BY Zenon
<1>8. /\ cstack # <<>> /\ F.k = "resume" /\ F.n = Done
      /\ \/ /\ F.status # "ok"
            /\ lstate' = [lstate EXCEPT ![L] = dead, ![th] = [from EXCEPT !.top = from.top + 1]]
            /\ cstack' = Callers
         \/ /\ F.status = "ok" /\ room.ok
            /\ lstate' = [lstate EXCEPT ![L] = [t EXCEPT !.top = t.top - n], ![th] = [room.t EXCEPT !.top = room.t.top + n]]
            /\ cstack' = Callers
         \/ /\ F.status = "ok" /\ ~ room.ok
            /\ \E fn \in NextBodies : lstate' = [lstate EXCEPT ![L] = [t EXCEPT !.body = fn], ![th] = incr_top(from)]
            /\ cstack' = Append(Callers, [k |-> "errormsg", L |-> th, called |-> FALSE])
  <2>1. cstack # <<>> /\ F.k = "resume" /\ F.n = Done BY DEF EndResume
  <2>2. CASE F.status # "ok" BY Zenon, <1>1, <1>2, <1>3, <1>4, <1>7, <2>1, <2>2 DEF EndResume
  <2>3. CASE F.status = "ok"
    <3>1. room = lua_checkstack(lstate[F.from], l.top - l.base + 1) BY <1>1, <1>2, <1>5, <1>6
    <3>2. CASE room.ok BY <1>1, <1>2, <1>3, <1>5, <2>1, <2>3, <3>1, <3>2 DEF EndResume
    <3>3. CASE ~ room.ok BY Zenon, <1>1, <1>2, <1>3, <2>1, <2>3, <3>1, <3>3 DEF EndResume
    <3> QED BY <3>2, <3>3
  <2> QED BY <2>1, <2>2, <2>3
<1>9. Ready(Callers, th, from) /\ Last(Callers).k \in CCode /\ th \in Threads /\ AtResume(cstack, Len(cstack), l)
  BY <1>1, <1>2, <1>8, ResumeOver
<1>10. /\ l.body = NoBody /\ IsState(l) /\ l.status \in {"ok", "yield"} /\ L \in Coroutines
       /\ F = cstack[Len(cstack)] /\ F \in Frames
  <2>1. BodyEnds BY <1>8 DEF BodyEnds
  <2> QED BY <1>8, <2>1, EndOfBody, IInvFacts
<1>11. t.status = l.status /\ t.body = l.body /\ t.ci = l.ci /\ t.top = l.top /\ t.base = l.base /\ IsState(t)
  <2>1. l.nCcalls >= 1 BY <1>9 DEF AtResume
  <2>2. PICK x : x = l.nCcalls - 1 OBVIOUS
  <2>3. x \in Nat BY <1>10, <2>1, <2>2, FieldTypes
  <2>4. F.previous \in Nat BY <1>8, <1>10, FrameTypes
  <2>5. PICK p \in Nat : p = F.previous BY <2>4
  <2>6. t = [l EXCEPT !.errorJmp = p, !.nCcalls = x] BY <1>3, <1>10, <2>2, <2>5 DEF Unprotect, IsState, LuaState
  <2> QED BY Zenon, <1>10, <2>3, <2>6 DEF IsState, LuaState
<1>12. IsState(from) BY <1>9, ReadyFacts
<1>13. n \in Int /\ n + 1 \in Int /\ t.top - n \in Int /\ from.top + 1 \in Int /\ t.top \in Int /\ t.top - n = t.base /\ t.base \in Int
  <2>1. l.top \in Int /\ l.base \in Int /\ t.top \in Int /\ from.top \in Int BY <1>10, <1>11, <1>12, FieldTypes
  <2> QED BY <1>5, <1>11, <2>1
<1>14. Backs(th, Callers) BY <1>9, BacksCallers
<1>15. CASE F.status # "ok"
  <2>1. PICK from2 : from2 = [from EXCEPT !.top = from.top + 1] BY Zenon
  <2>2. Keeps(from, from2) BY <1>12, <1>13, <2>1, SetTop
  <2>3. lstate' = [lstate EXCEPT ![L] = dead, ![th] = from2] /\ cstack' = Callers BY <1>8, <1>15, <2>1
  <2>4. Leaving(th, dead, from2) BY <1>1, <1>2, <1>8, <1>14, <2>2, <2>3 DEF Leaving
  <2>5. PICK s \in Errors : s = F.status BY <1>8, <1>10, <1>15, FrameTypes
  <2>6. PICK t1 : t1 = luaD_seterrorobj(t, t.top) OBVIOUS
  <2>7. Keeps(t, t1) /\ IsState(t1) BY <1>11, <1>13, <2>6, SeterrorobjKeeps DEF Keeps
  <2>8. failed = [t1 EXCEPT !.status = s] BY <1>4, <2>5, <2>6
  <2>9. IsState(failed) /\ failed.status = s /\ failed.ci = t1.ci /\ failed.body = t1.body
    <3>1. s \in Errors \cup {"ok", "yield", "none"} BY <2>5
    <3>2. IsState(failed) /\ failed.status = s /\ failed.ci = t1.ci BY Zenon, <2>7, <2>8, <3>1, SetStatus
    <3>3. failed.body = t1.body BY <2>7, <2>8 DEF IsState, LuaState
    <3> QED BY <3>2, <3>3
  <2>10. failed.top \in Int /\ failed.top - 1 \in Int BY <2>9, FieldTypes
  <2>11. PICK t3 : t3 = SetCiTop(failed, failed.top) OBVIOUS
  <2>12. Keeps(failed, t3) /\ IsState(t3) BY <2>9, <2>10, <2>11, SetCiTopKeeps DEF Keeps
  <2>13. Keeps(t3, dead) BY <1>7, <2>10, <2>11, <2>12, SetTop
  <2>14. dead.status \in Errors /\ dead.body = l.body /\ Len(dead.ci) = Len(l.ci)
    BY <1>11, <2>5, <2>7, <2>9, <2>12, <2>13 DEF Keeps, SameControl, SameCalls
  <2> QED BY <1>15, <2>4, <2>14, DeadSimulated
<1>16. CASE F.status = "ok" /\ room.ok
  <2>1. PICK t2, from2 : t2 = [t EXCEPT !.top = t.top - n] /\ from2 = [room.t EXCEPT !.top = room.t.top + n] BY Zenon
  <2>2. Keeps(from, room.t) /\ IsState(room.t) BY Zenon, <1>6, <1>12, <1>13, LuaCheckstackKeeps DEF Keeps
  <2>3. room.t.top + n \in Int
    <3>1. room.t.top \in Int BY <2>2, FieldTypes
    <3> QED BY <1>13, <3>1
  <2>4. Keeps(from, from2) BY <2>1, <2>2, <2>3, SetTop, KeepsTrans
  <2>5. lstate' = [lstate EXCEPT ![L] = t2, ![th] = from2] /\ cstack' = Callers BY <1>8, <1>16, <2>1
  <2>6. Leaving(th, t2, from2) BY <1>1, <1>2, <1>8, <1>14, <2>4, <2>5 DEF Leaving
  <2>7. t2.status = l.status /\ t2.ci = l.ci /\ t2.base = l.base /\ t2.body = NoBody /\ t2.top = t2.base
    <3>1. PICK x : x = t.top - n OBVIOUS
    <3>2. t2 = [t EXCEPT !.top = x] BY <2>1, <3>1
    <3>3. t2.status = t.status /\ t2.ci = t.ci /\ t2.base = t.base /\ t2.body = t.body /\ t2.top = x
      BY <1>11, <3>2 DEF IsState, LuaState
    <3> QED BY <1>10, <1>11, <1>13, <3>1, <3>3
  <2> QED BY <1>16, <2>6, <2>7, DoneSimulated
<1>17. CASE F.status = "ok" /\ ~ room.ok
  <2>1. PICK fn \in NextBodies : lstate' = [lstate EXCEPT ![L] = [t EXCEPT !.body = fn], ![th] = incr_top(from)]
    BY <1>8, <1>17
  <2>2. PICK t2, from2 : t2 = [t EXCEPT !.body = fn] /\ from2 = incr_top(from) OBVIOUS
  <2>3. fn \in Bodies /\ (fn # NoBody <=> l.status = "ok" /\ l.top # l.base)
    BY <1>10 DEF NextBodies, Bodies
  <2>4. t2.status = l.status /\ t2.ci = l.ci /\ t2.base = l.base /\ t2.body = fn /\ t2.top = l.top
    BY <1>11, <2>2, <2>3, SetBody
  <2>5. Keeps(from, from2) BY <1>12, <2>2, IncrTopKeeps
  <2>6. Backs(th, cstack') BY <1>8, <1>9, <1>17, BacksErrormsg
  <2>7. Leaving(th, t2, from2) BY <1>1, <1>2, <1>8, <2>1, <2>2, <2>5, <2>6 DEF Leaving
  <2> QED BY <1>17, <2>3, <2>4, <2>7, DoneSimulated
<1> QED BY <1>8, <1>15, <1>16, <1>17

(***************************************************************************)
(* All steps.                                                              *)
(***************************************************************************)
LEMMA UnchangedSimulated == ASSUME CoInv, UNCHANGED vars PROVE CoInv' /\ Simulated
<1>1. lstate' = lstate /\ cstack' = cstack BY DEF vars
<1>2. CoInv' BY <1>1 DEF CoInv
<1>3. progress' = progress /\ running' = running /\ waits' = waits /\ ended' = ended
  BY <1>1 DEF progress, running, waits, ended, L, F
<1>4. status' = status BY <1>1 DEF status, costatus, L, F
<1> QED BY <1>2, <1>3, <1>4 DEF Simulated, AbstractCoroutines!vars
LEMMA NextSimulated == ASSUME IInv, CoInv, [Next]_vars PROVE CoInv' /\ Simulated
<1>1. CASE UNCHANGED vars BY <1>1, UnchangedSimulated
<1>2. CASE Goes /\ OwnStep BY <1>2, GoesSimulated
<1>3. CASE EndResume \/ \E th \in Threads : CollectStack(th) BY <1>3, EndResumeSimulated, CollectSimulated
<1>4. CASE \E co \in Coroutines :
             \/ \E fn \in LuaFunctions : luaB_cocreate(co, fn)
             \/ \E n \in NArgs : ResumeOther(co, n) \/ luaB_coresume(co, n)
  BY <1>4, CocreateSimulated, ResumeOtherSimulated, CoresumeSimulated
<1> QED BY <1>1, <1>2, <1>3, <1>4, Steps
LEMMA InitSimulated == ASSUME Init PROVE CoInv /\ AbstractCoroutines!Init
<1>1. cstack = <<[k |-> "host", L |-> MainThread]>> /\ \A co \in Coroutines : lstate[co] = NoState
  BY LimitsAssumption DEF Init, Threads
<1>2. PICK f : f = [k |-> "host", L |-> MainThread] BY Zenon
<1>3. cstack # <<>> /\ F = f /\ L = MainThread /\ Len(cstack) = 1 /\ cstack[1] = f /\ f.k = "host"
  BY <1>1, <1>2 DEF F, L, Last
<1>4. NoState.status = "none" /\ NoState.body = NoBody
  BY NewStateTypes DEF NoState, IsState, LuaState, NewState
<1>5. CoInv BY <1>1, <1>4 DEF CoInv, CoOK
<1>6. status = [co \in Coroutines |-> "none"] BY <1>1, <1>3 DEF status
<1>7. progress = [co \in Coroutines |-> "new"] BY <1>1, <1>4, ProgressView DEF Prog
<1>8. running = MainThread /\ ended = FALSE BY <1>3 DEF running, ended
<1>9. waits = {}
  <2>1. \A i \in DOMAIN cstack : cstack[i].k = "host" BY <1>1
  <2> QED BY <2>1 DEF waits
<1> QED BY <1>5, <1>6, <1>7, <1>8, <1>9 DEF AbstractCoroutines!Init

(* The C stack, the CallInfo lists and the tops of ldo.c implement the      *)
(* coroutines of the manual: every step of the program is one that a        *)
(* machine takes which knows only who has resumed whom and which bodies are *)
(* over, or it changes nothing that coroutine.status and coroutine.running  *)
(* tell (luaB_costatus, lua_resume, lua_yield, resume_error).               *)
THEOREM CoroutinesImplemented == Spec => ImplementsCoroutines
<1>1. Init => CoInv /\ AbstractCoroutines!Init BY InitSimulated
<1>2. IInv /\ CoInv /\ [Next]_vars => CoInv' /\ [AbstractCoroutines!Next]_(AbstractCoroutines!vars)
  BY NextSimulated DEF Simulated
<1> QED BY <1>1, <1>2, CStackInvariant, PTL DEF Spec, ImplementsCoroutines, AbstractCoroutines!Spec

=============================================================================
