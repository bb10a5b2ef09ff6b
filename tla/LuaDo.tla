------------------------------- MODULE LuaDo -------------------------------
(***************************************************************************)
(* Calls, errors and coroutines: ldo.c, with the operations of lapi.c,     *)
(* lvm.c, ldebug.c and lbaselib.c that enter and leave functions.          *)
(*                                                                         *)
(* The state has the two stacks that have to agree.  Each lua_State has    *)
(* its list of CallInfo and its stack, of which the values are left out    *)
(* and the positions kept.  The C stack, one for all of them, is cstack:   *)
(* its last frame is the C function that runs, and every other frame waits *)
(* for the one above it.  A C function of the library is one frame where   *)
(* what it has still to do when its callee returns (or is unwound by a     *)
(* longjmp) matters:                                                       *)
(*   host      the program that embeds Lua, at the base of the main thread *)
(*   cfunc     a C function called by Lua, in its own CallInfo             *)
(*   execute   luaV_execute                                                *)
(*   call      luaD_call                                                   *)
(*   pcall     luaD_pcall, where luaD_throw lands                          *)
(*   resume    lua_resume within auxresume, where luaD_throw lands too     *)
(*   errormsg  luaG_errormsg                                               *)
(*   hook      luaD_callhook, with the hook that it calls                  *)
(*   poscall   luaD_poscall while it waits for a hook                      *)
(* What C functions and hooks do is not fixed: they call, fail, yield and  *)
(* return as they like, within the rules of the API.                       *)
(*                                                                         *)
(* A pointer into a stack is an address.  A reallocation moves the stack   *)
(* to the other one of two blocks, so a pointer that was not corrected     *)
(* shows.  What the code keeps across calls as an offset (savestack) is an *)
(* offset here.                                                            *)
(***************************************************************************)
EXTENDS Integers, Sequences, FiniteSets, SequencesExt, FiniteSetsExt

CONSTANTS
  Coroutines, MainThread,
  LUAI_MAXCCALLS,   (* limit of nested C calls ...                         *)
  ErrorCCalls,      (* ... and the room beyond it to handle that error     *)
  LUAI_MAXCALLS,    (* limit of the CallInfo list                          *)
  LUAI_MAXCSTACK,   (* limit of the values of a C function                 *)
  BASIC_CI_SIZE, LUA_MINSTACK, EXTRA_STACK,
  LuaFunctions,     (* [kind |-> "lua", numparams, is_vararg, maxstacksize] *)
  Handlers,         (* the values that may be error handlers               *)
  NArgs, NResults,  (* how many arguments and results calls use            *)
  Programs          (* what each program uses besides plain calls and      *)
                    (* errors: a set of the names below                    *)

Threads == Coroutines \cup {MainThread}
LUA_MULTRET == -1
CFunction == [kind |-> "c"]
NotFunction == [kind |-> "other"]
NoBody == [kind |-> "called"]     (* the body of a coroutine has been called *)
NoHandler == [kind |-> "none"]
(* An object with a metamethod __call that is a function.                   *)
Callable(f) == [kind |-> "callable", tm |-> f]
(* What a coroutine calls when it is resumed.                               *)
Bodies == LuaFunctions \cup {NotFunction, NoBody}
ASSUME LimitsAssumption ==
  /\ MainThread \notin Coroutines
  /\ LUAI_MAXCCALLS \in Nat \ {0} /\ ErrorCCalls \in Nat /\ LUAI_MAXCSTACK \in Nat \ {0}
  /\ BASIC_CI_SIZE \in Nat \ {0} /\ LUAI_MAXCALLS \in Nat /\ BASIC_CI_SIZE <= LUAI_MAXCALLS
  /\ LUA_MINSTACK \in Nat \ {0, 1}
  /\ EXTRA_STACK \in Nat /\ EXTRA_STACK >= 4    (* callTM pushes four values *)
  /\ NArgs \subseteq Nat /\ NResults \subseteq Nat \cup {LUA_MULTRET}
(* What matters of a handler that is no function is that it is none.        *)
ASSUME HandlersAssumption == Handlers \subseteq LuaFunctions \cup {CFunction, NotFunction}
ASSUME FunctionsAssumption ==
  \A p \in LuaFunctions :
    p.kind = "lua" /\ p.numparams \in Nat /\ p.is_vararg \in BOOLEAN
      /\ p.maxstacksize \in Nat \ {0, 1} /\ p.numparams <= p.maxstacksize

VARIABLES
  uses,      (* the program, which does not change                         *)
  lstate,    (* the lua_State of each thread, or NoState                   *)
  cstack     (* the C stack; empty once the program has exited             *)

vars == <<uses, lstate, cstack>>

Functions == {p \in LuaFunctions : p.is_vararg => "vararg" \in uses} \cup {CFunction}
Values == Functions \cup {NotFunction}
            \cup (IF "callable" \in uses THEN {Callable(f) : f \in Functions} ELSE {})

F == Last(cstack)                 (* the C function that runs ...           *)
L == F.L                          (* ... its thread ...                    *)
l == lstate[L]                    (* ... and the state of that             *)
Callers == Front(cstack)

(***************************************************************************)
(* The stack and the CallInfo list of a thread t.                          *)
(***************************************************************************)
Done == -1                        (* resume has started                     *)
Block == 1000                     (* between the two places for a stack    *)
stack_last(t) == t.stack + t.stacksize - EXTRA_STACK - 1
savestack(t, p) == p - t.stack
restorestack(t, n) == t.stack + n
Ci(t) == Last(t.ci)
SetCiTop(t, top) == [t EXCEPT !.ci = [t.ci EXCEPT ![Len(t.ci)] = [Ci(t) EXCEPT !.top = top]]]
f_isLua(ci) == ci.func.fn.kind = "lua"

correctstack(t, stack) ==
  LET moved(p) == (p - t.stack) + stack
      movedci(ci) == [func |-> [at |-> moved(ci.func.at), fn |-> ci.func.fn], base |-> moved(ci.base),
                      top |-> moved(ci.top), nresults |-> ci.nresults]
  IN  [t EXCEPT !.stack = stack, !.top = moved(t.top), !.base = moved(t.base),
                !.openupval = {moved(p) : p \in t.openupval},
                !.ci = [i \in DOMAIN t.ci |-> movedci(t.ci[i])]]
luaD_reallocstack(t, newsize) ==
  [correctstack(t, Block - t.stack) EXCEPT !.stacksize = newsize + 1 + EXTRA_STACK]
luaD_growstack(t, n) ==
  luaD_reallocstack(t, IF n <= t.stacksize THEN 2 * t.stacksize ELSE t.stacksize + n)
luaD_checkstack(t, n) == IF stack_last(t) - t.top <= n THEN luaD_growstack(t, n) ELSE t
incr_top(t) == [luaD_checkstack(t, 1) EXCEPT !.top = @ + 1]
CloseAbove(t, level) == [t EXCEPT !.openupval = {p \in t.openupval : p <= level}]
luaF_close(t, level) == [t EXCEPT !.openupval = {p \in t.openupval : p < level}]

NoErrFunc == [at |-> 0, fn |-> NotFunction]
NewState ==
  LET first == [func |-> [at |-> 0, fn |-> NotFunction], base |-> 1, top |-> 1 + LUA_MINSTACK,
                nresults |-> 0]
  IN  [stack |-> 0, stacksize |-> 2 * LUA_MINSTACK + EXTRA_STACK, top |-> 1, base |-> 1,
       ci |-> <<first>>, size_ci |-> BASIC_CI_SIZE, nCcalls |-> 0, baseCcalls |-> 0,
       status |-> "ok", errfunc |-> NoErrFunc, allowhook |-> TRUE, openupval |-> {},
       errorJmp |-> 0, body |-> NoBody]
NoState == [NewState EXCEPT !.status = "none"]

(***************************************************************************)
(* The steps: thread th gets the state t, and the C stack becomes cs.      *)
(***************************************************************************)
Become(th, t, cs) == lstate' = [lstate EXCEPT ![th] = t] /\ cstack' = cs /\ UNCHANGED uses
Push(cs, k, th) == Append(cs, [k |-> k, L |-> th])
Execute(th, nexeccalls, t) ==
  [k |-> "execute", L |-> th, nexeccalls |-> nexeccalls, base |-> t.base]
Reload(frame, t) == IF frame.k = "execute" THEN [frame EXCEPT !.base = t.base] ELSE frame
Reloaded(cs, t) == Append(Front(cs), Reload(Last(cs), t))

luaD_seterrorobj(t, oldtop) == [t EXCEPT !.top = oldtop + 1]

restore_stack_limit(t) ==
  IF t.size_ci > LUAI_MAXCALLS /\ Len(t.ci) < LUAI_MAXCALLS
  THEN [t EXCEPT !.size_ci = LUAI_MAXCALLS] ELSE t

(* What the panic function finds.                                          *)
resetstack(t) ==
  LET first == t.ci[1]
      t1 == luaD_seterrorobj(luaF_close(t, first.base), first.base)
  IN  restore_stack_limit([t1 EXCEPT !.ci = <<first>>, !.base = first.base, !.errorJmp = 0,
                                     !.nCcalls = t.baseCcalls, !.allowhook = TRUE,
                                     !.errfunc = NoErrFunc])
(* luaD_rawrunprotected: the chain of long jump buffers.                    *)
LeaveChained(t, frame) == t
Unprotect(t, frame) == [t EXCEPT !.errorJmp = frame.previous]
(* luaD_throw: the longjmp to the last protected call of the thread, or     *)
(* the end of the program.                                                 *)
luaD_throw(th, t, cs, errcode) ==
  IF t.errorJmp # 0
  THEN Become(th, t, [SubSeq(cs, 1, t.errorJmp) EXCEPT ![t.errorJmp].status = errcode])
  ELSE Become(th, resetstack([t EXCEPT !.status = errcode]), <<>>)

(* luaG_runerror up to its call of luaG_errormsg: the message is pushed,    *)
(* and once more with the line in front of it.                             *)
luaG_runerror(th, t, cs) ==
  Become(th, IF f_isLua(Ci(t)) THEN incr_top(incr_top(t)) ELSE incr_top(t),
         Append(cs, [k |-> "errormsg", L |-> th, called |-> FALSE]))

luaD_callhook(t) ==
  LET t1 == luaD_checkstack(t, LUA_MINSTACK)
  IN  [SetCiTop(t1, t1.top + LUA_MINSTACK) EXCEPT !.allowhook = FALSE]
HookFrame(th, t, then) ==
  [k |-> "hook", L |-> th, top |-> savestack(t, t.top), ci_top |-> savestack(t, Ci(t).top),
   then |-> then]
(* The step to t and cs, or to the hook for the call before it.              *)
WithCallHook(th, t, cs) ==
  \/ Become(th, t, cs)
  \/ /\ "call hook" \in uses /\ t.allowhook
     /\ Become(th, luaD_callhook(t), Append(cs, HookFrame(th, t, "call")))

(***************************************************************************)
(* luaD_precall of the function fn at the offset func: the result is the   *)
(* state in which the function has been entered, or in which the call      *)
(* fails.                                                                  *)
(***************************************************************************)
(* inc_ci and growCI: the list has room, gets it, or overflows.            *)
inc_ci(t, ci) ==
  LET grown == [t EXCEPT !.size_ci = 2 * @]
  IN  CASE Len(t.ci) < t.size_ci -> [result |-> "entered", t |-> [t EXCEPT !.ci = Append(@, ci)]]
        [] Len(t.ci) = t.size_ci /\ t.size_ci > LUAI_MAXCALLS -> [result |-> "errerr", t |-> t]
        [] Len(t.ci) = t.size_ci /\ grown.size_ci > LUAI_MAXCALLS ->
             [result |-> "runerror", t |-> grown]
        [] OTHER -> [result |-> "entered", t |-> [grown EXCEPT !.ci = Append(@, ci)]]

(* The base of the frame and the top with the parameters in place.         *)
adjust_params(t, func, p) ==
  LET base == restorestack(t, func) + 1
      actual == t.top - base
      filled == IF actual < p.numparams THEN t.top + (p.numparams - actual) ELSE t.top
  IN  IF p.is_vararg THEN [base |-> filled, top |-> filled + p.numparams]
      ELSE [base |-> base, top |-> IF actual > p.numparams THEN base + p.numparams ELSE t.top]

PrecallLua(t, func, p, nresults) ==
  LET t1 == luaD_checkstack(t, p.maxstacksize)
      a == adjust_params(t1, func, p)
      ci == [func |-> [at |-> restorestack(t1, func), fn |-> p], base |-> a.base,
             top |-> a.base + p.maxstacksize, nresults |-> nresults]
      r == inc_ci([t1 EXCEPT !.top = a.top], ci)
  IN  IF r.result = "entered" THEN [r EXCEPT !.t.base = ci.base, !.t.top = ci.top] ELSE r

PrecallC(t, func, nresults) ==
  LET t1 == luaD_checkstack(t, LUA_MINSTACK)
      at == restorestack(t1, func)
      ci == [func |-> [at |-> at, fn |-> CFunction], base |-> at + 1,
             top |-> t1.top + LUA_MINSTACK, nresults |-> nresults]
      r == inc_ci(t1, ci)
  IN  IF r.result = "entered" THEN [r EXCEPT !.t.base = ci.base] ELSE r

luaD_precall(t, func, fn, nresults) ==
  LET f == IF fn.kind = "callable" THEN fn.tm ELSE fn
      t1 == IF fn.kind = "callable" THEN incr_top(t) ELSE t     \* tryfuncTM
  IN  CASE f.kind = "lua" -> PrecallLua(t1, func, f, nresults)
        [] f.kind = "c" -> PrecallC(t1, func, nresults)
        [] OTHER -> [result |-> "runerror", t |-> t]            \* luaG_typeerror

(* What follows luaD_precall when it fails, and otherwise runs the function *)
(* with the C stack cs, after its hook.                                    *)
Enter(th, r, callers, cs) ==
  CASE r.result = "entered" -> WithCallHook(th, r.t, cs)
    [] r.result = "runerror" -> luaG_runerror(th, r.t, callers)
    [] r.result = "errerr" -> luaD_throw(th, r.t, callers, "errerr")

EnterNew(th, r, callers) ==
  Enter(th, r, callers,
        IF f_isLua(Ci(r.t)) THEN Append(callers, Execute(th, 1, r.t)) ELSE Push(callers, "cfunc", th))

luaD_call(th, t, callers, func, fn, nresults) ==
  LET t1 == [t EXCEPT !.nCcalls = @ + 1]
      cs == Append(callers, [k |-> "call", L |-> th, nresults |-> nresults])
  IN  CASE t1.nCcalls = LUAI_MAXCCALLS -> luaG_runerror(th, t1, cs)
        [] t1.nCcalls >= LUAI_MAXCCALLS + ErrorCCalls /\ t1.nCcalls # LUAI_MAXCCALLS ->
             luaD_throw(th, t1, cs, "errerr")
        [] OTHER -> EnterNew(th, luaD_precall(t1, func, fn, nresults), cs)

(* luaD_poscall after its hook: the results from the offset first on go to  *)
(* where the function was.                                                 *)
luaD_poscall(t, first) ==
  LET ci == Ci(t)
      n == t.top - restorestack(t, first)
      wanted == IF ci.nresults = LUA_MULTRET THEN n ELSE ci.nresults
      rest == Front(t.ci)
  IN  [t EXCEPT !.ci = rest, !.base = Last(rest).base, !.top = ci.func.at + wanted]

(* luaV_execute for all the Lua functions of a coroutine that is resumed.   *)
ContinueLast(th, t) == Execute(th, 1, t)
Continue(th, t) == Execute(th, Len(t.ci) - 1, t)
(* What luaD_poscall's caller does next, once the function that was called  *)
(* has given its results: OP_RETURN goes on in the same luaV_execute or    *)
(* returns from it, OP_CALL goes on, and resume restarts luaV_execute.     *)
AfterPosCall(th, t, first, cs, lua) ==
  LET g == Last(cs)
      t1 == luaD_poscall(t, first)
      t2 == IF Ci(t).nresults # LUA_MULTRET THEN [t1 EXCEPT !.top = Ci(t1).top] ELSE t1
  IN  CASE lua /\ g.nexeccalls = 1 -> Become(th, t1, Front(cs))
        [] lua /\ g.nexeccalls > 1 ->
             Become(th, t2, Append(Front(cs), Execute(th, g.nexeccalls - 1, t2)))
        [] ~ lua /\ g.k = "execute" -> Become(th, t2, Reloaded(cs, t2))
        [] ~ lua /\ g.k = "resume" -> Become(th, t2, Append(cs, Continue(th, t2)))
        [] OTHER -> Become(th, t1, cs)

Return(th, t, n, cs, lua) ==
  LET first == savestack(t, t.top - n)
  IN  \/ AfterPosCall(th, t, first, cs, lua)
      \/ /\ "return hook" \in uses /\ t.allowhook         \* callrethooks
         /\ Become(th, luaD_callhook(t),
                   cs \o <<[k |-> "poscall", L |-> th, first |-> first, lua |-> lua],
                           HookFrame(th, t, "return")>>)

(***************************************************************************)
(* Lua code: luaV_execute with its local copy of the base.                 *)
(***************************************************************************)
InLua == cstack # <<>> /\ F.k = "execute"
(* An instruction has left an open number of values, which the next one uses. *)
IsOpen == l.top # Ci(l).top
(* The top once the operands of a call are in place: its function and n     *)
(* arguments in the last registers, or with the open values as arguments.  *)
CallSites ==
  IF IsOpen THEN {<<F.base, l.top>>}
  ELSE {<<F.base + m - 1 - n, F.base + m>> : m \in {Ci(l).func.fn.maxstacksize}, n \in NArgs}

OP_CALL(fn, nresults) ==
  /\ InLua
  /\ \E site \in CallSites :
       /\ F.base <= site[1] /\ site[1] < site[2]
       /\ LET t == [l EXCEPT !.top = site[2]]
              r == luaD_precall(t, savestack(t, site[1]), fn, nresults)
          IN  Enter(L, r, cstack,
                    IF f_isLua(Ci(r.t)) /\ r.result = "entered"
                    THEN Append(Callers, Execute(L, F.nexeccalls + 1, r.t))
                    ELSE Push(cstack, "cfunc", L))

(* The new frame takes the place of the previous one.                       *)
MoveFrameDown(t) ==
  LET n == Len(t.ci)
      prev == t.ci[n - 1]
      new == t.ci[n]
      t1 == luaF_close(t, prev.base)
      base == prev.func.at + (new.base - new.func.at)
      top == prev.func.at + (t.top - new.func.at)
  IN  [t1 EXCEPT !.base = base, !.top = top,
                 !.ci = Append(SubSeq(t.ci, 1, n - 2),
                               [prev EXCEPT !.func.fn = new.func.fn, !.base = base, !.top = top])]

OP_TAILCALL(fn) ==
  /\ InLua
  /\ \E site \in CallSites :
       /\ F.base <= site[1] /\ site[1] < site[2]
       /\ LET t == [l EXCEPT !.top = site[2]]
              r == luaD_precall(t, savestack(t, site[1]), fn, LUA_MULTRET)
              moved == MoveFrameDown(r.t)
          IN  IF r.result # "entered" \/ ~ f_isLua(Ci(r.t))
              THEN Enter(L, r, cstack, Push(cstack, "cfunc", L))
              ELSE \/ Become(L, moved, Reloaded(cstack, moved))
                   \/ /\ "call hook" \in uses /\ l.allowhook
                      /\ Become(L, luaD_callhook(r.t),
                                Append(cstack, HookFrame(L, r.t, "tailcall")))

OP_RETURN(n) ==
  /\ InLua
  /\ LET top == IF IsOpen THEN l.top ELSE F.base + n
     IN  /\ F.base <= top
         /\ Return(L, [luaF_close(l, F.base) EXCEPT !.top = top], top - F.base, cstack, TRUE)

(* A metamethod: callTMres, or callTM, which wants no result.               *)
Metamethod(fn, nresults) ==
  /\ "metamethod" \in uses /\ InLua /\ ~ IsOpen
  /\ LET n == 4 - nresults
         t == [luaD_checkstack(l, n) EXCEPT !.top = @ + n]
     IN  luaD_call(L, t, cstack, savestack(t, t.top - n), fn, nresults)

(* OP_VARARG with an open number of results, and OP_SETLIST, which uses one. *)
OP_VARARG ==
  /\ InLua /\ ~ IsOpen /\ Ci(l).func.fn.is_vararg
  /\ LET n == (Ci(l).base - Ci(l).func.at) - Ci(l).func.fn.numparams - 1
         t == luaD_checkstack(l, n)
     IN  Become(L, [t EXCEPT !.top = t.base + n], Reloaded(cstack, t))
OP_SETLIST == InLua /\ IsOpen /\ Become(L, [l EXCEPT !.top = Ci(l).top], cstack)

(* OP_CLOSURE captures a local variable; OP_CLOSE ends its scope.           *)
OP_CLOSURE ==
  /\ "upvalue" \in uses /\ InLua /\ ~ IsOpen
  /\ Become(L, [l EXCEPT !.openupval = @ \cup {F.base}], cstack)
OP_CLOSE == InLua /\ ~ IsOpen /\ Become(L, luaF_close(l, F.base), cstack)

(* An instruction fails.                                                    *)
LuaError == InLua /\ luaG_runerror(L, l, cstack)

(* traceexec calls the hook for a line or a count.                          *)
traceexec ==
  /\ InLua /\ "count hook" \in uses /\ l.allowhook
  /\ Become(L, luaD_callhook(l), Append(cstack, HookFrame(L, l, "count")))

(***************************************************************************)
(* C code: a C function, a hook or the host, with the API.                 *)
(***************************************************************************)
InC == cstack # <<>> /\ F.k \in {"host", "cfunc", "hook"}
floor == IF F.k = "hook" THEN restorestack(l, F.top) ELSE l.base
(* The C code has left n values on its part of the stack (lua_settop,       *)
(* lua_push...), which the API allows up to the top of the CallInfo.       *)
CanPush(n) == InC /\ floor + n <= Ci(l).top
WithValues(n) == [l EXCEPT !.top = floor + n]

lua_checkstack(t, size) ==
  IF size > LUAI_MAXCSTACK \/ t.top - t.base + size > LUAI_MAXCSTACK
  THEN [ok |-> FALSE, t |-> t]
  ELSE LET t1 == IF size > 0 THEN luaD_checkstack(t, size) ELSE t
       IN  [ok |-> TRUE,
            t |-> IF size > 0 /\ Ci(t1).top < t1.top + size
                  THEN SetCiTop(t1, t1.top + size) ELSE t1]

adjustresults(t, nresults) ==
  IF nresults = LUA_MULTRET /\ t.top >= Ci(t).top THEN SetCiTop(t, t.top) ELSE t

lua_call(fn, n, nresults) ==
  /\ CanPush(n + 1)
  /\ luaD_call(L, WithValues(n + 1), cstack, savestack(l, floor), fn, nresults)

PcallFrame(t, nresults, old_top) ==
  [k |-> "pcall", L |-> L, status |-> "ok", old_top |-> old_top, ci |-> Len(t.ci),
   nCcalls |-> t.nCcalls, allowhook |-> t.allowhook, errfunc |-> t.errfunc, previous |-> t.errorJmp,
   nresults |-> nresults]
HandlerAddress(handler) == [at |-> floor, fn |-> handler]
SavedHandler(handler) == [at |-> savestack(l, floor), fn |-> handler]
(* luaD_pcall up to the call of f_call; the handler, if there is one, is the *)
(* first value of the C code.                                              *)
lua_pcall(fn, n, nresults, handler) ==
  LET below == IF handler = NoHandler THEN 0 ELSE 1
      errfunc == IF handler = NoHandler THEN NoErrFunc ELSE SavedHandler(handler)
      func == savestack(l, floor + below)
      t == WithValues(below + n + 1)
  IN  /\ "pcall" \in uses /\ CanPush(below + n + 1)
      /\ luaD_call(L, [t EXCEPT !.errfunc = errfunc, !.errorJmp = Len(cstack) + 1],
                   Append(cstack, PcallFrame(t, nresults, func)), func, fn, nresults)

(* lua_cpcall: f_Ccall pushes the function and its argument itself.         *)
lua_cpcall ==
  /\ "cpcall" \in uses /\ CanPush(2)
  /\ luaD_call(L, [WithValues(2) EXCEPT !.errfunc = NoErrFunc, !.errorJmp = Len(cstack) + 1],
               Append(cstack, PcallFrame(l, 0, savestack(l, floor))), savestack(l, floor),
               CFunction, 0)

lua_error ==
  /\ CanPush(1)
  /\ Become(L, WithValues(1), Append(cstack, [k |-> "errormsg", L |-> L, called |-> FALSE]))

(* An allocation fails, in C code or in an instruction.                     *)
MemoryError ==
  "memory" \in uses /\ (InLua \/ InC) /\ luaD_throw(L, l, cstack, "errmem")

(* A C function returns its n topmost values.                               *)
CReturn(n) == InC /\ F.k = "cfunc" /\ n <= l.top - l.base /\ Return(L, l, n, Callers, FALSE)

MayYield(t) == t.nCcalls <= t.baseCcalls
(* ... or the n values of lua_yield: luaD_precall, and luaV_execute if the  *)
(* call is one of its instructions, return at once.                        *)
lua_yield(n) ==
  /\ InC /\ F.k = "cfunc" /\ n <= l.top - l.base
  /\ IF ~ MayYield(l) THEN luaG_runerror(L, l, cstack)
     ELSE Become(L, [l EXCEPT !.base = l.top - n, !.status = "yield"],
                 IF Last(Callers).k = "execute" THEN Front(Callers) ELSE Callers)

(***************************************************************************)
(* Coroutines (lbaselib.c).                                                *)
(***************************************************************************)
Statuses == {"running", "suspended", "normal", "dead"}
FinishedSuspended(co) ==
  CASE co = L -> "running"
    [] co # L /\ lstate[co].status = "yield" -> "suspended"
    [] co # L /\ lstate[co].status = "ok" ->
         IF Len(lstate[co].ci) > 1 THEN "normal" ELSE "suspended"
    [] OTHER -> "dead"
costatus(co) ==
  CASE co = L -> "running"
    [] co # L /\ lstate[co].status = "yield" -> "suspended"
    [] co # L /\ lstate[co].status = "ok" ->
         IF Len(lstate[co].ci) > 1 THEN "normal"                       \* lua_getstack
         ELSE IF lstate[co].top = lstate[co].base THEN "dead" ELSE "suspended"
    [] OTHER -> "dead"

luaB_cocreate(co, fn) ==
  /\ co \in uses /\ InC /\ lstate[co] = NoState
  /\ Become(co, [NewState EXCEPT !.top = @ + 1, !.body = fn], cstack)

(* auxresume of a coroutine that is not suspended, with n arguments: there  *)
(* is room for them before the status is looked at, and the message stays  *)
(* on the stack of the caller.                                             *)
ResumeOther(co, n) ==
  LET mine == WithValues(n + 1)
      room == lua_checkstack(IF co = L THEN mine ELSE lstate[co], n)
  IN  /\ InC /\ lstate[co] # NoState /\ costatus(co) # "suspended" /\ CanPush(n + 1)
      /\ IF ~ room.ok THEN luaG_runerror(L, mine, cstack)
         ELSE /\ lstate' = [lstate EXCEPT
                   ![L] = [IF co = L THEN room.t ELSE mine EXCEPT !.top = @ - n],
                   ![co] = IF co = L THEN [room.t EXCEPT !.top = @ - n] ELSE room.t]
              /\ UNCHANGED <<uses, cstack>>

(* The message of resume_error goes to the caller.                          *)
resume_error(t) == [incr_top([t EXCEPT !.top = Ci(t).base]) EXCEPT !.top = @ - 1]
lua_setlevel(from, to) == [to EXCEPT !.nCcalls = from.nCcalls]
(* auxresume and lua_resume of a suspended one: coroutine.resume has it as  *)
(* its first value, and n arguments.                                       *)
luaB_coresume(co, n) ==
  LET room == lua_checkstack(lstate[co], n)
      t == lua_setlevel(l, [room.t EXCEPT !.top = @ + n])            \* lua_xmove
  IN  /\ InC /\ lstate[co] # NoState /\ costatus(co) = "suspended" /\ CanPush(n + 1)
      /\ IF ~ room.ok THEN luaG_runerror(L, WithValues(n + 1), cstack)
         ELSE IF t.nCcalls >= LUAI_MAXCCALLS
         THEN /\ lstate' = [lstate EXCEPT ![co] = resume_error(t), ![L] = WithValues(2)]
              /\ UNCHANGED <<uses, cstack>>
         ELSE /\ lstate' = [lstate EXCEPT
                   ![co] = [t EXCEPT !.nCcalls = @ + 1, !.baseCcalls = t.nCcalls + 1,
                                     !.errorJmp = Len(cstack) + 1],
                   ![L] = WithValues(1)]
              /\ cstack' = Append(cstack, [k |-> "resume", L |-> co, from |-> L, status |-> "ok",
                                           previous |-> t.errorJmp, n |-> n])
              /\ UNCHANGED uses

(* The protected part of lua_resume.                                       *)
resume ==
  LET firstArg == l.top - F.n
      cs == Append(Callers, [F EXCEPT !.n = Done])
      t == [l EXCEPT !.status = "ok"]
  IN  /\ cstack # <<>> /\ F.k = "resume" /\ F.n # Done
      /\ CASE l.status = "ok" ->
                EnterNew(L, luaD_precall([l EXCEPT !.body = NoBody],
                                         savestack(l, firstArg - 1), l.body, LUA_MULTRET), cs)
           [] l.status = "yield" -> Return(L, t, F.n, cs, FALSE)

(* The rest of lua_resume and of auxresume: values or the message go to the *)
(* one that resumed.  A coroutine that has ended but whose results are too  *)
(* many keeps them: for costatus it has not started, and the next resume    *)
(* calls the last of them (if that is a C function is left out here).       *)
NextBodies ==
  IF l.status = "ok" /\ l.top # l.base THEN Bodies \ {NoBody} ELSE {l.body}
EndResume ==
  LET from == lstate[F.from]
      t == [Unprotect(l, F) EXCEPT !.nCcalls = l.nCcalls - 1]
      failed == [luaD_seterrorobj(t, t.top) EXCEPT !.status = F.status]
      n == l.top - l.base
      room == lua_checkstack(from, n + 1)
  IN  /\ cstack # <<>> /\ F.k = "resume" /\ F.n = Done /\ UNCHANGED uses
      /\ CASE F.status # "ok" ->
                /\ lstate' = [lstate EXCEPT
                     ![L] = [SetCiTop(failed, failed.top) EXCEPT !.top = failed.top - 1],
                     ![F.from] = [from EXCEPT !.top = @ + 1]]
                /\ cstack' = Callers
           [] F.status = "ok" /\ room.ok ->
                /\ lstate' = [lstate EXCEPT ![L] = [t EXCEPT !.top = @ - n],
                                            ![F.from] = [room.t EXCEPT !.top = @ + n]]
                /\ cstack' = Callers
           [] F.status = "ok" /\ ~ room.ok ->                    \* too many results to resume
                /\ \E fn \in NextBodies :
                     lstate' = [lstate EXCEPT ![L] = [t EXCEPT !.body = fn], ![F.from] = incr_top(from)]
                /\ cstack' = Append(Callers, [k |-> "errormsg", L |-> F.from, called |-> FALSE])

(***************************************************************************)
(* What C functions of the library do when their callee is done.           *)
(***************************************************************************)
(* luaC_checkGC may shrink the stack that it traverses (checkstacksizes).   *)
Shrunk(t) ==
  LET lim == Max({t.top} \cup {t.ci[i].top : i \in DOMAIN t.ci})
      t1 == IF 4 * (Len(t.ci) - 1) < t.size_ci /\ 2 * BASIC_CI_SIZE < t.size_ci
            THEN [t EXCEPT !.size_ci = @ \div 2] ELSE t
  IN  IF t.size_ci > LUAI_MAXCALLS THEN t
      ELSE IF 4 * (lim - t.stack) < t.stacksize
                /\ 2 * (2 * LUA_MINSTACK + EXTRA_STACK) < t.stacksize
      THEN luaD_reallocstack(t1, t.stacksize \div 2) ELSE t1
Collected(t) == {t} \cup (IF "gc" \in uses THEN {Shrunk(t)} ELSE {})

(* The collector runs in an allocation of the function that runs.           *)
CollectStack(th) ==
  /\ "gc" \in uses /\ (InLua \/ InC) /\ lstate[th] # NoState
  /\ LET t == Shrunk(lstate[th])
     IN  Become(th, t, IF th = L THEN Reloaded(cstack, t) ELSE cstack)

(* luaD_call returns to lua_call, to callTMres or callTM, to luaD_pcall or  *)
(* to luaG_errormsg.                                                       *)
EndCall ==
  /\ cstack # <<>> /\ F.k = "call"
  /\ \E t \in Collected([l EXCEPT !.nCcalls = @ - 1]) :
       CASE Last(Callers).k \in {"host", "cfunc", "hook"} ->
              Become(L, adjustresults(t, F.nresults), Callers)
         [] Last(Callers).k = "execute" ->
              LET t1 == [t EXCEPT !.top = @ - F.nresults]
              IN  Become(L, t1, Reloaded(Callers, t1))
         [] OTHER -> Become(L, t, Callers)

RestoreHooks(t, frame) == [t EXCEPT !.allowhook = frame.allowhook]
(* luaD_pcall after the call, or where luaD_throw lands.                    *)
EndPcall ==
  LET oldtop == restorestack(l, F.old_top)
      t1 == luaD_seterrorobj(luaF_close(l, oldtop), oldtop)
      failed == restore_stack_limit(RestoreHooks(
                  [t1 EXCEPT !.nCcalls = F.nCcalls, !.ci = SubSeq(t1.ci, 1, F.ci),
                             !.base = t1.ci[F.ci].base], F))
      t == IF F.status = "ok" THEN l ELSE failed
  IN  /\ cstack # <<>> /\ F.k = "pcall"
      /\ Become(L, adjustresults([Unprotect(t, F) EXCEPT !.errfunc = F.errfunc], F.nresults), Callers)

(* luaG_errormsg: the handler is called once, then the error is thrown.     *)
luaG_errormsg ==
  /\ cstack # <<>> /\ F.k = "errormsg"
  /\ IF F.called \/ l.errfunc.at = 0 THEN luaD_throw(L, l, Callers, "errrun")
     ELSE IF l.errfunc.fn.kind = "other" THEN luaD_throw(L, l, Callers, "errerr")
     ELSE LET t == incr_top(l)
          IN  luaD_call(L, t, Append(Callers, [F EXCEPT !.called = TRUE]),
                        savestack(t, t.top - 2), l.errfunc.fn, 1)

(* luaD_callhook after the hook.                                           *)
AfterHook(t) ==
  [SetCiTop(t, restorestack(t, F.ci_top)) EXCEPT !.allowhook = TRUE, !.top = restorestack(t, F.top)]
EndHook ==
  /\ InC /\ F.k = "hook"
  /\ CASE F.then = "return" ->
            LET g == Last(Callers)
            IN  AfterPosCall(L, AfterHook(l), g.first, Front(Callers), g.lua)
       [] F.then = "tailcall" ->
            LET t == MoveFrameDown(AfterHook(l)) IN Become(L, t, Reloaded(Callers, t))
       [] OTHER -> LET t == AfterHook(l) IN Become(L, t, Reloaded(Callers, t))

(* The program has exited.                                                 *)
Stop == cstack = <<>> /\ UNCHANGED vars

Init ==
  /\ uses \in Programs
  /\ lstate = [th \in Threads |-> IF th = MainThread THEN NewState ELSE NoState]
  /\ cstack = <<[k |-> "host", L |-> MainThread]>>

Next ==
  \/ \E fn \in Values, n \in NResults : OP_CALL(fn, n)
  \/ \E fn \in Values : OP_TAILCALL(fn)
  \/ \E n \in NArgs : OP_RETURN(n)
  \/ \E fn \in Values, n \in {0, 1} : Metamethod(fn, n)
  \/ OP_VARARG \/ OP_SETLIST \/ OP_CLOSURE \/ OP_CLOSE \/ LuaError \/ traceexec
  \/ \E fn \in Values, n \in NArgs, r \in NResults :
       \/ lua_call(fn, n, r)
       \/ \E h \in {NoHandler} \cup (IF "handler" \in uses THEN Handlers ELSE {}) : lua_pcall(fn, n, r, h)
  \/ lua_cpcall \/ lua_error \/ MemoryError
  \/ \E n \in NArgs : CReturn(n) \/ lua_yield(n)
  \/ \E co \in Coroutines :
       \/ \E fn \in LuaFunctions : luaB_cocreate(co, fn)
       \/ \E n \in NArgs : ResumeOther(co, n) \/ luaB_coresume(co, n)
  \/ resume \/ EndResume
  \/ \E th \in Threads : CollectStack(th)
  \/ EndCall \/ EndPcall \/ luaG_errormsg \/ EndHook
  \/ Stop

Spec == Init /\ [][Next]_vars

(***************************************************************************)
(* Properties.                                                             *)
(***************************************************************************)
Kinds == {"host", "cfunc", "execute", "call", "pcall", "resume", "errormsg", "hook", "poscall"}
TypeOK ==
  /\ uses \in Programs
  /\ \A th \in Threads :
       LET t == lstate[th]
       IN  /\ t.stack \in {0, Block} /\ {t.stacksize, t.nCcalls, t.baseCcalls} \subseteq Nat
           /\ t.ci # <<>> /\ t.size_ci \in Nat /\ t.allowhook \in BOOLEAN
           /\ t.status \in {"none", "ok", "yield", "errrun", "errmem", "errerr"}
           /\ t.errorJmp \in 0..Len(cstack)
  /\ \A i \in DOMAIN cstack : cstack[i].k \in Kinds /\ cstack[i].L \in Threads

(* An error has been thrown, and luaD_pcall or lua_resume has not yet put   *)
(* the thread in order; a coroutine yields, or luaV_execute has not yet    *)
(* restarted it.                                                           *)
Landing(th) == cstack # <<>> /\ F.k \in {"pcall", "resume"} /\ F.L = th /\ F.status # "ok"
Switching(th) ==
  \E i \in DOMAIN cstack : /\ cstack[i].k = "resume" /\ cstack[i].L = th
                           /\ i < Len(cstack) => cstack[i + 1].k # "execute"
(* The threads with functions in progress: main, and the coroutines that   *)
(* are running or normal.                                                  *)
OnCStack == {cstack[i].L : i \in DOMAIN cstack}
Active == {th \in OnCStack : ~ Landing(th)}

(* The functions in progress in one frame of the C stack: how many, and     *)
(* what they are.                                                          *)
CallsIn(f) ==
  CASE f.k = "execute" -> f.nexeccalls
    [] f.k = "cfunc" -> 1
    [] f.k = "poscall" -> IF f.lua THEN 0 ELSE 1
    [] f.k = "hook" -> IF f.then = "tailcall" THEN 1 ELSE 0
    [] OTHER -> 0
KindIn(f) == IF f.k \in {"execute", "hook"} THEN "lua" ELSE "c"
(* How many of thread th are in the lowest i frames of the C stack cs.      *)
CallsBelow(cs, th, i) ==
  Cardinality(UNION {{j} \X (1..CallsIn(cs[j])) : j \in {j \in 1..i : cs[j].L = th}})
FramesAgree(th) ==
  /\ Len(lstate[th].ci) = 1 + CallsBelow(cstack, th, Len(cstack))
  /\ \A i \in DOMAIN cstack : cstack[i].L = th =>
       \A n \in 1..CallsIn(cstack[i]) :
         lstate[th].ci[1 + CallsBelow(cstack, th, i - 1) + n].func.fn.kind = KindIn(cstack[i])

(* The CallInfo list of a thread that is active is that of the functions   *)
(* whose activations are on the C stack, whatever errors, hooks, tail calls *)
(* and switches have come before (luaD_precall, luaD_poscall, luaD_pcall,   *)
(* lua_resume).                                                            *)
StacksAgree == \A th \in Active : Switching(th) \/ FramesAgree(th)

(* The C calls of all threads together are counted in nCcalls of the one   *)
(* that runs (luaD_call, lua_resume, lua_setlevel; luaD_pcall restores it), *)
(* so that their nesting is limited.                                       *)
DepthAt(cs, i) == Cardinality({j \in 1..i : cs[j].k \in {"call", "resume"}})
CCallsCounted ==
  /\ cstack # <<>> /\ ~ Landing(L) => l.nCcalls = DepthAt(cstack, Len(cstack))
  /\ DepthAt(cstack, Len(cstack)) <= LUAI_MAXCCALLS + ErrorCCalls

(* The frames of a thread lie one above the other in its stack, whatever   *)
(* has been reallocated: a function keeps its registers while others run.  *)
FramesNested ==
  \A th \in Threads :
    LET t == lstate[th]
    IN  /\ Len(t.ci) <= t.size_ci
        /\ \A i \in DOMAIN t.ci :
             /\ t.stack <= t.ci[i].func.at /\ t.ci[i].func.at < t.ci[i].base
             /\ t.ci[i].base <= t.ci[i].top /\ t.ci[i].top <= stack_last(t)
             /\ i > 1 => t.ci[i - 1].base <= t.ci[i].func.at
        /\ t.top <= stack_last(t)

(* The function that runs works on its own frame: luaV_execute has not kept *)
(* a base from before a reallocation, or of another function (the assertion *)
(* at lvm.c:403), and a C function does not leave its part of the stack.    *)
OwnFrame ==
  /\ InLua => F.base = l.base /\ l.base = Ci(l).base /\ l.base <= l.top
  /\ InC /\ F.k # "hook" => l.base = Ci(l).base /\ l.base <= l.top /\ l.top <= Ci(l).top

(* luaD_throw of a thread lands in its innermost protected call, and never *)
(* jumps over the frames of another thread.                                *)
ThrowLands ==
  \A th \in OnCStack :
    LET protected == {i \in DOMAIN cstack : cstack[i].k \in {"pcall", "resume"} /\ cstack[i].L = th}
    IN  /\ lstate[th].errorJmp = Max(protected \cup {0})
        /\ th = L => \A i \in (lstate[th].errorJmp + 1)..Len(cstack) : cstack[i].L = th

(* The error function of a thread is a value that the C function of its    *)
(* innermost protected call keeps just below the function called, and a    *)
(* coroutine starts with none (the assertion at ldo.c:429).                *)
HandlerKept ==
  \A th \in Threads :
    LET t == lstate[th]
        pcalls == {i \in DOMAIN cstack : cstack[i].k = "pcall" /\ cstack[i].L = th}
    IN  t.errfunc.at # 0 =>
          \/ th \in OnCStack /\ pcalls # {} /\ t.errfunc.at = cstack[Max(pcalls)].old_top - 1
          \/ t.status \in {"errrun", "errmem", "errerr"}

(* Hooks are off exactly while a hook runs, also after an error in a hook. *)
HooksOffInHook ==
  \A th \in Active :
    lstate[th].allowhook <=> ~ \E i \in DOMAIN cstack : cstack[i].k = "hook" /\ cstack[i].L = th

(* An open upvalue is a variable of a Lua function that is still active:   *)
(* returns, tail calls and errors close those of the functions they end.   *)
UpvaluesOfActive ==
  \A th \in Threads : \A p \in lstate[th].openupval :
    \/ Landing(th)
    \/ \E i \in DOMAIN lstate[th].ci :
         LET ci == lstate[th].ci[i] IN f_isLua(ci) /\ ci.base <= p /\ p < ci.top

(* A coroutine that has yielded has only Lua functions below the one that  *)
(* yielded, and no activation on the C stack: luaV_execute can continue    *)
(* all of them (the boundary that lua_yield checks).                       *)
YieldedInLua ==
  \A co \in Coroutines :
    LET t == lstate[co]
    IN  t.status = "yield" =>
          /\ \A i \in 2..(Len(t.ci) - 1) : f_isLua(t.ci[i])
          /\ ~ f_isLua(Ci(t)) /\ Len(t.ci) > 2
          /\ \A i \in DOMAIN cstack : cstack[i].L = co => i = Len(cstack) /\ cstack[i].k = "resume"

(***************************************************************************)
(* The properties that the run checks, of the parts above.                 *)
(***************************************************************************)
(* Whatever errors, hooks, tail calls and switches have come before: the    *)
(* CallInfo list of every thread that is active is the list of functions    *)
(* that the C stack holds for it, and nCcalls counts the calls of C that    *)
(* all threads together have in progress (luaD_call, luaD_poscall,          *)
(* luaD_pcall, lua_resume, lua_yield).                                     *)
ActivationsAgree == StacksAgree /\ CCallsCounted

(* Whatever is reallocated in the middle of a call: the frames of a thread  *)
(* lie above one another inside its stack, the function that runs uses its *)
(* own, an open upvalue points into the frame of a Lua function that is     *)
(* active, and a thread that has yielded can be continued                  *)
(* (luaD_reallocstack, luaD_growstack, luaF_close, lua_yield).             *)
FramesSound == FramesNested /\ OwnFrame /\ UpvaluesOfActive /\ YieldedInLua

(* Whatever protected calls and hooks an error leaves: the error function   *)
(* is that of the innermost protected call that is left, and hooks are off  *)
(* exactly while one runs (luaD_pcall, lua_pcall, luaD_callhook).           *)
ErrorsRestore == HandlerKept /\ HooksOffInHook

(***************************************************************************)
(* The coroutines of the manual.                                           *)
(***************************************************************************)
running == IF cstack = <<>> THEN MainThread ELSE L
waits == {<<cstack[i].from, cstack[i].L>> : i \in {i \in DOMAIN cstack : cstack[i].k = "resume"}}
ended == cstack = <<>>
status == [co \in Coroutines |->
            IF cstack = <<>> THEN "dead"
            ELSE IF lstate[co] = NoState THEN "none" ELSE costatus(co)]
(* How far the body has got: called or not, and with functions in progress. *)
progress == [co \in Coroutines |->
              CASE lstate[co].status = "none" -> "new"
                [] lstate[co].status # "none" /\ lstate[co].body # NoBody -> "new"
                [] lstate[co].status # "none" /\ lstate[co].body = NoBody ->
                     IF Len(lstate[co].ci) > 1 THEN "inside" ELSE "over"]
AbstractCoroutines == INSTANCE LuaCoroutines
(* The statuses that luaB_costatus computes from status, ci and top of a   *)
(* thread are those of a machine that knows who resumed whom and which     *)
(* bodies are over.                                                        *)
ImplementsCoroutines == AbstractCoroutines!Spec

=============================================================================
