-------------------------------- MODULE LuaVM --------------------------------
(***************************************************************************)
(* The life of a chunk: it is compiled (LuaParser, LuaCode), perhaps dumped *)
(* and loaded again (LuaDump), and then run by the virtual machine (lvm.c,  *)
(* with the calls of ldo.c, the metamethods of ltm.c, the upvalues of       *)
(* lfunc.c and the error messages of ldebug.c that it needs).              *)
(*                                                                         *)
(* One action is one instruction.  C is reentrant where a metamethod is a   *)
(* Lua function: the frame of the metamethod then has in k what its caller  *)
(* in C does with the results, and that is part of the return.             *)
(*                                                                         *)
(* Left out: memory and collection, limits on sizes, hooks, coroutines and  *)
(* pcall (LuaDo has them), coercions of strings to numbers, the order of    *)
(* strings, metatables of types other than table.                         *)
(***************************************************************************)
EXTENDS LuaParser, LuaDump

CONSTANTS Sources,      (* the chunks, records with their tokens in toks    *)
                        (* the arguments to run them with in inputs, and     *)
                        (* whether they are dumped with and without their    *)
                        (* debug information in strips                       *)
          MAXTAGLOOP,   (* limit of a chain of __index or __newindex        *)
          MaxTruncated  (* bound: chunks up to this length are truncated    *)

VARIABLES source,       (* the chunk                                       *)
          phase,        (* what has been done with it                      *)
          proto,        (* its main function                               *)
          binary,       (* its dump                                        *)
          L             (* the machine                                     *)
vars == <<source, phase, proto, binary, L>>

(***************************************************************************)
(* Values are pairs of a type and a value; <<"nil">> is nil.  A table, a    *)
(* Lua function and an upvalue are indices of L.tables, L.closures and     *)
(* L.upvals; a function of C is its name.  The stack and the fields of a   *)
(* frame count from 0, as in C.                                           *)
(***************************************************************************)
Nil == <<"nil">>
Boolean(b) == <<"boolean", b>>
Number(n) == <<"number", n>>
String(s) == <<"string", s>>
ttisfunction(v) == v[1] \in {"function", "builtin"}
ttype(v) == IF ttisfunction(v) THEN "function" ELSE v[1]
l_isfalse(v) == v \in {Nil, Boolean(FALSE)}

Globals == 1            \* the table of the global variables
Builtins == {"f", "g", "setmetatable"}
NewTableValue(h) == [h |-> h, meta |-> 0, flags |-> {}]

Idle == [stack |-> <<>>, top |-> 0, ci |-> <<>>, openupval |-> <<>>, upvals |-> <<>>, closures |-> <<>>,
         tables |-> <<>>, args |-> <<>>, log |-> <<>>, status |-> "idle", err |-> <<>>, ok |-> TRUE, r |-> 0]

CI(S) == S.ci[Len(S.ci)]
At(S, at) == S.stack[at + 1]
Values(S, from, n) == SubSeq(S.stack, from + 1, from + n)
Store(S, from, values) ==
  [S EXCEPT !.stack = SubSeq(@, 1, from) \o values \o SubSeq(@, from + Len(values) + 1, Len(@))]
Nils(n) == [j \in 1 .. n |-> Nil]

Push(S, values) == [Store(S, S.top, values) EXCEPT !.top = @ + Len(values)]
SetTop(S, top) == [S EXCEPT !.top = top]
SetPc(S, pc) == [S EXCEPT !.ci[Len(S.ci)].savedpc = pc]
dojump(S, n) == SetPc(S, CI(S).savedpc + n)
luaG_runerror(S, err) == [S EXCEPT !.status = "error", !.err = err]

Inner(p, j) == p.p[j]
ClosureProto(c) == FoldLeft(Inner, proto, c.p)
RunningClosure(S) == S.closures[At(S, CI(S).func)[2]]
RunningProto(S) == ClosureProto(RunningClosure(S))
isLua(S) == At(S, CI(S).func)[1] = "function"

(***************************************************************************)
(* Tables and metamethods.  A metatable caches in flags which of the events *)
(* of fasttm it has no field for; a set of a field forgets that.           *)
(***************************************************************************)
luaH_get(S, t, key) == LET h == S.tables[t].h IN IF key \in DOMAIN h THEN h[key] ELSE Nil
RawSet(S, t, key, v) ==
  [S EXCEPT !.tables[t].h =
     IF v = Nil THEN [j \in DOMAIN @ \ {key} |-> S.tables[t].h[j]] ELSE (key :> v) @@ @]
luaH_getn(S, t) ==
  CHOOSE n \in 0 .. Cardinality(DOMAIN S.tables[t].h) :
    /\ n > 0 => luaH_get(S, t, Number(n)) # Nil
    /\ luaH_get(S, t, Number(n + 1)) = Nil

(* Returns the metamethod in r; mt is 0 if there is no metatable.          *)
luaT_gettm(S, mt, event) ==
  LET tm == luaH_get(S, mt, String(event))
  IN  IF tm = Nil THEN [S EXCEPT !.tables[mt].flags = @ \cup {event}, !.r = Nil] ELSE [S EXCEPT !.r = tm]
fasttm(S, mt, event) ==
  IF mt = 0 THEN [S EXCEPT !.r = Nil]
  ELSE IF event \in S.tables[mt].flags THEN [S EXCEPT !.r = Nil]
  ELSE luaT_gettm(S, mt, event)
Metatable(S, v) == IF v[1] = "table" THEN S.tables[v[2]].meta ELSE 0
luaT_gettmbyobj(S, v, event) ==
  LET mt == Metatable(S, v) IN IF mt = 0 THEN Nil ELSE luaH_get(S, mt, String(event))

(***************************************************************************)
(* Errors.  An error is what was tried, with the type and the name of the   *)
(* operand if it is in a register.                                        *)
(***************************************************************************)
NameOf(S, at) ==
  IF isLua(S) /\ CI(S).base <= at /\ at < CI(S).top
  THEN getobjname(RunningProto(S), CI(S).savedpc - 1, at - CI(S).base) ELSE <<>>
NotInStack == -1
luaG_typeerror(S, at, v, op) == luaG_runerror(S, <<op, ttype(v)>> \o NameOf(S, at))
luaG_aritherror(S, at1, v1, at2, v2) ==
  IF v1[1] = "number" THEN luaG_typeerror(S, at2, v2, "arith") ELSE luaG_typeerror(S, at1, v1, "arith")
Concatenable(v) == v[1] \in {"string", "number"}
luaG_concaterror(S, at, v1, v2) ==
  IF Concatenable(v1) THEN luaG_typeerror(lua_assert(S, ~ Concatenable(v2)), at + 1, v2, "concat")
  ELSE luaG_typeerror(S, at, v1, "concat")
luaG_ordererror(S, v1, v2) == luaG_runerror(S, <<"compare", ttype(v1), ttype(v2)>>)

(***************************************************************************)
(* Upvalues: open ones are indices of the stack, in openupval by falling   *)
(* index.                                                                  *)
(***************************************************************************)
UpvalueValue(S, u) == IF S.upvals[u].open THEN At(S, S.upvals[u].v) ELSE S.upvals[u].v
SetUpvalue(S, u, v) ==
  IF S.upvals[u].open THEN Store(S, S.upvals[u].v, <<v>>) ELSE [S EXCEPT !.upvals[u].v = v]

(* Returns the upvalue in r.                                                *)
luaF_findupval(S, level) ==
  LET above == SelectSeq(S.openupval, LAMBDA u : S.upvals[u].v > level)
      rest == SubSeq(S.openupval, Len(above) + 1, Len(S.openupval))
      new == Len(S.upvals) + 1
  IN  IF rest # <<>> /\ S.upvals[Head(rest)].v = level THEN [S EXCEPT !.r = Head(rest)]
      ELSE [S EXCEPT !.upvals = Append(@, [open |-> TRUE, v |-> level]),
                     !.openupval = above \o <<new>> \o rest, !.r = new]

RECURSIVE luaF_close(_, _)
CloseFirst(S, u) == [S EXCEPT !.upvals[u] = [open |-> FALSE, v |-> UpvalueValue(S, u)], !.openupval = Tail(@)]
luaF_close(S, level) ==
  IF S.openupval = <<>> THEN S
  ELSE IF S.upvals[Head(S.openupval)].v < level THEN S
  ELSE luaF_close(CloseFirst(S, Head(S.openupval)), level)

(***************************************************************************)
(* Calls.  k is what the caller does with the results when the call was     *)
(* made for n of them.                                                     *)
(***************************************************************************)
RECURSIVE Continue(_, _, _)

(* Results are what the function at the top of ci returns.                  *)
luaD_poscall(S, results) ==
  LET wanted == CI(S).nresults
      n == IF wanted = LUA_MULTRET THEN Len(results) ELSE wanted
      first == SubSeq(results, 1, Min({n, Len(results)}))
      C == [Store(S, CI(S).func, first \o Nils(n - Len(first))) EXCEPT !.top = CI(S).func + n,
              !.ci = SubSeq(@, 1, Len(@) - 1)]
  IN  Continue(C, CI(S).k, wanted)

Frame(func, base, top, nresults, k) ==
  [func |-> func, base |-> base, top |-> top, savedpc |-> 0, nresults |-> nresults, tailcalls |-> 0, k |-> k]

(* LUA_COMPAT_VARARG: the table arg, if the function may use it.            *)
ArgTable(S, extra) ==
  LET h == [j \in {Number(n) : n \in DOMAIN extra} |-> extra[j[2]]]
      filled == [j \in {i \in DOMAIN h : h[i] # Nil} |-> h[j]]
      T == [S EXCEPT !.tables = Append(@, NewTableValue(String("n") :> Number(Len(extra)) @@ filled))]
  IN  Push(T, <<<<"table", Len(T.tables)>>>>)

(* The fixed parameters move above the arguments; the stack has a base in r. *)
adjust_varargs(S, p, actual) ==
  LET missing == Max({p.numparams - actual, 0})
      A == Push(S, Nils(missing))
      n == actual + missing
      fixed == Values(A, A.top - n, p.numparams)
      extra == Values(A, A.top - n + p.numparams, n - p.numparams)
      C == [Push(Store(A, A.top - n, Nils(p.numparams)), fixed) EXCEPT !.r = A.top]
  IN  IF "NEEDSARG" \in p.is_vararg THEN ArgTable(lua_assert(C, "HASARG" \in p.is_vararg), extra) ELSE C

EnterLua(S, p, func, base, nresults, k) ==
  LET top == base + p.maxstacksize
  IN  [Store(S, S.top, Nils(top - S.top)) EXCEPT !.top = top, !.ci = Append(@, Frame(func, base, top, nresults, k))]
PrecallLua(S, p, func, nresults, k) ==
  IF p.is_vararg = {}
  THEN EnterLua(SetTop(S, Min({S.top, func + 1 + p.numparams})), p, func, func + 1, nresults, k)
  ELSE LET A == adjust_varargs(S, p, S.top - func - 1) IN EnterLua(A, p, func, A.r, nresults, k)

(* The functions of C that programs call: f notes its arguments and returns *)
(* them, g is an iterator from its second argument up to its first.        *)
Shown(v) == IF v[1] \in {"table", "function", "builtin"} THEN <<ttype(v)>> ELSE v
ShownAll(values) == [j \in DOMAIN values |-> Shown(values[j])]
Effect(S, name, args) ==
  CASE name = "f" -> [S EXCEPT !.log = Append(@, ShownAll(args))]
    [] name = "g" -> S
    [] name = "setmetatable" -> [S EXCEPT !.tables[args[1][2]].meta = IF args[2] = Nil THEN 0 ELSE args[2][2]]
Results(name, args) ==
  CASE name = "f" -> args
    [] name = "g" -> IF args[2][2] >= args[1][2] THEN <<Nil>> ELSE <<Number(args[2][2] + 1), args[1]>>
    [] name = "setmetatable" -> <<args[1]>>
Builtin(S, name, args) == luaD_poscall(Effect(S, name, args), Results(name, args))

tryfuncTM(S, func, tm) ==
  [Store(S, func, <<tm>> \o Values(S, func, S.top - func)) EXCEPT !.top = @ + 1]

Precall(S, func, nresults, k) ==
  LET f == At(S, func)
  IN  IF f[1] = "function" THEN PrecallLua(S, ClosureProto(S.closures[f[2]]), func, nresults, k)
      ELSE Builtin([S EXCEPT !.ci = Append(@, Frame(func, func + 1, S.top, nresults, k))], f[2],
                   Values(S, func + 1, S.top - func - 1))
luaD_precall(S, func, nresults, k) ==
  LET f == At(S, func)
      tm == luaT_gettmbyobj(S, f, "__call")
  IN  IF ttisfunction(f) \/ ttisfunction(tm)
      THEN Precall(IF ttisfunction(f) THEN S ELSE tryfuncTM(S, func, tm), func, nresults, k)
      ELSE luaG_typeerror(S, func, f, "call")

callTMres(S, f, p1, p2, k) == luaD_precall(Push(S, <<f, p1, p2>>), S.top, 1, k)
callTM(S, f, p1, p2, p3) == luaD_precall(Push(S, <<f, p1, p2, p3>>), S.top, 0, [what |-> "nothing"])
(* The result of callTMres goes to the stack.                               *)
Into(at) == [what |-> "result", at |-> at]

(***************************************************************************)
(* Operations with metamethods.  v is at the index at of the stack, if that *)
(* is not NotInStack.                                                      *)
(***************************************************************************)
RECURSIVE luaV_gettable(_, _, _, _, _, _), luaV_settable(_, _, _, _, _, _)
GetThrough(S, tm, t, key, val, loop) ==
  IF ttisfunction(tm) THEN callTMres(S, tm, t, key, Into(val))
  ELSE luaV_gettable(S, NotInStack, tm, key, val, loop + 1)
GetAbsent(S, t, key, val, loop) ==          \* S.r is the metamethod
  IF S.r = Nil THEN Store(S, val, <<Nil>>) ELSE GetThrough(S, S.r, t, key, val, loop)
luaV_gettable(S, at, t, key, val, loop) ==
  IF loop = MAXTAGLOOP THEN luaG_runerror(S, <<"loop in gettable">>)
  ELSE IF t[1] = "table"
  THEN IF luaH_get(S, t[2], key) # Nil THEN Store(S, val, <<luaH_get(S, t[2], key)>>)
       ELSE GetAbsent(fasttm(S, S.tables[t[2]].meta, "__index"), t, key, val, loop)
  ELSE IF luaT_gettmbyobj(S, t, "__index") = Nil THEN luaG_typeerror(S, at, t, "index")
  ELSE GetThrough(S, luaT_gettmbyobj(S, t, "__index"), t, key, val, loop)

SetThrough(S, tm, t, key, val, loop) ==
  IF ttisfunction(tm) THEN callTM(S, tm, t, key, val) ELSE luaV_settable(S, NotInStack, tm, key, val, loop + 1)
(* Mutant: the flags that the search of __newindex may have set are kept.  *)
SetRawKeepFlags(S, t, key, val) == RawSet(S, t, key, val)
SetRaw(S, t, key, val) == [RawSet(S, t, key, val) EXCEPT !.tables[t].flags = {}]
SetAbsent(S, t, key, val, loop) ==
  IF S.r = Nil THEN SetRaw(S, t[2], key, val) ELSE SetThrough(S, S.r, t, key, val, loop)
luaH_set(S, t) == [S EXCEPT !.tables[t].flags = {}]          \* the slot is there for the caller
luaV_settable(S, at, t, key, val, loop) ==
  IF loop = MAXTAGLOOP THEN luaG_runerror(S, <<"loop in settable">>)
  ELSE IF t[1] = "table"
  THEN IF luaH_get(S, t[2], key) # Nil THEN SetRaw(luaH_set(S, t[2]), t[2], key, val)
       ELSE SetAbsent(fasttm(luaH_set(S, t[2]), S.tables[t[2]].meta, "__newindex"), t, key, val, loop)
  ELSE IF luaT_gettmbyobj(S, t, "__newindex") = Nil THEN luaG_typeerror(S, at, t, "index")
  ELSE SetThrough(S, luaT_gettmbyobj(S, t, "__newindex"), t, key, val, loop)

(* The metamethod of the first operand or else of the second.               *)
BinTM(S, p1, p2, event) ==
  LET tm == luaT_gettmbyobj(S, p1, event) IN IF tm # Nil THEN tm ELSE luaT_gettmbyobj(S, p2, event)

ArithEvent(op) ==
  CASE op = "ADD" -> "__add" [] op = "SUB" -> "__sub" [] op = "MUL" -> "__mul" [] op = "DIV" -> "__div"
    [] op = "MOD" -> "__mod" [] op = "POW" -> "__pow" [] op = "UNM" -> "__unm"
ArithOrTM(S, op, at1, x, at2, y, res) ==
  LET tm == BinTM(S, x, y, ArithEvent(op))
  IN  IF x[1] = "number" /\ y[1] = "number" THEN Store(S, res, <<Number(Arith(op, x[2], y[2]))>>)
      ELSE IF tm # Nil THEN callTMres(S, tm, x, y, Into(res))
      ELSE luaG_aritherror(S, at1, x, at2, y)

(* What a comparison does with its result: the jump that follows is taken   *)
(* if the result is the expected one.                                      *)
Compare(S, result, expected) ==
  LET jump == RunningProto(S).code[CI(S).savedpc + 1].b
  IN  dojump(S, 1 + (IF result = (expected = 1) THEN jump ELSE 0))
Test(expected, negated) == [what |-> "test", expected |-> expected, negated |-> negated]

CompTM(S, mt1, mt2, tm1) ==                  \* S.r is that of the second
  IF tm1 = Nil THEN Nil ELSE IF mt1 = mt2 THEN tm1 ELSE IF S.r = tm1 THEN tm1 ELSE Nil
EqualBy(S, tm, x, y, a) ==
  IF tm = Nil THEN Compare(S, FALSE, a) ELSE callTMres(S, tm, x, y, Test(a, FALSE))
get_compTM(S, x, y, a) ==                    \* S.r is that of the first
  IF S.r = Nil \/ Metatable(S, x) = Metatable(S, y) THEN EqualBy(S, S.r, x, y, a)
  ELSE LET B == fasttm(S, Metatable(S, y), "__eq")
       IN  EqualBy(B, CompTM(B, Metatable(S, x), Metatable(S, y), S.r), x, y, a)
luaV_equalval(S, x, y, a) ==
  IF ttype(x) # "table" \/ ttype(y) # "table" \/ x = y THEN Compare(S, x = y, a)
  ELSE get_compTM(fasttm(S, Metatable(S, x), "__eq"), x, y, a)

OrderTM(S, x, y, event) ==
  LET tm == luaT_gettmbyobj(S, x, event) IN IF tm = luaT_gettmbyobj(S, y, event) THEN tm ELSE Nil
luaV_lessthan(S, x, y, a) ==
  IF ttype(x) # ttype(y) THEN luaG_ordererror(S, x, y)
  ELSE IF x[1] = "number" THEN Compare(S, x[2] < y[2], a)
  ELSE IF OrderTM(S, x, y, "__lt") # Nil
  THEN callTMres(S, OrderTM(S, x, y, "__lt"), x, y, Test(a, FALSE))
  ELSE luaG_ordererror(S, x, y)
lessequal(S, x, y, a) ==
  IF ttype(x) # ttype(y) THEN luaG_ordererror(S, x, y)
  ELSE IF x[1] = "number" THEN Compare(S, x[2] <= y[2], a)
  ELSE IF OrderTM(S, x, y, "__le") # Nil THEN callTMres(S, OrderTM(S, x, y, "__le"), x, y, Test(a, FALSE))
  ELSE IF OrderTM(S, y, x, "__lt") # Nil THEN callTMres(S, OrderTM(S, y, x, "__lt"), y, x, Test(a, TRUE))
  ELSE luaG_ordererror(S, x, y)

(* Concatenation of the registers up to last, total of them: from the right, *)
(* as many as are strings or numbers at once, or two by a metamethod.       *)
ToStr(v) == IF v[1] = "number" THEN ToString(v[2]) ELSE v[2]
Joined(values) == FoldLeft(LAMBDA s, v : s \o ToStr(v), "", values)
RECURSIVE Together(_, _, _)
Together(S, top, total) ==
  IF total = 0 THEN 0
  ELSE IF Concatenable(At(S, top - 1)) THEN 1 + Together(S, top - 1, total - 1) ELSE 0

RECURSIVE luaV_concat(_, _, _, _)
ConcatAt(S, top, total, last, i) ==
  LET x == At(S, top - 2)
      y == At(S, top - 1)
      n == IF ToStr(y) = "" THEN 2 ELSE Together(S, top, total)
  IN  IF Concatenable(x) /\ Concatenable(y)
      THEN luaV_concat(Store(S, top - n, <<String(Joined(Values(S, top - n, n)))>>), total - n + 1, last - n + 1, i)
      ELSE IF BinTM(S, x, y, "__concat") # Nil
      THEN callTMres(S, BinTM(S, x, y, "__concat"), x, y,
                     [what |-> "concat", at |-> top - 2, total |-> total - 1, last |-> last - 1, i |-> i])
      ELSE luaG_concaterror(S, top - 2, x, y)
luaV_concat(S, total, last, i) ==
  IF total > 1 THEN ConcatAt(S, CI(S).base + last + 1, total, last, i)
  ELSE Store(S, CI(S).base + i.a, <<At(S, CI(S).base + i.b)>>)

(* OP_TFORLOOP after the call of the iterator.                              *)
AfterIterator(S, ra) ==
  LET value == At(S, ra + 3)
      jump == RunningProto(S).code[CI(S).savedpc + 1].b
  IN  IF value = Nil THEN dojump(S, 1) ELSE dojump(Store(S, ra + 2, <<value>>), jump + 1)

(* The frame of the caller is the current one again, its results are there. *)
Result(S) == SetTop(S, S.top - 1)
Continue(S, k, wanted) ==
  CASE k.what = "call" -> IF wanted = LUA_MULTRET THEN S ELSE SetTop(S, CI(S).top)
    [] k.what = "main" -> [S EXCEPT !.status = "done"]
    [] k.what = "nothing" -> S
    [] k.what = "result" -> Store(Result(S), k.at, <<At(S, S.top - 1)>>)
    [] k.what = "test" -> Compare(Result(S), k.negated = l_isfalse(At(S, S.top - 1)), k.expected)
    [] k.what = "concat" ->
         luaV_concat(Store(Result(S), k.at, <<At(S, S.top - 1)>>), k.total, k.last, k.i)
    [] k.what = "iterator" -> AfterIterator(SetTop(S, CI(S).top), k.ra)

(***************************************************************************)
(* A chunk is loaded and started.                                          *)
(***************************************************************************)
Init ==
  /\ source \in Sources
  /\ phase = "source" /\ proto = NewProto /\ binary = <<>> /\ L = Idle

Loaded(s) == proto' = Proto(s) /\ L' = lua_assert(L, s.ok)
Compile ==
  /\ phase = "source" /\ phase' = "loaded"
  /\ Loaded(luaY_parser(source.toks))
  /\ UNCHANGED <<source, binary>>

Stripped == proto.source = "=?"
Dump(strip) ==
  /\ phase = "loaded" /\ phase' = "dumped"
  /\ binary' = luaU_dump(proto, strip)
  /\ UNCHANGED <<source, proto, L>>

Undump ==
  /\ phase = "dumped" /\ ~ luaU_undump(binary).bad /\ phase' = "loaded"
  /\ proto' = luaU_undump(binary).f /\ binary' = <<>>
  /\ UNCHANGED <<source, L>>

(* The reader gives less than the chunk.                                    *)
Truncate(n) ==
  /\ phase = "dumped" /\ Len(binary) <= MaxTruncated /\ phase' = "truncated"
  /\ binary' = SubSeq(binary, 1, n)
  /\ UNCHANGED <<source, proto, L>>

GlobalTable == [j \in {String(b) : b \in Builtins} |-> <<"builtin", j[2]>>]
Machine(args) ==
  [Idle EXCEPT !.args = args, !.stack = <<Nil, <<"function", 1>>>> \o args,
               !.top = Len(args) + 2, !.status = "run", !.ok = L.ok,
               !.ci = <<Frame(0, 1, Len(args) + 2, 0, [what |-> "nothing"])>>,
               !.closures = <<[p |-> <<>>, upvals |-> <<>>]>>, !.tables = <<NewTableValue(GlobalTable)>>]
Start(args) ==
  /\ phase = "loaded" /\ phase' = "running"
  /\ L' = luaD_precall(Machine(args), 1, LUA_MULTRET, [what |-> "main"])
  /\ UNCHANGED <<source, proto, binary>>

(***************************************************************************)
(* The instructions.  I is the current one, F the machine after its fetch.  *)
(***************************************************************************)
I == RunningProto(L).code[CI(L).savedpc + 1]
F == SetPc(lua_assert(L, L.top = CI(L).top \/ luaG_checkopenop(I)), CI(L).savedpc + 1)
Reg(n) == CI(L).base + n
RA == Reg(I.a)
R(n) == At(L, Reg(n))
K(n) == RunningProto(L).k[n + 1]
RK(n) == IF ISK(n) THEN K(INDEXK(n)) ELSE R(n)
InStack(n) == IF ISK(n) THEN NotInStack ELSE Reg(n)

At_op(ops) == phase = "running" /\ L.status = "run" /\ I.op \in ops
Step(S) == L' = S /\ UNCHANGED <<source, phase, proto, binary>>
SetRA(v) == Step(Store(F, RA, <<v>>))

OP_MOVE == At_op({"MOVE"}) /\ SetRA(R(I.b))
OP_LOADK == At_op({"LOADK"}) /\ SetRA(K(I.b))
OP_LOADBOOL == At_op({"LOADBOOL"}) /\ Step(dojump(Store(F, RA, <<Boolean(I.b = 1)>>), I.c))
OP_LOADNIL == At_op({"LOADNIL"}) /\ Step(Store(F, RA, Nils(I.b - I.a + 1)))
OP_GETUPVAL == At_op({"GETUPVAL"}) /\ SetRA(UpvalueValue(L, RunningClosure(L).upvals[I.b + 1]))
OP_SETUPVAL == At_op({"SETUPVAL"}) /\ Step(SetUpvalue(F, RunningClosure(L).upvals[I.b + 1], R(I.a)))
OP_GETGLOBAL ==
  At_op({"GETGLOBAL"}) /\ Step(luaV_gettable(F, NotInStack, <<"table", Globals>>, K(I.b), RA, 0))
OP_SETGLOBAL ==
  At_op({"SETGLOBAL"}) /\ Step(luaV_settable(F, NotInStack, <<"table", Globals>>, K(I.b), R(I.a), 0))
OP_GETTABLE == At_op({"GETTABLE"}) /\ Step(luaV_gettable(F, Reg(I.b), R(I.b), RK(I.c), RA, 0))
OP_SETTABLE == At_op({"SETTABLE"}) /\ Step(luaV_settable(F, RA, R(I.a), RK(I.b), RK(I.c), 0))
OP_NEWTABLE ==
  /\ At_op({"NEWTABLE"})
  /\ Step([Store(F, RA, <<<<"table", Len(L.tables) + 1>>>>) EXCEPT !.tables = Append(@, NewTableValue(<<>>))])
OP_SELF ==
  At_op({"SELF"}) /\ Step(luaV_gettable(Store(F, RA + 1, <<R(I.b)>>), Reg(I.b), R(I.b), RK(I.c), RA, 0))
OP_ARITH == At_op(Arithmetic) /\ Step(ArithOrTM(F, I.op, InStack(I.b), RK(I.b), InStack(I.c), RK(I.c), RA))
OP_UNM == At_op({"UNM"}) /\ Step(ArithOrTM(F, "UNM", Reg(I.b), R(I.b), Reg(I.b), R(I.b), RA))
OP_NOT == At_op({"NOT"}) /\ SetRA(Boolean(l_isfalse(R(I.b))))
OP_LEN ==
  /\ At_op({"LEN"})
  /\ \/ R(I.b)[1] = "table" /\ SetRA(Number(luaH_getn(L, R(I.b)[2])))
     \/ R(I.b)[1] = "string" /\ SetRA(Number(Len(R(I.b)[2])))
     \/ R(I.b)[1] \notin {"table", "string"} /\ Step(luaG_typeerror(F, Reg(I.b), R(I.b), "length"))
OP_CONCAT == At_op({"CONCAT"}) /\ Step(luaV_concat(F, I.c - I.b + 1, I.c, I))
OP_JMP == At_op({"JMP"}) /\ Step(dojump(F, I.b))
OP_EQ == At_op({"EQ"}) /\ Step(luaV_equalval(F, RK(I.b), RK(I.c), I.a))
OP_LT == At_op({"LT"}) /\ Step(luaV_lessthan(F, RK(I.b), RK(I.c), I.a))
OP_LE == At_op({"LE"}) /\ Step(lessequal(F, RK(I.b), RK(I.c), I.a))
OP_TEST == At_op({"TEST"}) /\ Step(Compare(F, l_isfalse(R(I.a)), 1 - I.c))
OP_TESTSET ==
  /\ At_op({"TESTSET"})
  /\ IF l_isfalse(R(I.b)) = (I.c = 1) THEN Step(dojump(F, 1))
     ELSE Step(Compare(Store(F, RA, <<R(I.b)>>), TRUE, 1))

(* The arguments are up to B, or up to the top.                             *)
WithArguments == IF I.b # 0 THEN SetTop(F, RA + I.b) ELSE F
OP_CALL == At_op({"CALL"}) /\ Step(luaD_precall(WithArguments, RA, I.c - 1, [what |-> "call"]))

(* The frame of the callee replaces the one of the caller.                  *)
ReplaceFrame(S) ==
  LET callee == CI(S)
      caller == S.ci[Len(S.ci) - 1]
      C == IF S.openupval # <<>> THEN luaF_close(S, caller.base) ELSE S
      moved == Values(C, callee.func, C.top - callee.func)
      new == [caller EXCEPT !.base = caller.func + callee.base - callee.func, !.top = caller.func + Len(moved),
                            !.savedpc = callee.savedpc, !.tailcalls = @ + 1]
      N == [Store(C, caller.func, moved) EXCEPT !.top = new.top, !.ci = Append(SubSeq(@, 1, Len(@) - 2), new)]
  IN  lua_assert(N, N.top = new.base + RunningProto(N).maxstacksize)
TailCalled(S) == IF Len(S.ci) > Len(L.ci) THEN ReplaceFrame(S) ELSE S
OP_TAILCALL ==
  /\ At_op({"TAILCALL"})
  /\ Step(TailCalled(luaD_precall(lua_assert(WithArguments, I.c - 1 = LUA_MULTRET), RA, LUA_MULTRET,
                                  [what |-> "call"])))

OP_RETURN ==
  /\ At_op({"RETURN"})
  /\ LET S == IF I.b # 0 THEN SetTop(F, RA + I.b - 1) ELSE F
     IN  Step(luaD_poscall(IF L.openupval # <<>> THEN luaF_close(S, Reg(0)) ELSE S, Values(L, RA, S.top - RA)))

Continues(idx, limit, step) == IF step > 0 THEN idx <= limit ELSE limit <= idx
OP_FORLOOP ==
  /\ At_op({"FORLOOP"})
  /\ LET idx == R(I.a)[2] + R(I.a + 2)[2]
         S == Store(Store(F, RA, <<Number(idx)>>), RA + 3, <<Number(idx)>>)
     IN  Step(IF Continues(idx, R(I.a + 1)[2], R(I.a + 2)[2]) THEN dojump(S, I.b) ELSE F)
ForOperand(n) == <<"initial value", "limit", "step">>[n + 1]
OP_FORPREP ==
  /\ At_op({"FORPREP"})
  /\ LET bad == {n \in 0 .. 2 : R(I.a + n)[1] # "number"}
     IN  Step(IF bad # {} THEN luaG_runerror(F, <<"for", ForOperand(Min(bad))>>)
              ELSE dojump(Store(F, RA, <<Number(R(I.a)[2] - R(I.a + 2)[2])>>), I.b))
OP_TFORLOOP ==
  /\ At_op({"TFORLOOP"})
  /\ Step(luaD_precall(SetTop(Store(F, RA + 3, Values(L, RA, 3)), RA + 6), RA + 3, I.c,
                       [what |-> "iterator", ra |-> RA]))

(* The items are up to B, or up to the top; C counts the blocks of them.    *)
OP_SETLIST ==
  /\ At_op({"SETLIST"})
  /\ LET n == IF I.b = 0 THEN L.top - RA - 1 ELSE I.b
         items == {j \in 1 .. n : R(I.a + j) # Nil}
         from == (I.c - 1) * LFIELDS_PER_FLUSH
         new == [j \in {Number(from + m) : m \in items} |-> R(I.a + j[2] - from)]
     IN  Step([SetTop(F, CI(L).top) EXCEPT !.tables[R(I.a)[2]].h = new @@ @])

OP_CLOSE == At_op({"CLOSE"}) /\ Step(luaF_close(F, RA))

(* The instructions that follow say where each upvalue is.                  *)
AddCaptured(S, u) == [S EXCEPT !.closures[Len(S.closures)].upvals = Append(@, u)]
RECURSIVE Capture(_, _)
CaptureOne(S, i) ==
  IF i.op = "GETUPVAL" THEN AddCaptured(S, RunningClosure(S).upvals[i.b + 1])
  ELSE LET C == luaF_findupval(lua_assert(S, i.op = "MOVE"), Reg(i.b)) IN AddCaptured(C, C.r)
Capture(S, n) ==
  IF n = 0 THEN S ELSE Capture(dojump(CaptureOne(S, RunningProto(S).code[CI(S).savedpc + 1]), 1), n - 1)
OP_CLOSURE ==
  /\ At_op({"CLOSURE"})
  /\ LET new == [p |-> Append(RunningClosure(L).p, I.b + 1), upvals |-> <<>>]
         C == Capture([F EXCEPT !.closures = Append(@, new)], RunningProto(L).p[I.b + 1].nups)
     IN  Step(Store(C, RA, <<<<"function", Len(L.closures) + 1>>>>))

OP_VARARG ==
  /\ At_op({"VARARG"})
  /\ LET n == CI(L).base - CI(L).func - RunningProto(L).numparams - 1
         extra == Values(L, CI(L).base - n, n)
         b == I.b - 1
     IN  Step(IF b = LUA_MULTRET THEN SetTop(Store(F, RA, extra), RA + n)
              ELSE Store(F, RA, SubSeq(extra, 1, Min({b, n})) \o Nils(Max({b - n, 0}))))

Next ==
  \/ Compile \/ Undump
  \/ \E strip \in source.strips : Dump(strip)
  \/ \E n \in 0 .. Len(binary) - 1 : Truncate(n)
  \/ \E args \in source.inputs : Start(args)
  \/ OP_MOVE \/ OP_LOADK \/ OP_LOADBOOL \/ OP_LOADNIL \/ OP_GETUPVAL \/ OP_SETUPVAL
  \/ OP_GETGLOBAL \/ OP_SETGLOBAL \/ OP_GETTABLE \/ OP_SETTABLE \/ OP_NEWTABLE \/ OP_SELF
  \/ OP_ARITH \/ OP_UNM \/ OP_NOT \/ OP_LEN \/ OP_CONCAT \/ OP_JMP \/ OP_EQ \/ OP_LT \/ OP_LE
  \/ OP_TEST \/ OP_TESTSET \/ OP_CALL \/ OP_TAILCALL \/ OP_RETURN \/ OP_FORLOOP \/ OP_FORPREP
  \/ OP_TFORLOOP \/ OP_SETLIST \/ OP_CLOSE \/ OP_CLOSURE \/ OP_VARARG
Spec == Init /\ [][Next]_vars
=============================================================================
