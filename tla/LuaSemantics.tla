---------------------------- MODULE LuaSemantics ----------------------------
(***************************************************************************)
(* What a program means, after doc/manual.html (2.2 to 2.8): an evaluation  *)
(* of the tree of LuaSyntax, with the variables in cells.  A specification, *)
(* not a translation of code; it says no more than the manual does, so      *)
(* programs must not depend on an order of evaluation that the manual       *)
(* leaves open.                                                            *)
(*                                                                         *)
(* env.vars maps a variable to its cell and to the function it belongs to;  *)
(* env.level is the current function, env.dots the extra arguments.         *)
(* s has the cells, the tables, the functions and the log of f, the value   *)
(* (or values) of what was evaluated last in v, the environment after a     *)
(* statement, and in out how it ended: "normal", "break", "return", "error". *)
(***************************************************************************)
EXTENDS LuaSyntax

nil == <<"nil">>
bool(b) == <<"boolean", b>>
num(n) == <<"number", n>>
IsFalse(v) == v \in {nil, bool(FALSE)}
IsFunction(v) == v[1] \in {"function", "builtin"}
TypeOf(v) == IF IsFunction(v) THEN "function" ELSE v[1]
Display(v) == IF v[1] \in {"table", "function", "builtin"} THEN <<TypeOf(v)>> ELSE v

Stopped(s) == s.out # "normal"
Give(s, v) == [s EXCEPT !.v = v]
Fail(s, err) == [s EXCEPT !.out = "error", !.v = err]
FirstOf(values) == IF values = <<>> THEN nil ELSE values[1]
OnlyFirst(s) == IF Stopped(s) THEN s ELSE Give(s, FirstOf(s.v))
Adjusted(values, n) == [j \in 1 .. n |-> IF j <= Len(values) THEN values[j] ELSE nil]

RawGet(s, t, k) == LET h == s.tables[t].h IN IF k \in DOMAIN h THEN h[k] ELSE nil
RawPut(s, t, k, v) == [s EXCEPT !.tables[t].h = (k :> v) @@ @]
Handler(s, v, event) ==
  IF v[1] # "table" THEN nil
  ELSE LET mt == s.tables[v[2]].meta IN IF mt = 0 THEN nil ELSE RawGet(s, mt, <<"string", event>>)
Border(s, t) ==
  CHOOSE n \in 0 .. Cardinality(DOMAIN s.tables[t].h) :
    /\ n > 0 => RawGet(s, t, num(n)) # nil
    /\ RawGet(s, t, num(n + 1)) = nil

(* The name of an expression in a message; "any" where what the message     *)
(* says depends on the registers.                                         *)
RECURSIVE NamedBy(_, _)
NamedBy(e, env) ==
  CASE e[1] = "name" ->
         IF e[2] \notin DOMAIN env.vars THEN <<"global", e[2]>>
         ELSE <<IF env.vars[e[2]].level = env.level THEN "local" ELSE "upvalue", e[2]>>
    [] e[1] = "field" -> <<"field", e[3]>>
    [] e[1] = "index" -> IF e[3][1] = "str" THEN <<"field", e[3][2]>> ELSE <<"field", "?">>
    [] e[1] = "method" -> <<"any">>
    [] e[1] = "paren" -> NamedBy(e[2], env)
    [] e[1] = "bin" -> IF e[2] \in {"and", "or", ".."} THEN <<"any">> ELSE <<>>
    [] OTHER -> <<>>

(* "exp" gives a value, "exps" a list of values, "block" no value, "call"   *)
(* is of a value with arguments and gives a list of values.                *)
RECURSIVE Sem(_, _, _, _)
Exp(e, env, s) == Sem("exp", e, env, s)
Exps(es, env, s) == Sem("exps", es, env, s)
Block(b, env, s) == Sem("block", b, env, s)
NoEnv == [vars |-> <<>>, level |-> 0, dots |-> <<>>]
CallOf(f, args, name, s) == Sem("call", [f |-> f, args |-> args, name |-> name], NoEnv, s)
CallFirst(f, args, s) == OnlyFirst(CallOf(f, args, <<>>, s))

(***************************************************************************)
(* Tables, metamethods and operators.                                     *)
(***************************************************************************)
RECURSIVE Get(_, _, _, _), Put(_, _, _, _, _)
GetBy(s, h, t, k) == IF IsFunction(h) THEN CallFirst(h, <<t, k>>, s) ELSE Get(s, h, k, <<>>)
Get(s, t, k, name) ==
  LET h == Handler(s, t, "__index")
  IN  IF t[1] = "table"
      THEN IF RawGet(s, t[2], k) # nil \/ h = nil THEN Give(s, RawGet(s, t[2], k)) ELSE GetBy(s, h, t, k)
      ELSE IF h = nil THEN Fail(s, <<"index", TypeOf(t)>> \o name) ELSE GetBy(s, h, t, k)
PutBy(s, h, t, k, v) == IF IsFunction(h) THEN CallOf(h, <<t, k, v>>, <<>>, s) ELSE Put(s, h, k, v, <<>>)
Put(s, t, k, v, name) ==
  LET h == Handler(s, t, "__newindex")
  IN  IF t[1] = "table"
      THEN IF RawGet(s, t[2], k) # nil \/ h = nil THEN RawPut(s, t[2], k, v) ELSE PutBy(s, h, t, k, v)
      ELSE IF h = nil THEN Fail(s, <<"index", TypeOf(t)>> \o name) ELSE PutBy(s, h, t, k, v)

Either(s, x, y, event) == IF Handler(s, x, event) # nil THEN Handler(s, x, event) ELSE Handler(s, y, event)
RECURSIVE Power(_, _)
Power(x, n) == IF n = 0 THEN 1 ELSE x * Power(x, n - 1)
Calculate(op, x, y) ==
  CASE op = "+" -> x + y
    [] op = "-" -> x - y
    [] op = "*" -> x * y
    [] op = "/" -> x \div y
    [] op = "%" -> x % y
    [] op = "^" -> Power(x, y)
EventOf(op) ==
  CASE op = "+" -> "__add" [] op = "-" -> "__sub" [] op = "*" -> "__mul" [] op = "/" -> "__div"
    [] op = "%" -> "__mod" [] op = "^" -> "__pow"
ArithmeticOf(op, x, y, xname, yname, s) ==
  LET h == Either(s, x, y, EventOf(op))
  IN  IF x[1] = "number" /\ y[1] = "number" THEN Give(s, num(Calculate(op, x[2], y[2])))
      ELSE IF h # nil THEN CallFirst(h, <<x, y>>, s)
      ELSE IF x[1] = "number" THEN Fail(s, <<"arith", TypeOf(y)>> \o yname)
      ELSE Fail(s, <<"arith", TypeOf(x)>> \o xname)

Text(v) == IF v[1] = "number" THEN ToString(v[2]) ELSE v[2]
HasText(v) == v[1] \in {"string", "number"}
Concatenation(x, y, xname, yname, s) ==
  LET h == Either(s, x, y, "__concat")
  IN  IF HasText(x) /\ HasText(y) THEN Give(s, <<"string", Text(x) \o Text(y)>>)
      ELSE IF h # nil THEN CallFirst(h, <<x, y>>, s)
      ELSE IF HasText(x) THEN Fail(s, <<"concat", TypeOf(y)>> \o yname)
      ELSE Fail(s, <<"concat", TypeOf(x)>> \o xname)

Truth(s) == IF Stopped(s) THEN s ELSE Give(s, bool(~ IsFalse(s.v)))
Negation(s) == IF Stopped(s) THEN s ELSE Give(s, bool(IsFalse(s.v)))
CommonHandler(s, x, y, event) ==
  IF TypeOf(x) = TypeOf(y) /\ Handler(s, x, event) = Handler(s, y, event) THEN Handler(s, x, event) ELSE nil
EqualTo(x, y, s) ==
  LET h == CommonHandler(s, x, y, "__eq")
  IN  IF x = y \/ h = nil THEN Give(s, bool(x = y)) ELSE Truth(CallFirst(h, <<x, y>>, s))
LessThan(x, y, s) ==
  LET h == CommonHandler(s, x, y, "__lt")
  IN  IF x[1] = "number" /\ y[1] = "number" THEN Give(s, bool(x[2] < y[2]))
      ELSE IF h # nil THEN Truth(CallFirst(h, <<x, y>>, s))
      ELSE Fail(s, <<"compare", TypeOf(x), TypeOf(y)>>)
LessOrEqual(x, y, s) ==
  LET le == CommonHandler(s, x, y, "__le")
      lt == CommonHandler(s, y, x, "__lt")
  IN  IF x[1] = "number" /\ y[1] = "number" THEN Give(s, bool(x[2] <= y[2]))
      ELSE IF le # nil THEN Truth(CallFirst(le, <<x, y>>, s))
      ELSE IF lt # nil THEN Negation(CallFirst(lt, <<y, x>>, s))
      ELSE Fail(s, <<"compare", TypeOf(x), TypeOf(y)>>)

Apply(e, env, x, s) ==
  LET op == e[2]
  IN  CASE Stopped(s) -> s
        [] op = "==" /\ ~ Stopped(s) -> EqualTo(x, s.v, s)
        [] op = "~=" /\ ~ Stopped(s) -> Negation(EqualTo(x, s.v, s))
        [] op = "<" /\ ~ Stopped(s) -> LessThan(x, s.v, s)
        [] op = ">" /\ ~ Stopped(s) -> LessThan(s.v, x, s)
        [] op = "<=" /\ ~ Stopped(s) -> LessOrEqual(x, s.v, s)
        [] op = ">=" /\ ~ Stopped(s) -> LessOrEqual(s.v, x, s)
        [] op = ".." /\ ~ Stopped(s) -> Concatenation(x, s.v, NamedBy(e[3], env), NamedBy(e[4], env), s)
        [] OTHER -> ArithmeticOf(op, x, s.v, NamedBy(e[3], env), NamedBy(e[4], env), s)
Right(e, env, s) == IF Stopped(s) THEN s ELSE Apply(e, env, s.v, Exp(e[4], env, s))
ShortCut(e, env, s) ==
  IF Stopped(s) \/ (IsFalse(s.v) <=> e[2] = "and") THEN s ELSE Exp(e[4], env, s)
UnaryOf(op, x, name, s) ==
  CASE op = "not" -> Give(s, bool(IsFalse(x)))
    [] op = "-" ->
         IF x[1] = "number" THEN Give(s, num(0 - x[2]))
         ELSE IF Handler(s, x, "__unm") # nil THEN CallFirst(Handler(s, x, "__unm"), <<x, x>>, s)
         ELSE Fail(s, <<"arith", TypeOf(x)>> \o name)
    [] op = "#" ->
         IF x[1] = "string" THEN Give(s, num(Len(x[2])))
         ELSE IF x[1] = "table" THEN Give(s, num(Border(s, x[2])))
         ELSE Fail(s, <<"length", TypeOf(x)>> \o name)
Unary(e, env, s) == IF Stopped(s) THEN s ELSE UnaryOf(e[2], s.v, NamedBy(e[3], env), s)

(***************************************************************************)
(* Expressions.                                                            *)
(***************************************************************************)
WithTable(s) == Give([s EXCEPT !.tables = Append(@, [h |-> <<>>, meta |-> 0])], <<"table", Len(s.tables) + 1>>)

IndexBy(s, t, name) == IF Stopped(s) THEN s ELSE Get(s, t, s.v, name)
IndexFrom(e, env, s) ==
  IF Stopped(s) THEN s ELSE IndexBy(Exp(e[3], env, s), s.v, NamedBy(e[2], env))
FieldFrom(e, env, s) == IF Stopped(s) THEN s ELSE Get(s, s.v, <<"string", e[3]>>, NamedBy(e[2], env))

CallWithArgs(s, f, self, name) == IF Stopped(s) THEN s ELSE CallOf(f, self \o s.v, name, s)
ArgsAndCall(e, env, s) ==
  IF Stopped(s) THEN s ELSE CallWithArgs(Exps(e[3], env, s), s.v, <<>>, NamedBy(e[2], env))
ArgsAndSelf(e, env, self, s) ==
  IF Stopped(s) THEN s ELSE CallWithArgs(Exps(e[4], env, s), s.v, <<self>>, <<"method", e[3]>>)
MethodOf(e, env, s) ==
  IF Stopped(s) THEN s ELSE ArgsAndSelf(e, env, s.v, Get(s, s.v, <<"string", e[3]>>, NamedBy(e[2], env)))

(* Expressions of any number of values.                                     *)
Multi(e, env, s) ==
  CASE e[1] = "call" -> ArgsAndCall(e, env, Exp(e[2], env, s))
    [] e[1] = "method" -> MethodOf(e, env, Exp(e[2], env, s))
    [] e[1] = "..." -> Give(s, env.dots)
IsMulti(e) == e[1] \in {"call", "method", "..."}

Prepend(s, v) == IF Stopped(s) THEN s ELSE Give(s, <<v>> \o s.v)
RestOf(es, env, s) == IF Stopped(s) THEN s ELSE Prepend(Exps(Tail(es), env, s), s.v)
ExpList(es, env, s) ==
  IF es = <<>> THEN Give(s, <<>>)
  ELSE IF Len(es) = 1 /\ IsMulti(es[1]) THEN Multi(es[1], env, s)
  ELSE RestOf(es, env, Exp(es[1], env, s))

(* s.v is the table so far, n the number of its list items.                 *)
RECURSIVE ItemsOf(_, _, _, _, _)
ItemSet(s, items, env, t, n, k) ==
  IF Stopped(s) THEN s ELSE ItemsOf(RawPut(s, t, k, s.v), Tail(items), env, t, n)
ItemsSet(s, t, n) ==
  IF Stopped(s) THEN s
  ELSE Give(FoldLeft(LAMBDA st, j : RawPut(st, t, num(n + j), s.v[j]), s, [j \in DOMAIN s.v |-> j]), <<"table", t>>)
KeyedItem(s, items, env, t, n) ==
  IF Stopped(s) THEN s ELSE ItemSet(Exp(items[1][3], env, s), items, env, t, n, s.v)
ItemsOf(s, items, env, t, n) ==
  IF items = <<>> THEN Give(s, <<"table", t>>)
  ELSE CASE items[1][1] = "item" ->
              IF Len(items) = 1 /\ IsMulti(items[1][2]) THEN ItemsSet(Multi(items[1][2], env, s), t, n)
              ELSE ItemSet(Exp(items[1][2], env, s), items, env, t, n + 1, num(n + 1))
         [] items[1][1] = "named" -> ItemSet(Exp(items[1][3], env, s), items, env, t, n, <<"string", items[1][2]>>)
         [] items[1][1] = "keyed" -> KeyedItem(Exp(items[1][2], env, s), items, env, t, n)
TableOf(e, env, s) == ItemsOf(s, e[2], env, s.v[2], 0)

FunctionValue(f, env, s) ==
  Give([s EXCEPT !.funcs = Append(@, [f |-> f, env |-> env])], <<"function", Len(s.funcs) + 1>>)

Variable(x, env, s) ==
  IF x \in DOMAIN env.vars THEN Give(s, s.cells[env.vars[x].cell]) ELSE Get(s, <<"table", 1>>, <<"string", x>>, <<>>)

Expression(e, env, s) ==
  CASE e[1] = "nil" -> Give(s, nil)
    [] e[1] \in {"true", "false"} -> Give(s, bool(e[1] = "true"))
    [] e[1] = "num" -> Give(s, num(e[2]))
    [] e[1] = "str" -> Give(s, <<"string", e[2]>>)
    [] e[1] = "name" -> Variable(e[2], env, s)
    [] e[1] = "paren" -> Exp(e[2], env, s)
    [] e[1] = "field" -> FieldFrom(e, env, Exp(e[2], env, s))
    [] e[1] = "index" -> IndexFrom(e, env, Exp(e[2], env, s))
    [] IsMulti(e) -> OnlyFirst(Multi(e, env, s))
    [] e[1] = "un" -> Unary(e, env, Exp(e[3], env, s))
    [] e[1] = "bin" ->
         IF e[2] \in {"and", "or"} THEN ShortCut(e, env, Exp(e[3], env, s)) ELSE Right(e, env, Exp(e[3], env, s))
    [] e[1] = "function" -> FunctionValue(e, env, s)
    [] e[1] = "table" -> TableOf(e, env, WithTable(s))

(***************************************************************************)
(* Calls.                                                                  *)
(***************************************************************************)
(* New variables in new cells; the environment is in s.env.                 *)
Declare(s, env, names, values) ==
  LET n == Len(s.cells)
      cell(x) == n + (CHOOSE j \in DOMAIN names : names[j] = x /\ \A i \in DOMAIN names : names[i] = x => i <= j)
      new == [x \in {names[j] : j \in DOMAIN names} |-> [cell |-> cell(x), level |-> env.level]]
  IN  [s EXCEPT !.cells = @ \o Adjusted(values, Len(names)), !.env = [env EXCEPT !.vars = new @@ @]]

Returned(s) ==
  CASE s.out = "return" -> [s EXCEPT !.out = "normal"]
    [] s.out = "normal" -> Give(s, <<>>)
    [] OTHER -> s
ArgTableOf(s, extra) ==
  Give(FoldLeft(LAMBDA st, j : RawPut(st, Len(st.tables), num(j), extra[j]),
                RawPut(WithTable(s), Len(s.tables) + 1, <<"string", "n">>, num(Len(extra))), [j \in DOMAIN extra |-> j]),
       <<"table", Len(s.tables) + 1>>)
RunBody(f, s) == Returned(Block(f[4], s.env, s))
EnterFunction(f, env, args, s) ==
  LET extra == SubSeq(args, Len(f[2]) + 1, Len(args))
      inner == [env EXCEPT !.level = @ + 1, !.dots = IF f[3] = "no" THEN <<>> ELSE extra]
  IN  IF f[3] = "arg"
      THEN LET A == ArgTableOf(s, extra)
           IN  RunBody(f, Declare(A, inner, f[2] \o <<"arg">>, Adjusted(args, Len(f[2])) \o <<A.v>>))
      ELSE RunBody(f, Declare(s, inner, f[2], Adjusted(args, Len(f[2]))))

CallValue(c, s) ==
  LET h == Handler(s, c.f, "__call")
  IN  CASE c.f[1] = "function" -> EnterFunction(s.funcs[c.f[2]].f, s.funcs[c.f[2]].env, c.args, s)
        [] c.f = <<"builtin", "f">> ->
             Give([s EXCEPT !.log = Append(@, [j \in DOMAIN c.args |-> Display(c.args[j])])], c.args)
        [] c.f = <<"builtin", "g">> ->
             Give(s, IF c.args[2][2] >= c.args[1][2] THEN <<nil>> ELSE <<num(c.args[2][2] + 1), c.args[1]>>)
        [] c.f = <<"builtin", "setmetatable">> ->
             Give([s EXCEPT !.tables[c.args[1][2]].meta = IF c.args[2] = nil THEN 0 ELSE c.args[2][2]], <<c.args[1]>>)
        [] OTHER ->
             IF IsFunction(h) THEN CallOf(h, <<c.f>> \o c.args, <<>>, s) ELSE Fail(s, <<"call", TypeOf(c.f)>> \o c.name)

(***************************************************************************)
(* Statements.                                                             *)
(***************************************************************************)
Done(s, env) == [s EXCEPT !.env = env]
LocalStat(x, env, s) == IF Stopped(s) THEN s ELSE Declare(s, env, x[2], s.v)

(* The tables and keys of the targets, then the values, then the stores.    *)
RECURSIVE TargetsOf(_, _, _, _), StoreAll(_, _, _, _, _)
NextTargetOf(s, x, env, places, place) ==
  IF Stopped(s) THEN s ELSE TargetsOf(s, x, env, Append(places, place))
KeyOfTarget(s, x, env, places, t) ==
  IF Stopped(s) THEN s ELSE NextTargetOf(s, x, env, places, [t |-> t, k |-> s.v])
TableOfTarget(s, x, env, places, target) ==
  IF Stopped(s) THEN s
  ELSE KeyOfTarget(IF target[1] = "field" THEN Give(s, <<"string", target[3]>>) ELSE Exp(target[3], env, s),
                   x, env, places, s.v)
ValuesOf(s, x, env, places) ==
  IF Stopped(s) THEN s ELSE StoreAll(s, x, env, places, Adjusted(s.v, Len(x[2])))
TargetsOf(s, x, env, places) ==
  IF Len(places) = Len(x[2]) THEN ValuesOf(Exps(x[3], env, s), x, env, places)
  ELSE LET target == x[2][Len(places) + 1]
       IN  IF target[1] = "name" THEN NextTargetOf(s, x, env, places, [t |-> target, k |-> nil])
           ELSE TableOfTarget(Exp(target[2], env, s), x, env, places, target)
StoreIn(s, target, place, env, v) ==
  IF target[1] # "name" THEN Put(s, place.t, place.k, v, NamedBy(target[2], env))
  ELSE IF target[2] \in DOMAIN env.vars THEN [s EXCEPT !.cells[env.vars[target[2]].cell] = v]
  ELSE Put(s, <<"table", 1>>, <<"string", target[2]>>, v, <<>>)
StoreAll(s, x, env, places, values) ==
  IF values = <<>> \/ Stopped(s) THEN s
  ELSE LET j == Len(values) IN StoreAll(StoreIn(s, x[2][j], places[j], env, values[j]), x, env, places, SubSeq(values, 1, j - 1))

Loop(s) == IF s.out = "break" THEN [s EXCEPT !.out = "normal"] ELSE s
RECURSIVE WhileLoop(_, _, _), RepeatLoop(_, _, _), CountLoop(_, _, _, _, _, _), InLoop(_, _, _, _, _)
AgainWhile(x, env, s) == IF Stopped(s) THEN Loop(s) ELSE WhileLoop(x, env, s)
IfWhile(x, env, s) == IF Stopped(s) \/ IsFalse(s.v) THEN s ELSE AgainWhile(x, env, Block(x[3], env, s))
WhileLoop(x, env, s) == IfWhile(x, env, Exp(x[2], env, s))

UntilTrue(x, env, s) == IF Stopped(s) \/ ~ IsFalse(s.v) THEN s ELSE RepeatLoop(x, env, s)
ThenUntil(x, env, s) == IF Stopped(s) THEN Loop(s) ELSE UntilTrue(x, env, Exp(x[3], s.env, s))
RepeatLoop(x, env, s) == ThenUntil(x, env, Block(x[2], env, s))

NextCount(x, env, s, i, limit, step) == IF Stopped(s) THEN Loop(s) ELSE CountLoop(x, env, s, i + step, limit, step)
CountBody(x, env, s, i, limit, step) == NextCount(x, env, Block(x[4], s.env, s), i, limit, step)
CountLoop(x, env, s, i, limit, step) ==
  IF (step > 0 /\ i > limit) \/ (step <= 0 /\ i < limit) THEN s
  ELSE CountBody(x, env, Declare(s, env, <<x[2]>>, <<num(i)>>), i, limit, step)
ForWhat(n) == <<"initial value", "limit", "step">>[n]
ForNumeric(x, env, s) ==
  LET v == IF Len(s.v) = 2 THEN Append(s.v, num(1)) ELSE s.v
      bad == {n \in 1 .. 3 : v[n][1] # "number"}
  IN  IF Stopped(s) THEN s
      ELSE IF bad # {} THEN Fail(s, <<"for", ForWhat(CHOOSE n \in bad : \A m \in bad : n <= m)>>)
      ELSE CountLoop(x, env, s, v[1][2], v[2][2], v[3][2])

NextIn(x, env, s, f, state, control) == IF Stopped(s) THEN Loop(s) ELSE InLoop(x, env, s, <<f, state>>, control)
InBody(x, env, s, f, state) ==
  IF Stopped(s) \/ FirstOf(s.v) = nil THEN s
  ELSE LET D == Declare(s, env, x[2], s.v) IN NextIn(x, env, Block(x[4], D.env, D), f, state, FirstOf(s.v))
InLoop(x, env, s, iterator, control) ==
  InBody(x, env, CallOf(iterator[1], <<iterator[2], control>>, <<"any">>, s), iterator[1], iterator[2])
ForGeneric(x, env, s) ==
  IF Stopped(s) THEN s
  ELSE LET v == Adjusted(s.v, 3) IN InLoop(x, env, s, <<v[1], v[2]>>, v[3])

RECURSIVE IfBranches(_, _, _, _)
TakeBranch(branches, otherwise, env, s) ==
  IF Stopped(s) THEN s
  ELSE IF IsFalse(s.v) THEN IfBranches(Tail(branches), otherwise, env, s)
  ELSE Block(branches[1][2], env, s)
IfBranches(branches, otherwise, env, s) ==
  IF branches = <<>> THEN Block(otherwise, env, s)
  ELSE TakeBranch(branches, otherwise, env, Exp(branches[1][1], env, s))

StoreLocalFunction(x, s) ==
  LET F == FunctionValue(x[3], s.env, s) IN [F EXCEPT !.cells[s.env.vars[x[2]].cell] = F.v]
RECURSIVE FieldPath(_)
FieldPath(names) ==
  IF Len(names) = 1 THEN <<"name", names[1]>> ELSE <<"field", FieldPath(SubSeq(names, 1, Len(names) - 1)), names[Len(names)]>>
FunctionStat(x, env, s) ==
  LET f == x[4]
      target == FieldPath(IF x[3] = "" THEN x[2] ELSE Append(x[2], x[3]))
  IN  TargetsOf(s, <<"assign", <<target>>, <<IF x[3] = "" THEN f ELSE <<"function", <<"self">> \o f[2], f[3], f[4]>>>>>>,
                env, <<>>)
Return(s) == IF Stopped(s) THEN s ELSE [s EXCEPT !.out = "return"]

Statement(x, env, s) ==
  CASE x[1] = "local" -> LocalStat(x, env, Exps(x[3], env, s))
    [] x[1] = "localfunction" -> StoreLocalFunction(x, Declare(s, env, <<x[2]>>, <<>>))
    [] x[1] = "assign" -> Done(TargetsOf(s, x, env, <<>>), env)
    [] x[1] = "callstat" -> Done(Multi(x[2], env, s), env)
    [] x[1] = "do" -> Done(Block(x[2], env, s), env)
    [] x[1] = "while" -> Done(WhileLoop(x, env, s), env)
    [] x[1] = "repeat" -> Done(RepeatLoop(x, env, s), env)
    [] x[1] = "if" -> Done(IfBranches(x[2], x[3], env, s), env)
    [] x[1] = "fornum" -> Done(ForNumeric(x, env, Exps(x[3], env, s)), env)
    [] x[1] = "forin" -> Done(ForGeneric(x, env, Exps(x[3], env, s)), env)
    [] x[1] = "return" -> Return(Exps(x[2], env, s))
    [] x[1] = "break" -> [s EXCEPT !.out = "break"]
    [] x[1] = "functionstat" -> Done(FunctionStat(x, env, s), env)

RestOfBlock(b, s) == IF Stopped(s) THEN s ELSE Block(Tail(b), s.env, s)
Sem(what, x, env, s) ==
  CASE what = "exp" -> Expression(x, env, s)
    [] what = "exps" -> ExpList(x, env, s)
    [] what = "call" -> CallValue(x, s)
    [] what = "block" -> IF x = <<>> THEN Done(s, env) ELSE RestOfBlock(x, Statement(x[1], env, s))

(* A program is the body of a vararg function.                              *)
GlobalNames == {"f", "g", "setmetatable"}
Start0 ==
  [cells |-> <<>>, tables |-> <<[h |-> [k \in {<<"string", n>> : n \in GlobalNames} |-> <<"builtin", k[2]>>], meta |-> 0]>>,
   funcs |-> <<>>, log |-> <<>>, v |-> <<>>, env |-> NoEnv, out |-> "normal"]
Meaning(program, args) ==
  Returned(Block(program, [NoEnv EXCEPT !.level = 1, !.dots = args], Start0))
=============================================================================
