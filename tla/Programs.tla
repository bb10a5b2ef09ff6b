------------------------------ MODULE Programs ------------------------------
(***************************************************************************)
(* Families of small programs, as trees of LuaSyntax, that put every        *)
(* construct of the language into every context that is compiled in a way   *)
(* of its own.  No program depends on an order of evaluation that the       *)
(* manual leaves open, divides inexactly or has no end.                    *)
(***************************************************************************)
EXTENDS Integers, Sequences, SequencesExt

n(x) == <<"name", x>>
k(i) == <<"num", i>>
str(x) == <<"str", x>>
null == <<"nil">>
true == <<"true">>
dots == <<"...">>
bin(op, x, y) == <<"bin", op, x, y>>
un(op, x) == <<"un", op, x>>
fld(e, x) == <<"field", e, x>>
idx(e, i) == <<"index", e, i>>
call(e, args) == <<"call", e, args>>
method(e, x, args) == <<"method", e, x, args>>
callf(args) == call(n("f"), args)
fun(params, body) == <<"function", params, "no", body>>
varfun(params, body) == <<"function", params, "...", body>>
argfun(params, body) == <<"function", params, "arg", body>>
tbl(es) == <<"table", [j \in DOMAIN es |-> <<"item", es[j]>>]>>
empty == <<"table", <<>>>>

local(names, es) == <<"local", names, es>>
set(target, e) == <<"assign", <<target>>, <<e>>>>
do(e) == <<"callstat", e>>
ret(es) == <<"return", es>>
when(c, block) == <<"if", <<<<c, block>>>>, <<>>>>
ifelse(c, b1, b2) == <<"if", <<<<c, b1>>>>, b2>>

(* Two arguments, as locals and as globals.                                *)
Two == <<local(<<"a", "b">>, <<dots>>), <<"assign", <<n("ga"), n("gb")>>, <<n("a"), n("b")>>>>>>

(***************************************************************************)
(* Conditions, as values and as jumps.                                    *)
(***************************************************************************)
Atom == {n("a"), n("gb"), null, true}
Literal == Atom \cup {un("not", n("a")), bin("==", n("a"), n("gb")), bin("~=", n("b"), k(1))}
Clause == {bin(op, x, y) : op \in {"and", "or"}, x \in Literal, y \in Literal}
SmallLiteral == {n("b"), bin("==", n("b"), n("ga"))}
SmallClause == {bin(op, x, y) : op \in {"and", "or"}, x \in {n("a"), un("not", n("gb"))}, y \in SmallLiteral}
Nested ==
  {bin(op, x, y) : op \in {"and", "or"}, x \in SmallClause, y \in SmallClause}
  \cup {bin(op, x, y) : op \in {"and", "or"}, x \in SmallLiteral, y \in SmallClause}
  \cup {bin("==", x, y) : x \in SmallClause, y \in {null, n("a")}}
  \cup {un("not", x) : x \in SmallClause}
Conditions == Literal \cup Clause \cup Nested \cup {un("not", x) : x \in {c \in Clause : c[4] \in Atom}}

AsValue(e) == {<<ret(<<e>>)>>, <<set(n("a"), e), ret(<<n("a"), n("b")>>)>>}
AsOperand(e) == {<<ret(<<callf(<<n("b"), e>>), n("a")>>)>>,
                 <<set(fld(empty, "x"), k(1))>>,
                 <<local(<<"t">>, <<tbl(<<e, n("b")>>)>>), ret(<<idx(n("t"), k(1)), idx(n("t"), k(2))>>)>>}
AsJump(e) ==
  {<<ifelse(e, <<do(callf(<<k(1)>>))>>, <<do(callf(<<k(2)>>))>>)>>,
   <<<<"while", e, <<do(callf(<<k(1)>>)), <<"break">>>>>>, ret(<<k(3)>>)>>,
   <<local(<<"i">>, <<k(0)>>), <<"repeat", <<set(n("i"), bin("+", n("i"), k(1)))>>, bin("or", bin(">=", n("i"), k(2)), e)>>,
     ret(<<n("i")>>)>>}
ConditionPrograms ==
  {Two \o c : c \in UNION {AsValue(e) \cup AsJump(e) : e \in Conditions}}
  \cup {Two \o c : c \in UNION {AsOperand(e) \ {<<set(fld(empty, "x"), k(1))>>} : e \in Nested \cup SmallClause}}
  \cup {Two \o <<<<"if", <<<<e, <<do(callf(<<k(1)>>))>>>>, <<n("b"), <<ret(<<k(2)>>)>>>>, <<d, <<>>>>>>, <<do(callf(<<k(3)>>))>>>>>> :
          e \in SmallClause, d \in SmallLiteral}

(***************************************************************************)
(* Operators: precedence, associativity, registers, folded constants.      *)
(***************************************************************************)
Binaries == {"or", "and", "<", ">", "<=", ">=", "~=", "==", "..", "+", "-", "*", "/", "%", "^"}
Arithmetics == {"+", "-", "*", "/", "%", "^"}
Leaves == {<<n("x"), n("y"), n("z")>>, <<k(4), k(2), k(1)>>, <<n("x"), k(2), callf(<<n("z")>>)>>}
(* No string is an operand of arithmetic.                                  *)
LeftNested(l) ==
  {bin(o, bin(i, l[1], l[2]), l[3]) : o \in Binaries, i \in Binaries \ {".."}}
  \cup {bin(o, bin("..", l[1], l[2]), l[3]) : o \in Binaries \ Arithmetics}
RightNested(l) ==
  {bin(o, l[1], bin(i, l[2], l[3])) : o \in Binaries \ {"/", "%"}, i \in Binaries \ {".."}}
  \cup {bin(o, l[1], bin("..", l[2], l[3])) : o \in Binaries \ Arithmetics}
  \cup {bin("/", l[1], bin(i, l[2], l[3])) : i \in {"*", "/", "-", "^", "and"}}
  \cup {bin("%", l[1], bin(i, l[2], l[3])) : i \in {"+", "*", "/", "-", "^", "or"}}
WithUnary(l) ==
  {un(u, bin(o, l[1], l[2])) : u \in {"-", "not"}, o \in Binaries \ {".."}}
  \cup {bin(o, un(u, l[1]), l[2]) : u \in {"-", "not", "#"}, o \in Binaries}
  \cup {bin(o, l[1], un(u, l[2])) : u \in {"-", "not"}, o \in Binaries \ {"/", "%", "^"}}
  \cup {bin("+", l[1], un("-", bin("^", l[2], l[3]))), un("-", un("-", l[1])), un("#", bin("..", l[1], l[2]))}
Expressions == UNION {LeftNested(l) \cup RightNested(l) \cup WithUnary(l) : l \in Leaves}
OperatorPrograms ==
  {<<local(<<"x", "y", "z">>, <<k(4), k(2), k(1)>>), ret(<<e, n("x")>>)>> : e \in Expressions}

(***************************************************************************)
(* Loops, variables captured in them, and ways out.                        *)
(***************************************************************************)
(* The last two functions that captured something.                         *)
Capture(e) == <<"assign", <<n("p"), n("q")>>, <<n("q"), fun(<<>>, <<ret(<<e>>)>>)>>>>
Captures ==
  {<<>>, <<Capture(n("x"))>>, <<Capture(n("i"))>>,
   <<Capture(n("x")), set(n("x"), bin("+", n("x"), k(10)))>>,
   <<<<"do", <<local(<<"y">>, <<n("x")>>), Capture(bin("+", n("y"), n("x")))>>>>>>}
Out == bin("==", n("x"), k(2))
Exits ==
  {<<>>, <<when(Out, <<<<"break">>>>)>>, <<when(Out, <<ret(<<n("x")>>)>>)>>,
   <<<<"do", <<local(<<"y">>, <<n("x")>>), Capture(n("y")), when(Out, <<<<"break">>>>)>>>>>>,
   <<when(Out, <<local(<<"y">>, <<n("c")>>), Capture(n("y")), <<"break">>>>)>>}
Count == set(n("c"), bin("+", n("c"), k(1)))
Bodies(init) ==
  {<<Count, local(<<"x">>, <<n("c")>>)>> \o init \o p : p \in {c \o e : c \in Captures, e \in Exits} \cup {e \o c : c \in Captures, e \in Exits \ {<<>>}}}
I1 == <<local(<<"i">>, <<n("x")>>)>>
Loops ==
  {<<"while", bin("<", n("c"), k(3)), b>> : b \in Bodies(I1)}
  \cup {<<"repeat", b, bin(">=", n("x"), k(3))>> : b \in Bodies(I1)}
  \cup {<<"repeat", b, bin(">=", n("c"), k(3))>> : b \in Bodies(I1)}
  \cup {<<"fornum", "i", <<k(1), k(3)>>, b>> : b \in Bodies(<<>>)}
  \cup {<<"fornum", "i", <<k(3), k(1), un("-", k(1))>>, b>> : b \in Bodies(<<>>)}
  \cup {<<"forin", <<"i", "m">>, <<n("g"), k(3), k(0)>>, b>> : b \in Bodies(<<>>)}
CallIf(h) == when(n(h), <<do(callf(<<call(n(h), <<>>)>>))>>)
Counter == local(<<"c", "p", "q">>, <<k(0)>>)
LoopPrograms ==
  {<<Counter, l, local(<<"z">>, <<>>), CallIf("p"), CallIf("q"), ret(<<n("z"), n("c")>>)>> : l \in Loops}
  \cup {<<Counter, <<"localfunction", "h", fun(<<>>, <<<<"fornum", "i", <<k(1), k(3)>>, <<Count, local(<<"x">>, <<n("c")>>)>> \o c \o <<when(Out, <<ret(<<n("x")>>)>>)>>>>>>)>>,
          local(<<"r">>, <<call(n("h"), <<>>)>>), CallIf("p"), CallIf("q"), ret(<<n("r"), n("c")>>)>> : c \in {<<Capture(n("x"))>>, <<Capture(n("i"))>>}}
  \cup {<<<<"fornum", "i", e, <<do(callf(<<n("i")>>))>>>>>> :
          e \in {<<k(1), null>>, <<true, k(2)>>, <<k(1), k(2), str("s")>>, <<k(2), k(1)>>, <<k(1), k(2), k(5)>>}}

(* A generic for with more values than its three.                           *)
ExtraPrograms ==
  {<<<<"forin", <<"i", "m">>, <<n("g"), k(3), k(0)>> \o extra, <<local(<<"x">>, <<k(5)>>), do(callf(<<n("x"), n("i")>>))>>>>>> :
     extra \in {<<>>, <<k(8)>>, <<k(8), k(9)>>, <<callf(<<k(8), k(9)>>)>>}}

(***************************************************************************)
(* Assignments to several targets.                                        *)
(***************************************************************************)
Targets == {n("i"), n("t"), idx(n("t"), n("i")), fld(n("t"), "x"), n("gi"), idx(n("gt"), n("gi")), idx(n("s"), n("i"))}
TargetLists ==
  {l \in {<<x, y>> : x \in Targets, y \in Targets} \cup {<<x, y, z>> : x \in Targets, y \in Targets, z \in {n("i"), n("t"), n("gi")}} : IsInjective(l)}
ValueLists == {<<k(7), bin("+", n("i"), k(1)), n("s")>>, <<callf(<<n("i"), k(8), k(9)>>)>>, <<dots>>,
               <<n("i"), n("gi")>>, <<k(7), k(8), k(9), callf(<<n("t")>>)>>}
AssignPrelude ==
  <<local(<<"i", "t", "s">>, <<k(1), tbl(<<k(10), k(20)>>), tbl(<<k(40)>>)>>),
    <<"assign", <<n("gi"), n("gt")>>, <<k(1), tbl(<<k(50)>>)>>>>,
    local(<<"u", "gu">>, <<n("t"), n("gt")>>)>>
Seen == ret(<<n("i"), n("gi"), idx(n("u"), k(1)), idx(n("u"), k(2)), fld(n("u"), "x"), idx(n("gu"), k(1)), idx(n("s"), k(1)),
              n("t")>>)
AssignPrograms ==
  {AssignPrelude \o <<<<"assign", l, v>>, Seen>> : l \in TargetLists, v \in ValueLists \ {<<dots>>}}
  \cup {AssignPrelude \o <<<<"localfunction", "h", varfun(<<>>, <<<<"assign", l, v>>>>)>>, do(call(n("h"), <<k(5), k(6), k(7)>>)), Seen>> :
          l \in {m \in TargetLists : Len(m) = 2}, v \in ValueLists}

(***************************************************************************)
(* Functions, arguments, results and constructors.                         *)
(***************************************************************************)
Functions ==
  {fun(<<"p", "q">>, <<ret(<<n("p"), n("q")>>)>>),
   fun(<<>>, <<>>),
   varfun(<<"p">>, <<ret(<<dots, n("p")>>)>>),
   varfun(<<>>, <<local(<<"p", "q">>, <<dots>>), ret(<<n("q"), n("p"), dots>>)>>),
   varfun(<<"p", "q">>, <<local(<<"p">>, <<n("q")>>), ret(<<n("p"), dots>>)>>),
   argfun(<<"p">>, <<ret(<<fld(n("arg"), "n"), idx(n("arg"), k(1)), n("p")>>)>>),
   varfun(<<"p">>, <<ret(<<callf(<<n("p"), dots>>)>>)>>)}
Arguments ==
  {<<>>, <<n("a")>>, <<n("a"), n("b"), k(3)>>, <<callf(<<n("a"), n("b")>>)>>, <<callf(<<n("a")>>), n("b")>>,
   <<dots>>, <<<<"paren", dots>>>>, <<k(1), dots>>}
Uses(c) ==
  {<<ret(<<c>>)>>, <<ret(<<<<"paren", c>>>>)>>, <<ret(<<c, k(9)>>)>>, <<ret(<<k(9), c>>)>>,
   <<local(<<"x", "y", "z">>, <<c>>), ret(<<n("z"), n("y"), n("x")>>)>>,
   <<do(c), ret(<<n("a")>>)>>,
   <<local(<<"t">>, <<tbl(<<k(9), c>>)>>), ret(<<un("#", n("t")), idx(n("t"), k(2)), idx(n("t"), k(3))>>)>>,
   <<local(<<"t">>, <<tbl(<<c, k(9)>>)>>), ret(<<idx(n("t"), k(1)), idx(n("t"), k(2)), idx(n("t"), k(3))>>)>>,
   <<ret(<<callf(<<c, c>>)>>)>>}
CallPrograms ==
  {<<local(<<"a", "b">>, <<dots>>), local(<<"h">>, <<fn>>)>> \o u :
     fn \in Functions, u \in UNION {Uses(call(n("h"), args)) : args \in Arguments}}
Sum ==   \* a tail call and a call, recursive
  <<<<"localfunction", "sum", fun(<<"p", "q">>,
       <<when(bin("==", n("p"), k(0)), <<ret(<<n("q")>>)>>),
         ret(<<call(n("sum"), <<bin("-", n("p"), k(1)), bin("+", n("q"), n("p"))>>)>>)>>)>>,
    <<"localfunction", "fac", fun(<<"p">>,
       <<ret(<<bin("or", bin("and", bin("<=", n("p"), k(1)), k(1)), bin("*", n("p"), call(n("fac"), <<bin("-", n("p"), k(1))>>)))>>)>>)>>,
    ret(<<call(n("fac"), <<k(4)>>), call(n("sum"), <<k(3), k(0)>>)>>)>>
CapturedParameter ==   \* a tail call closes the upvalues of its frame
  <<local(<<"h">>, <<fun(<<"p">>,
       <<local(<<"get">>, <<fun(<<>>, <<set(n("p"), bin("+", n("p"), k(1))), ret(<<n("p")>>)>>)>>),
         ret(<<callf(<<call(n("get"), <<>>), n("p")>>)>>)>>)>>),
    local(<<"mk">>, <<fun(<<"p">>, <<ret(<<fun(<<>>, <<set(n("p"), bin("+", n("p"), k(1))), ret(<<n("p")>>)>>)>>)>>)>>),
    local(<<"c1", "c2">>, <<call(n("mk"), <<k(1)>>), call(n("mk"), <<k(5)>>)>>),
    ret(<<call(n("h"), <<k(1)>>), call(n("c1"), <<>>), call(n("c2"), <<>>), call(n("c1"), <<>>)>>)>>
Methods ==
  {<<local(<<"o">>, <<<<"table", <<<<"named", "v", k(3)>>, <<"named", "w", empty>>>>>>>>),
     <<"functionstat", <<"o">>, "m", fun(<<"x">>, <<ret(<<fld(n("self"), "v"), n("x")>>)>>)>>,
     <<"functionstat", <<"o", "w">>, "h", fun(<<"x">>, <<ret(<<n("x"), n("self")>>)>>)>>,
     <<"functionstat", <<"o", "s">>, "", fun(<<"x">>, <<ret(<<n("x")>>)>>)>>,
     ret(<<e>>)>> : e \in {method(n("o"), "m", <<k(1)>>), method(fld(n("o"), "w"), "h", <<callf(<<k(1), k(2)>>)>>),
                           bin("+", call(fld(n("o"), "s"), <<k(1)>>), method(n("o"), "m", <<>>)),
                           method(n("o"), "q", <<k(1)>>), method(n("q"), "m", <<>>)}}
Items == {<<"item", k(1)>>, <<"item", null>>, <<"named", "x", k(2)>>, <<"keyed", bin("+", n("a"), k(9)), n("b")>>}
LastItem == {<<"item", callf(<<k(6), k(7), k(8)>>)>>, <<"item", dots>>, <<"item", k(5)>>}
ConstructorPrograms ==
  {<<local(<<"a", "b">>, <<dots>>), set(n("a"), k(1)), local(<<"t">>, <<<<"table", l>>>>),
     ret([j \in 1 .. 6 |-> idx(n("t"), k(j))] \o <<idx(n("t"), k(10)), fld(n("t"), "x"), n("a")>>)>> :
     l \in {<<x, y, z, w>> : x \in Items, y \in Items, z \in Items, w \in LastItem}
           \cup {<<x, y, z, x, y, w>> : x \in {<<"item", k(1)>>}, y \in {<<"item", k(2)>>}, z \in Items, w \in LastItem}}
FunctionPrograms == CallPrograms \cup {Sum, CapturedParameter} \cup Methods \cup ConstructorPrograms

(***************************************************************************)
(* Errors: an operation on a value that has none, in every kind of place.  *)
(***************************************************************************)
Places == {n("a"), n("v"), n("none"), fld(n("t"), "x"), idx(n("t"), k(1)), idx(n("t"), str("y")), fld(fld(n("t"), "s"), "z"),
           call(n("h"), <<>>), null, true, <<"paren", bin("or", n("a"), n("v"))>>}
Wrong(e) ==
  {fld(e, "y"), idx(e, k(1)), call(e, <<k(1)>>), method(e, "m", <<>>), bin("+", e, k(1)), bin("-", k(1), e), bin("*", e, e),
   un("-", e), un("#", e), bin("..", e, str("s")), bin("..", str("s"), e), bin("<", e, k(1)), bin("<=", k(1), e), bin(">", e, e)}
ErrorPrograms ==
  {<<local(<<"v", "t", "h">>, <<null, <<"table", <<<<"named", "s", empty>>>>>>, fun(<<>>, <<>>)>>),
     local(<<"fn">>, <<fun(<<"a">>, <<local(<<"b">>, <<k(1)>>), do(callf(<<n("b")>>))>> \o s)>>),
     do(callf(<<call(n("fn"), <<>>)>>))>> :
     s \in UNION {{<<local(<<"r">>, <<w>>), ret(<<n("r")>>)>> : w \in Wrong(p)} : p \in Places}
           \cup {<<set(fld(p, "y"), k(1))>> : p \in Places \cap {q \in Places : q[1] \notin {"nil", "true"}}}
           \cup {<<<<"forin", <<"i">>, <<p>>, <<>>>>>> : p \in Places}
           \cup {<<<<"assign", <<idx(n("t"), k(1)), fld(p, "y")>>, <<k(1), n("b")>>>>>> :
                   p \in {q \in Places : q[1] \notin {"nil", "true"}}}}

(***************************************************************************)
(* Metamethods.                                                            *)
(***************************************************************************)
Noted(event) == fun(<<"p", "q">>, <<do(callf(<<str(event), n("p"), n("q")>>)), ret(<<k(7), k(8)>>)>>)
Events == <<"__add", "__sub", "__mul", "__div", "__mod", "__pow", "__unm", "__concat", "__eq", "__lt", "__le",
            "__index", "__newindex", "__call">>
Objects ==
  <<local(<<"mt">>, <<<<"table", [e \in DOMAIN Events |-> <<"named", Events[e], Noted(Events[e])>>]>>>>),
    local(<<"o">>, <<call(n("setmetatable"), <<empty, n("mt")>>)>>),
    local(<<"p">>, <<call(n("setmetatable"), <<empty, n("mt")>>)>>)>>
Operands == {n("o"), n("p"), k(3), str("s")}
WithObject == {<<x, y>> \in Operands \X Operands : n("o") \in {x, y}}
MetaExpressions ==
  {bin(op, l[1], l[2]) : op \in Arithmetics \cup {"..", "==", "<"}, l \in WithObject}
  \cup {bin("..", bin("..", l[1], l[2]), k(1)) : l \in WithObject}
  \cup {bin("..", k(1), bin("..", l[1], l[2])) : l \in WithObject}
  \cup {bin(op, n("o"), n("p")) : op \in {"<=", ">", ">=", "~="}}
  \cup {un("-", n("o")), un("not", n("o")), fld(n("o"), "x"), idx(n("o"), n("p")), call(n("o"), <<>>),
        call(n("o"), <<k(1), n("p")>>), method(n("o"), "m", <<k(1)>>),
        bin("+", fld(n("o"), "x"), call(n("p"), <<k(2)>>))}
MetaPrograms ==
  {Objects \o <<ret(<<e, n("o")>>)>> : e \in MetaExpressions}
  \cup {Objects \o <<ifelse(e, <<ret(<<k(1)>>)>>, <<ret(<<k(2)>>)>>)>> :
          e \in {bin(op, n("o"), n("p")) : op \in {"==", "~=", "<", ">", "<=", ">="}}}
  \cup {Objects \o <<set(fld(n("mt"), "__le"), null), ret(<<bin(op, n("o"), n("p"))>>)>> : op \in {"<=", ">="}}
  \cup {Objects \o <<<<"assign", <<fld(n("o"), "x"), idx(n("o"), k(1))>>, <<k(1), n("p")>>>>, ret(<<n("o")>>)>>,
        Objects \o <<set(fld(n("mt"), "__add"), k(1)), ret(<<bin("+", n("o"), k(1))>>)>>,
        Objects \o <<set(fld(n("mt"), "__index"), <<"table", <<<<"named", "x", k(5)>>>>>>), ret(<<fld(n("o"), "x"), fld(n("o"), "y")>>)>>,
        Objects \o <<local(<<"r">>, <<empty>>), set(fld(n("mt"), "__newindex"), n("r")), set(fld(n("o"), "x"), k(4)),
                     ret(<<fld(n("r"), "x")>>)>>,
        Objects \o <<set(fld(n("mt"), "__index"), call(n("setmetatable"), <<empty, <<"table", <<<<"named", "__index",
                       fun(<<"q", "w">>, <<ret(<<n("w")>>)>>)>>>>>>>>)), ret(<<fld(n("o"), "z")>>)>>,
        Objects \o <<<<"forin", <<"i">>, <<n("o")>>, <<do(callf(<<n("i")>>)), <<"break">>>>>>>>}
(* Sequences of changes and uses of a metatable, which may be its own.      *)
Changes ==
  {do(callf(<<fld(n("o"), "x")>>)), set(fld(n("o"), "x"), k(1)), set(fld(n("mt"), "__index"), n("h")),
   set(fld(n("mt"), "__index"), null), set(fld(n("mt"), "__newindex"), n("h")), do(callf(<<bin("==", n("o"), n("p"))>>)),
   set(fld(n("mt"), "__eq"), n("h")), set(fld(n("mt"), "y"), k(2))}
CachePrograms ==
  {<<local(<<"mt">>, <<empty>>), local(<<"h">>, <<fun(<<"q", "w">>, <<ret(<<k(9)>>)>>)>>),
     local(<<"o">>, <<call(n("setmetatable"), <<empty, n("mt")>>)>>),
     local(<<"p">>, <<call(n("setmetatable"), <<empty, n("mt")>>)>>)>> \o own \o c :
     own \in {<<>>, <<do(call(n("setmetatable"), <<n("mt"), n("mt")>>))>>},
     c \in {<<x, y, z>> : x \in Changes, y \in Changes, z \in Changes}}
=============================================================================
