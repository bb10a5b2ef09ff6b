------------------------------ MODULE LuaParser ------------------------------
(***************************************************************************)
(* The parser of Lua (lparser.c): recursive descent over the tokens of a    *)
(* chunk, which calls the code generator on the way.                       *)
(*                                                                         *)
(* The state s of LuaCode also has the tokens (s.toks), the position of the *)
(* current one (s.i) and the state of the enclosing function (s.prev).      *)
(* A variable that C keeps on its stack over a call is a value of a LET.    *)
(* Only grammatical chunks are parsed, so that a check of the next token    *)
(* is an assertion.                                                        *)
(***************************************************************************)
EXTENDS LuaCode, SequencesExt

Tok(s) == s.toks[s.i].token
Seminfo(s) == s.toks[s.i].seminfo
Lookahead(s) == s.toks[s.i + 1].token
luaX_next(s) == [s EXCEPT !.i = @ + 1]
testnext(s, c) == IF Tok(s) = c THEN luaX_next(s) ELSE s
checknext(s, c) == IF Tok(s) = c THEN luaX_next(s) ELSE lua_assert(s, FALSE)
(* The name that the current token is; str_checkname goes on to the next.   *)
str_checkname(s) == checknext(s, "NAME")

codestring(s, str) == LET c == luaK_stringK(s, str) IN WithExp(c, init_exp("VK", c.r))
checkname(s) == codestring(str_checkname(s), Seminfo(s))

(***************************************************************************)
(* Variables.  actvar holds, by register, the variables that are active and *)
(* after them those that are about to be, as indices of locvars.            *)
(***************************************************************************)
new_localvar(s, name) ==
  [s EXCEPT !.locvars = Append(@, [varname |-> name, startpc |-> 0, endpc |-> 0]),
            !.actvar = Append(@, Len(s.locvars) + 1)]

StartScope(s, v) == [s EXCEPT !.locvars[v].startpc = Len(s.code)]
adjustlocalvars(s, nvars) ==
  FoldLeft(StartScope, [s EXCEPT !.nactvar = @ + nvars], SubSeq(s.actvar, s.nactvar + 1, s.nactvar + nvars))

EndScope(s, v) == [s EXCEPT !.locvars[v].endpc = Len(s.code)]
removevars(s, tolevel) ==
  FoldLeft(EndScope, [s EXCEPT !.nactvar = tolevel, !.actvar = SubSeq(@, 1, tolevel)],
           SubSeq(s.actvar, tolevel + 1, s.nactvar))

searchvar(s, n) ==
  Max({-1} \cup {v \in 0 .. s.nactvar - 1 : s.locvars[s.actvar[v + 1]].varname = n})

(* The blocks of a function, the outermost first; -1 for none.              *)
markupval(s, level) ==
  LET around == {b \in DOMAIN s.bl : s.bl[b].nactvar <= level}
  IN  IF around = {} THEN s ELSE [s EXCEPT !.bl[Max(around)].upval = TRUE]

indexupvalue(s, name, v) ==
  LET known == {u \in DOMAIN s.upvalues : s.upvalues[u].k = v.k /\ s.upvalues[u].info = v.info}
      u == CHOOSE u \in known : TRUE
  IN  IF known # {} THEN [lua_assert(s, s.upvalues[u].name = name) EXCEPT !.r = u - 1]
      ELSE [lua_assert(s, v.k \in {"VLOCAL", "VUPVAL"})
              EXCEPT !.upvalues = Append(@, [k |-> v.k, info |-> v.info, name |-> name]),
                     !.r = Len(s.upvalues)]

(* The level of the state of no function is 0.                              *)
NoFunction == [level |-> 0, source |-> "=chunk", e |-> init_exp("VGLOBAL", NO_REG)]
RECURSIVE singlevaraux(_, _, _)
singlevaraux(s, n, base) ==
  LET v == searchvar(s, n)
      outer == singlevaraux(s.prev, n, FALSE)
      u == indexupvalue([s EXCEPT !.prev = outer], n, outer.e)
  IN  IF s.level = 0 THEN NoFunction
      ELSE IF v >= 0 THEN WithExp(IF base THEN s ELSE markupval(s, v), init_exp("VLOCAL", v))
      ELSE IF outer.e.k = "VGLOBAL" THEN WithExp(s, outer.e)
      ELSE WithExp(u, init_exp("VUPVAL", u.r))

singlevar(s0) ==
  LET s == singlevaraux(str_checkname(s0), Seminfo(s0), TRUE)
      k == luaK_stringK(s, Seminfo(s0))
  IN  IF s.e.k = "VGLOBAL" THEN [k EXCEPT !.e.info = k.r] ELSE s

adjust_assign(s, nvars, nexps) ==
  LET extra == nvars - nexps
      wanted == Max({extra + 1, 0})
      m == luaK_setreturns(s, wanted)
      x == IF s.e.k # "VVOID" THEN luaK_exp2nextreg(s) ELSE s
  IN  IF hasmultret(s.e.k) THEN IF wanted > 1 THEN luaK_reserveregs(m, wanted - 1) ELSE m
      ELSE IF extra > 0 THEN luaK_nil(luaK_reserveregs(x, extra), x.freereg, extra)
      ELSE x

(***************************************************************************)
(* Blocks and functions.                                                   *)
(***************************************************************************)
enterblock(s, isbreakable) ==
  [lua_assert(s, s.freereg = s.nactvar)
     EXCEPT !.bl = Append(@, [breaklist |-> NO_JUMP, isbreakable |-> isbreakable,
                              nactvar |-> s.nactvar, upval |-> FALSE])]

CurrentBlock(s) == s.bl[Len(s.bl)]
LeftBlock(s, bl) ==
  luaK_patchtohere([lua_assert(s, ~ (bl.isbreakable /\ bl.upval)) EXCEPT !.freereg = s.nactvar],
                   bl.breaklist)
LeaveTo(s, bl) == removevars([s EXCEPT !.bl = SubSeq(@, 1, Len(@) - 1)], bl.nactvar)
leaveblock(s) ==
  IF CurrentBlock(s).upval
  THEN LeftBlock(luaK_codeABC(LeaveTo(s, CurrentBlock(s)), "CLOSE", CurrentBlock(s).nactvar, 0, 0), CurrentBlock(s))
  ELSE LeftBlock(LeaveTo(s, CurrentBlock(s)), CurrentBlock(s))

RECURSIVE CaptureUpvalues(_, _, _)
CaptureUpvalues(s, upvalues, u) ==
  IF u > Len(upvalues) THEN s
  ELSE CaptureUpvalues(luaK_codeABC(s, IF upvalues[u].k = "VLOCAL" THEN "MOVE" ELSE "GETUPVAL",
                                    0, upvalues[u].info, 0), upvalues, u + 1)

(* The prototype that the state of a function leaves.                       *)
Proto(s) ==
  [code |-> s.code, k |-> s.k, p |-> s.p, nups |-> Len(s.upvalues),
   upvalues |-> [u \in DOMAIN s.upvalues |-> s.upvalues[u].name], locvars |-> s.locvars,
   source |-> s.source, numparams |-> s.numparams, is_vararg |-> s.is_vararg, maxstacksize |-> s.maxstacksize]

CaptureAll(s, upvalues) == WithExp(CaptureUpvalues(s, upvalues, 1), init_exp("VRELOCABLE", s.r))
pushclosure(s, func) ==
  CaptureAll(luaK_codeABx([s EXCEPT !.p = Append(@, Proto(func))], "CLOSURE", 0, Len(s.p)), func.upvalues)

open_func(toks, i, ok, prev) ==
  [code |-> <<>>, k |-> <<>>, p |-> <<>>, upvalues |-> <<>>, numparams |-> 0, is_vararg |-> {},
   maxstacksize |-> 2, freereg |-> 0, nactvar |-> 0, actvar |-> <<>>, locvars |-> <<>>, lasttarget |-> -1,
   jpc |-> NO_JUMP, bl |-> <<>>, prev |-> prev, level |-> prev.level + 1, source |-> prev.source,
   e |-> init_exp("VVOID", 0), r |-> 0, ok |-> ok, toks |-> toks, i |-> i]

NoBlocks(s) == lua_assert(s, s.bl = <<>>)
close_func(s) == NoBlocks(luaK_ret(removevars(s, 0), 0, 0))

block_follow(token) == token \in {"else", "elseif", "end", "until", "EOS"}

(* The mutual recursion goes through one operator, Parse; limit is how      *)
(* tightly the binary operators of an expression bind at least.             *)
RECURSIVE Parse(_, _, _)
subexpr(s, limit) == Parse("subexpr", s, limit)
expr(s) == subexpr(s, 0)
primaryexp(s) == Parse("primaryexp", s, 0)
constructor(s) == Parse("constructor", s, 0)
chunk(s) == Parse("chunk", s, 0)

NoBreakLeft(s) == lua_assert(s, CurrentBlock(s).breaklist = NO_JUMP)
block(s) == leaveblock(NoBreakLeft(chunk(enterblock(s, FALSE))))

RECURSIVE Parameters(_)
(* LUA_COMPAT_VARARG: a vararg function has a hidden parameter, arg.        *)
Parameters(s) ==
  CASE Tok(s) = "NAME" ->
         LET n == new_localvar(str_checkname(s), Seminfo(s))
         IN  IF Tok(n) = "," THEN Parameters(luaX_next(n)) ELSE n
    [] Tok(s) = "..." ->
         [new_localvar(luaX_next(s), "arg") EXCEPT !.is_vararg = {"HASARG", "NEEDSARG", "ISVARARG"}]
    [] OTHER -> s
ActivateAll(s) == adjustlocalvars(s, Len(s.actvar) - s.nactvar)
CountParameters(s) ==
  luaK_reserveregs([s EXCEPT !.numparams = s.nactvar - (IF s.is_vararg = {} THEN 0 ELSE 1)], s.nactvar)
parlist(s) == CountParameters(ActivateAll(Parameters(s)))

WithSelf(s, needself) == IF needself THEN adjustlocalvars(new_localvar(s, "self"), 1) ELSE s
BackToOuter(s) == pushclosure([s.prev EXCEPT !.i = s.i, !.ok = s.ok], s)
body(s, needself) ==
  BackToOuter(close_func(checknext(chunk(checknext(parlist(
    WithSelf(checknext(open_func(s.toks, s.i, s.ok, s), "("), needself)), ")")), "end")))

(***************************************************************************)
(* Expressions.                                                            *)
(***************************************************************************)
(* s.e is the key; t[k] or t.k for the table t.                             *)
IndexWith(s, t) == luaK_indexed(WithExp(s, t), s.e)
FieldOf(s) == IndexWith(checkname(luaX_next(s)), s.e)
field(s) == FieldOf(luaK_exp2anyreg(s))

yindex(s) == checknext(luaK_exp2val(expr(luaX_next(s))), "]")
IndexOf(s) == IndexWith(yindex(s), s.e)

(* cc.t is the register of the table, cc.v the last item, if it is pending. *)
ItemKey(s) == luaK_exp2RK(checknext(IF Tok(s) = "NAME" THEN checkname(s) ELSE yindex(s), "="))
SetItem(s, t, rkkey) == luaK_codeABC(s, "SETTABLE", t, rkkey, s.r)
ItemValue(s, t) == SetItem(luaK_exp2RK(expr(s)), t, s.r)
recfield(s, cc) == [ItemValue(ItemKey(s), cc.t) EXCEPT !.freereg = s.freereg]

Flushed(s, cc) == IF cc.tostore = LFIELDS_PER_FLUSH THEN luaK_setlist(s, cc.t, cc.na, cc.tostore) ELSE s
closelistfield(s, cc) ==
  IF cc.v.k = "VVOID" THEN s ELSE Flushed(luaK_exp2nextreg(WithExp(s, cc.v)), cc)
AfterClose(cc) ==
  IF cc.v.k = "VVOID" THEN cc
  ELSE [cc EXCEPT !.v.k = "VVOID", !.tostore = IF @ = LFIELDS_PER_FLUSH THEN 0 ELSE @]

lastlistfield(s0, cc) ==
  LET s == WithExp(s0, cc.v)
  IN  IF cc.tostore = 0 THEN s
      ELSE IF hasmultret(cc.v.k) THEN luaK_setlist(luaK_setmultret(s), cc.t, cc.na, LUA_MULTRET)
      ELSE luaK_setlist(IF cc.v.k # "VVOID" THEN luaK_exp2nextreg(s) ELSE s, cc.t, cc.na, cc.tostore)

IsField(s) == Tok(s) = "[" \/ (Tok(s) = "NAME" /\ Lookahead(s) = "=")
RECURSIVE Items(_, _)
ItemDone(s, cc) ==
  IF Tok(s) \in {",", ";"} THEN Items(luaX_next(s), cc) ELSE [s |-> s, cc |-> cc]
ListItem(s, cc) == ItemDone(s, [cc EXCEPT !.v = s.e, !.na = @ + 1, !.tostore = @ + 1])
Item(s, cc) ==
  IF IsField(s) THEN ItemDone(recfield(s, cc), [cc EXCEPT !.nh = @ + 1]) ELSE ListItem(expr(s), cc)
Items(s, cc) ==
  IF Tok(s) = "}" THEN [s |-> s, cc |-> cc]
  ELSE Item(closelistfield(lua_assert(s, cc.v.k = "VVOID" \/ cc.tostore > 0), cc), AfterClose(cc))

(* The array and hash sizes are written into the instruction at pc.         *)
SetSizes(s, pc, cc) ==
  [s EXCEPT !.code[pc + 1].b = luaO_int2fb(cc.na - (IF cc.tostore > 0 /\ hasmultret(cc.v.k) THEN 1 ELSE 0)),
            !.code[pc + 1].c = luaO_int2fb(cc.nh)]
EndConstructor(items, t, pc) ==
  WithExp(SetSizes(lastlistfield(checknext(items.s, "}"), items.cc), pc, items.cc), t)
ConstructIn(s, pc) ==
  EndConstructor(Items(checknext(s, "{"), [v |-> init_exp("VVOID", 0), t |-> s.e.info,
                                           nh |-> 0, na |-> 0, tostore |-> 0]), s.e, pc)
NewTable(s) == ConstructIn(luaK_exp2nextreg(WithExp(s, init_exp("VRELOCABLE", s.r))), s.r)
Constructor(s) == NewTable(luaK_codeABC(s, "NEWTABLE", 0, 0, 0))

RECURSIVE MoreExps(_, _)
MoreExps(s, n) ==
  IF Tok(s) = "," THEN MoreExps(expr(luaX_next(luaK_exp2nextreg(s))), n + 1) ELSE [s EXCEPT !.r = n]
(* Returns the number of expressions; all but the last are in registers.    *)
explist1(s) == MoreExps(expr(s), 1)

Arguments(s) ==
  CASE Tok(s) = "(" ->
         IF Lookahead(s) = ")" THEN luaX_next(luaX_next(WithExp(s, init_exp("VVOID", 0))))
         ELSE checknext(luaK_setmultret(explist1(luaX_next(s))), ")")
    [] Tok(s) = "{" -> constructor(s)
    [] Tok(s) = "STRING" -> luaX_next(codestring(s, Seminfo(s)))
CallIn(s, func) == [WithExp(s, init_exp("VCALL", s.r)) EXCEPT !.freereg = func + 1]
CodeCall(s, func, nparams) == CallIn(luaK_codeABC(s, "CALL", func, nparams + 1, 2), func)
ClosedCall(s, func) == CodeCall(s, func, s.freereg - (func + 1))
CallWith(s, f) ==
  IF hasmultret(s.e.k) THEN CodeCall(s, f.info, LUA_MULTRET)
  ELSE ClosedCall(IF s.e.k = "VVOID" THEN s ELSE luaK_exp2nextreg(s), f.info)
funcargs(s) == CallWith(Arguments(lua_assert(s, s.e.k = "VNONRELOC")), s.e)

prefixexp(s) ==
  IF Tok(s) = "(" THEN luaK_dischargevars(checknext(expr(luaX_next(s)), ")")) ELSE singlevar(s)

SelfWith(s, object) == luaK_self(WithExp(s, object), s.e)
RECURSIVE PrimarySuffixes(_)
PrimarySuffixes(s) ==
  CASE Tok(s) = "." -> PrimarySuffixes(field(s))
    [] Tok(s) = "[" -> PrimarySuffixes(IndexOf(luaK_exp2anyreg(s)))
    [] Tok(s) = ":" -> PrimarySuffixes(funcargs(SelfWith(checkname(luaX_next(s)), s.e)))
    [] Tok(s) \in {"(", "STRING", "{"} -> PrimarySuffixes(funcargs(luaK_exp2nextreg(s)))
    [] OTHER -> s

CodeVararg(s) == WithExp(s, init_exp("VVARARG", s.r))
PrimaryExp(s) == PrimarySuffixes(prefixexp(s))

simpleexp(s) ==
  CASE Tok(s) = "NUMBER" -> luaX_next(WithExp(s, [init_exp("VKNUM", 0) EXCEPT !.nval = Seminfo(s)]))
    [] Tok(s) = "STRING" -> luaX_next(codestring(s, Seminfo(s)))
    [] Tok(s) = "nil" -> luaX_next(WithExp(s, init_exp("VNIL", 0)))
    [] Tok(s) = "true" -> luaX_next(WithExp(s, init_exp("VTRUE", 0)))
    [] Tok(s) = "false" -> luaX_next(WithExp(s, init_exp("VFALSE", 0)))
    [] Tok(s) = "..." ->
         luaX_next(CodeVararg(luaK_codeABC([s EXCEPT !.is_vararg = @ \ {"NEEDSARG"}], "VARARG", 0, 1, 0)))
    [] Tok(s) = "{" -> constructor(s)
    [] Tok(s) = "function" -> body(luaX_next(s), FALSE)
    [] OTHER -> primaryexp(s)

unops == {"not", "-", "#"}
UNARY_PRIORITY == 8
priority(op) ==
  CASE op \in {"+", "-"} -> [left |-> 6, right |-> 6]
    [] op \in {"*", "/", "%"} -> [left |-> 7, right |-> 7]
    [] op = "^" -> [left |-> 10, right |-> 9]
    [] op = ".." -> [left |-> 5, right |-> 4]
    [] op \in {"~=", "==", "<", "<=", ">", ">="} -> [left |-> 3, right |-> 3]
    [] op = "and" -> [left |-> 2, right |-> 2]
    [] op = "or" -> [left |-> 1, right |-> 1]
    [] OTHER -> [left |-> 0, right |-> 0]      \* OPR_NOBINOPR

RECURSIVE BinaryOps(_, _)
Operation(s, op) == luaK_posfix(subexpr(s, priority(op).right), op, s.e)
BinaryOps(s, limit) ==
  IF priority(Tok(s)).left > limit THEN BinaryOps(Operation(luaK_infix(luaX_next(s), Tok(s)), Tok(s)), limit)
  ELSE s
Operand(s) ==
  IF Tok(s) \in unops THEN luaK_prefix(subexpr(luaX_next(s), UNARY_PRIORITY), Tok(s)) ELSE simpleexp(s)

(***************************************************************************)
(* Statements.                                                             *)
(***************************************************************************)
(* Mutant: the variable is not copied.                                     *)
IgnoreConflict(s, lh, v) == [s |-> s, lh |-> lh]
(* A local variable that is assigned to and is also the table or the index  *)
(* of a target before it is copied first.  lh holds the targets so far.     *)
check_conflict(s, lh, v) ==
  LET conflicts == {j \in DOMAIN lh : lh[j].k = "VINDEXED" /\ v.info \in {lh[j].info, lh[j].aux}}
      moved == [j \in DOMAIN lh |->
                  IF j \notin conflicts THEN lh[j]
                  ELSE [lh[j] EXCEPT !.info = IF @ = v.info THEN s.freereg ELSE @,
                                     !.aux = IF @ = v.info THEN s.freereg ELSE @]]
  IN  IF v.k # "VLOCAL" \/ conflicts = {} THEN [s |-> s, lh |-> lh]
      ELSE [s |-> luaK_reserveregs(luaK_codeABC(s, "MOVE", s.freereg, v.info, 0), 1), lh |-> moved]

RECURSIVE StoreBack(_, _, _)
(* Targets take the values from the registers, the last target first.       *)
StoreBack(s, lh, j) ==
  IF j = 0 THEN s
  ELSE StoreBack(luaK_storevar(WithExp(s, init_exp("VNONRELOC", s.freereg - 1)), lh[j]), lh, j - 1)

RECURSIVE assignment(_, _)
NextTarget(c, v) == assignment(c.s, Append(c.lh, v))
Target(s, lh) == NextTarget(check_conflict(s, lh, s.e), s.e)
StoreLast(s, lh) == StoreBack(luaK_storevar(s, lh[Len(lh)]), lh, Len(lh) - 1)
(* The expressions are there, s.r of them; adjust_assign leaves extra values. *)
AssignValues(s, lh) ==
  IF s.r = Len(lh) THEN StoreLast(luaK_setoneret(s), lh)
  ELSE StoreBack([adjust_assign(s, Len(lh), s.r) EXCEPT !.freereg = @ - Max({s.r - Len(lh), 0})],
                 lh, Len(lh))
assignment(s, lh) ==
  IF Tok(s) = "," THEN Target(primaryexp(luaX_next(s)), lh)
  ELSE AssignValues(explist1(checknext(s, "=")), lh)

(* Returns the list of the jumps that leave when the condition is false.    *)
FalseNil(s) == IF s.e.k = "VNIL" THEN [s EXCEPT !.e.k = "VFALSE"] ELSE s
ReturnFalseExits(s) == [s EXCEPT !.r = s.e.f]
cond(s) == ReturnFalseExits(luaK_goiftrue(FalseNil(expr(s))))

AddBreak(s, b) == [s EXCEPT !.bl[b].breaklist = s.r]
JumpOut(s, b) == AddBreak(luaK_concat(s, s.bl[b].breaklist, s.r), b)
breakstat(s) ==
  LET b == Max({j \in DOMAIN s.bl : s.bl[j].isbreakable})
      upval == \E j \in b + 1 .. Len(s.bl) : s.bl[j].upval
  IN  JumpOut(luaK_jump(IF upval THEN luaK_codeABC(s, "CLOSE", s.bl[b].nactvar, 0, 0) ELSE s), b)

PatchReturned(s, target) == luaK_patchlist(s, s.r, target)
(* condexit is the list of the jumps that leave the loop.                   *)
WhileBody(s, whileinit, condexit) ==
  luaK_patchtohere(leaveblock(checknext(
    PatchReturned(luaK_jump(block(checknext(enterblock(s, TRUE), "do"))), whileinit), "end")), condexit)
WhileCond(s, whileinit) == WhileBody(s, whileinit, s.r)
WhileFrom(s) == WhileCond(cond(s), s.r)
whilestat(s) == WhileFrom(luaK_getlabel(luaX_next(s)))

(* If the body has upvalues, the loop ends with a break and a jump back.    *)
CloseAndRepeat(s, condexit, init) ==
  PatchReturned(luaK_jump(leaveblock(luaK_patchtohere(breakstat(s), condexit))), init)
Until(s, init) ==
  leaveblock(IF CurrentBlock(s).upval THEN CloseAndRepeat(s, s.r, init)
             ELSE luaK_patchlist(leaveblock(s), s.r, init))
RepeatFrom(s) ==
  Until(cond(checknext(chunk(luaX_next(enterblock(enterblock(s, TRUE), FALSE))), "until")), s.r)
repeatstat(s) == RepeatFrom(luaK_getlabel(s))

exp1(s) == luaK_exp2nextreg(expr(s))

EndFor(s, base, nvars, isnum) ==
  IF isnum THEN luaK_codeABx(s, "FORLOOP", base, NO_JUMP)
  ELSE luaK_jump(luaK_codeABC(s, "TFORLOOP", base, 0, nvars))
ForBlock(s, nvars) ==
  leaveblock(block(luaK_reserveregs(adjustlocalvars(enterblock(s, FALSE), nvars), nvars)))
ForFrom(s, base, nvars, isnum) ==      \* s.r is the jump over the body
  PatchReturned(EndFor(luaK_patchtohere(ForBlock(s, nvars), s.r), base, nvars, isnum), s.r + 1)
ForPrep(s, base, isnum) == IF isnum THEN luaK_codeABx(s, "FORPREP", base, NO_JUMP) ELSE luaK_jump(s)
forbody(s, base, nvars, isnum) ==
  ForFrom(ForPrep(checknext(adjustlocalvars(s, 3), "do"), base, isnum), base, nvars, isnum)

NewLocals(s, names) == FoldLeft(new_localvar, s, names)
LoadReturned(s) == luaK_reserveregs(luaK_codeABx(s, "LOADK", s.freereg, s.r), 1)
ForStep(s) == IF Tok(s) = "," THEN exp1(luaX_next(s)) ELSE LoadReturned(luaK_numberK(s, 1))
fornum(s, varname) ==
  LET n == NewLocals(s, <<"(for index)", "(for limit)", "(for step)", varname>>)
  IN  forbody(ForStep(exp1(checknext(exp1(checknext(n, "=")), ","))), s.freereg, 1, TRUE)

RECURSIVE MoreNames(_)
(* Names of new local variables, separated by commas.                       *)
MoreNames(s) ==
  IF Tok(s) = "," THEN MoreNames(new_localvar(str_checkname(luaX_next(s)), s.toks[s.i + 1].seminfo)) ELSE s

ForThree(s) == luaK_checkstack(adjust_assign(s, 3, s.r), 3)       \* extra space to call the generator
ForIn(s) ==
  forbody(ForThree(explist1(checknext(s, "in"))), s.freereg, Len(s.actvar) - s.nactvar - 3, FALSE)
forlist(s, indexname) ==
  ForIn(MoreNames(NewLocals(s, <<"(for generator)", "(for state)", "(for control)", indexname>>)))

ForVariable(s, varname) == IF Tok(s) = "=" THEN fornum(s, varname) ELSE forlist(s, varname)
ForNamed(s) == ForVariable(str_checkname(s), Seminfo(s))
forstat(s) == leaveblock(checknext(ForNamed(luaX_next(enterblock(s, TRUE))), "end"))

ThenBlock(s) == [block(checknext(s, "then")) EXCEPT !.r = s.r]
test_then_block(s) == ThenBlock(cond(luaX_next(s)))

RECURSIVE Branches(_, _)
(* flist is the list of the jumps over the branch that was just compiled.  *)
NextBranch(s, flist) ==
  IF Tok(s) = "elseif" THEN Branches(test_then_block(luaK_patchtohere(s, flist)), s.r)
  ELSE luaK_patchtohere(block(luaX_next(luaK_patchtohere(s, flist))), s.r)
PatchReturnedHere(s) == luaK_patchtohere(s, s.r)
JumpToEnd(s, escapelist) == luaK_concat(s, escapelist, s.r)
Branches(s, escapelist) ==
  IF Tok(s) \in {"elseif", "else"} THEN NextBranch(JumpToEnd(luaK_jump(s), escapelist), s.r)
  ELSE PatchReturnedHere(JumpToEnd(s, escapelist))
ifstat(s) == checknext(Branches(test_then_block(s), NO_JUMP), "end")

(* Debug information only shows the function after its body.                *)
VisibleFromHere(s) == StartScope(s, s.actvar[s.nactvar])
localfunc(s) ==
  VisibleFromHere(luaK_storevar(body(adjustlocalvars(luaK_reserveregs(new_localvar(str_checkname(s), Seminfo(s)), 1), 1), FALSE),
                init_exp("VLOCAL", s.freereg)))

LocalValues(s) ==
  IF Tok(s) = "=" THEN explist1(luaX_next(s)) ELSE [s EXCEPT !.e = init_exp("VVOID", 0), !.r = 0]
InitLocals(s, nvars) == adjustlocalvars(adjust_assign(s, nvars, s.r), nvars)
LocalNames(s) == InitLocals(LocalValues(s), Len(s.actvar) - s.nactvar)
localstat(s) == LocalNames(MoreNames(new_localvar(str_checkname(s), Seminfo(s))))

RECURSIVE Fields(_)
Fields(s) == IF Tok(s) = "." THEN Fields(field(s)) ELSE s
StoreFunction(s, needself) == luaK_storevar(body(s, needself), s.e)
MethodName(s) == StoreFunction(IF Tok(s) = ":" THEN field(s) ELSE s, Tok(s) = ":")
funcstat(s) == MethodName(Fields(singlevar(luaX_next(s))))

CallOrAssign(s) ==
  IF s.e.k = "VCALL" THEN [s EXCEPT !.code[s.e.info + 1].c = 1] ELSE assignment(s, <<s.e>>)
exprstat(s) == CallOrAssign(primaryexp(s))

ReturnAll(s) == luaK_ret(s, s.nactvar, LUA_MULTRET)
ReturnCall(s) ==
  ReturnAll(lua_assert([s EXCEPT !.code[s.e.info + 1].op = "TAILCALL"], getcode(s, s.e).a = s.nactvar))
ReturnSingle(s) == luaK_ret(s, s.r, 1)
ReturnSeveral(s, nret) == luaK_ret(lua_assert(s, nret = s.freereg - s.nactvar), s.nactvar, nret)
ReturnValues(s) ==
  CASE s.e.k = "VCALL" /\ s.r = 1 -> ReturnCall(luaK_setmultret(s))
    [] hasmultret(s.e.k) /\ ~ (s.e.k = "VCALL" /\ s.r = 1) -> ReturnAll(luaK_setmultret(s))
    [] ~ hasmultret(s.e.k) /\ s.r = 1 -> ReturnSingle(luaK_exp2anyreg(s))
    [] OTHER -> ReturnSeveral(luaK_exp2nextreg(s), s.r)
retstat(s) ==
  IF block_follow(Lookahead(s)) \/ Lookahead(s) = ";" THEN luaK_ret(luaX_next(s), 0, 0)
  ELSE ReturnValues(explist1(luaX_next(s)))

statement(s) ==
  CASE Tok(s) = "if" -> ifstat(s)
    [] Tok(s) = "while" -> whilestat(s)
    [] Tok(s) = "do" -> checknext(block(luaX_next(s)), "end")
    [] Tok(s) = "for" -> forstat(s)
    [] Tok(s) = "repeat" -> repeatstat(s)
    [] Tok(s) = "function" -> funcstat(s)
    [] Tok(s) = "local" ->
         IF Lookahead(s) = "function" THEN localfunc(luaX_next(luaX_next(s))) ELSE localstat(luaX_next(s))
    [] Tok(s) = "return" -> retstat(s)
    [] Tok(s) = "break" -> breakstat(luaX_next(s))
    [] OTHER -> exprstat(s)

FreeTemporaries(s) ==
  [lua_assert(s, s.maxstacksize >= s.freereg /\ s.freereg >= s.nactvar) EXCEPT !.freereg = s.nactvar]
OneStatement(s) == FreeTemporaries(testnext(statement(s), ";"))
ChunkUnless(islast, s) == IF islast THEN s ELSE chunk(s)
Statements(s) ==
  IF block_follow(Tok(s)) THEN s ELSE ChunkUnless(Tok(s) \in {"return", "break"}, OneStatement(s))

Parse(nonterminal, s, limit) ==
  CASE nonterminal = "chunk" -> Statements(s)
    [] nonterminal = "subexpr" -> BinaryOps(Operand(s), limit)
    [] nonterminal = "primaryexp" -> PrimaryExp(s)
    [] nonterminal = "constructor" -> Constructor(s)

AtEnd(s) == lua_assert(s, Tok(s) = "EOS")
NoUpvalues(s) == lua_assert(s, s.upvalues = <<>>)
luaY_parser(toks) ==
  NoUpvalues(close_func(AtEnd(chunk([open_func(toks, 1, TRUE, NoFunction) EXCEPT !.is_vararg = {"ISVARARG"}]))))
=============================================================================
