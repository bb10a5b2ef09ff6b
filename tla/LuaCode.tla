------------------------------- MODULE LuaCode -------------------------------
(***************************************************************************)
(* The code generator of Lua (lcode.c).                                     *)
(*                                                                         *)
(* Every operator takes the state s of the function that is being compiled *)
(* and returns the next one.  s has the fields of FuncState and of its     *)
(* Proto that matter to the code, and besides                              *)
(*   s.e   the expression that the C function gets by address,             *)
(*   s.r   what the C function returns (a register, a pc, a constant),      *)
(*   s.ok  whether every lua_assert has held.                              *)
(* Where a C function gets two expressions, s.e is the second one.          *)
(* pc is Len(s.code); a pc is an index of C, so code[pc] is s.code[pc + 1]. *)
(* Numbers are integers; lines and limits on sizes are left out.            *)
(***************************************************************************)
EXTENDS LuaOpcodes, FiniteSets, TLC

CONSTANT LFIELDS_PER_FLUSH   (* items of a constructor that one OP_SETLIST stores *)

NO_JUMP == -1

lua_assert(s, c) == IF c THEN s ELSE [s EXCEPT !.ok = FALSE]

RECURSIVE Fb(_, _)
Fb(x, e) == IF x >= 16 THEN Fb((x + 1) \div 2, e + 1) ELSE IF x < 8 THEN x ELSE (e + 1) * 8 + x - 8
(* A number in a byte, with three digits of mantissa, rounded up.           *)
luaO_int2fb(x) == Fb(x, 0)

init_exp(k, info) == [k |-> k, info |-> info, aux |-> 0, nval |-> 0, t |-> NO_JUMP, f |-> NO_JUMP]
WithExp(s, e) == [s EXCEPT !.e = e]

hasjumps(e) == e.t # e.f
isnumeral(e) == e.k = "VKNUM" /\ e.t = NO_JUMP /\ e.f = NO_JUMP
hasmultret(k) == k \in {"VCALL", "VVARARG"}
getcode(s, e) == s.code[e.info + 1]

(***************************************************************************)
(* Jumps.  A list of pending jumps is threaded through the jumps: each one  *)
(* has the distance to the next as its offset, the last one NO_JUMP.        *)
(***************************************************************************)
getjump(s, pc) == LET offset == s.code[pc + 1].b IN IF offset = NO_JUMP THEN NO_JUMP ELSE pc + 1 + offset

fixjump(s, pc, dest) == [lua_assert(s, dest # NO_JUMP) EXCEPT !.code[pc + 1].b = dest - (pc + 1)]

RECURSIVE JumpList(_, _)
JumpList(s, list) == IF list = NO_JUMP THEN <<>> ELSE <<list>> \o JumpList(s, getjump(s, list))

(* Where the instruction is that decides on a jump.                         *)
getjumpcontrol(s, pc) == IF pc >= 1 /\ testTMode(s.code[pc]) THEN pc - 1 ELSE pc

luaK_getlabel(s) == [s EXCEPT !.lasttarget = Len(s.code), !.r = Len(s.code)]

luaK_concat(s, l1, l2) ==
  IF l2 = NO_JUMP THEN [s EXCEPT !.r = l1]
  ELSE IF l1 = NO_JUMP THEN [s EXCEPT !.r = l2]
  ELSE LET list == JumpList(s, l1) IN [fixjump(s, list[Len(list)], l2) EXCEPT !.r = l1]
ConcatTrue(s, l) == LET c == luaK_concat(s, s.e.t, l) IN [c EXCEPT !.e.t = c.r]
ConcatFalse(s, l) == LET c == luaK_concat(s, s.e.f, l) IN [c EXCEPT !.e.f = c.r]

IsTestSet(s, node) == s.code[getjumpcontrol(s, node) + 1].op = "TESTSET"

(* A jump that is taken without a value, or of a value into its own         *)
(* register, needs no OP_TESTSET.                                          *)
PatchTest(s, at, reg) ==
  IF s.code[at].op # "TESTSET" THEN s
  ELSE IF reg # NO_REG /\ reg # s.code[at].b THEN [s EXCEPT !.code[at].a = reg]
  ELSE [s EXCEPT !.code[at] = CREATE_ABC("TEST", @.b, 0, @.c)]
patchtestreg(s, node, reg) == PatchTest(s, getjumpcontrol(s, node) + 1, reg)

need_value(s, list) ==
  LET jumps == JumpList(s, list) IN \E j \in DOMAIN jumps : ~ IsTestSet(s, jumps[j])

RECURSIVE removevalues(_, _)
removevalues(s, list) ==
  IF list = NO_JUMP THEN s ELSE removevalues(patchtestreg(s, list, NO_REG), getjump(s, list))

RECURSIVE patchlistaux(_, _, _, _, _)
patchlistaux(s, list, vtarget, reg, dtarget) ==
  IF list = NO_JUMP THEN s
  ELSE LET target == IF IsTestSet(s, list) THEN vtarget ELSE dtarget
       IN  patchlistaux(fixjump(patchtestreg(s, list, reg), list, target), getjump(s, list),
                        vtarget, reg, dtarget)

luaK_patchtohere(s, list) ==
  LET c == luaK_concat(luaK_getlabel(s), s.jpc, list) IN [c EXCEPT !.jpc = c.r]

luaK_patchlist(s, list, target) ==
  IF target = Len(s.code) THEN luaK_patchtohere(s, list)
  ELSE patchlistaux(lua_assert(s, target < Len(s.code)), list, target, NO_REG, target)

(***************************************************************************)
(* Instructions.                                                           *)
(***************************************************************************)
dischargejpc(s) == [patchlistaux(s, s.jpc, Len(s.code), NO_REG, Len(s.code)) EXCEPT !.jpc = NO_JUMP]

Appended(s, i) == [s EXCEPT !.code = Append(@, i), !.r = Len(s.code)]
luaK_code(s, i) == Appended(dischargejpc(s), i)

Unused(m, b, c) == (m.b = "N" => b = 0) /\ (m.c = "N" => c = 0)
luaK_codeABC(s, o, a, b, c) ==
  luaK_code(lua_assert(s, luaP_opmodes(o).mode = "ABC" /\ Unused(luaP_opmodes(o), b, c)),
            CREATE_ABC(o, a, b, c))
luaK_codeABx(s, o, a, bc) ==
  luaK_code(lua_assert(s, luaP_opmodes(o).mode \in {"ABx", "AsBx"}), CREATE_ABx(o, a, bc))

luaK_nil(s, from, n) ==
  LET pc == Len(s.code)
      noTarget == pc > s.lasttarget
      previous == s.code[pc]
  IN  IF noTarget /\ pc = 0 /\ from >= s.nactvar THEN s       \* positions are already clean
      ELSE IF noTarget /\ pc > 0 /\ previous.op = "LOADNIL" /\ previous.a <= from /\ from <= previous.b + 1
      THEN IF from + n - 1 > previous.b THEN [s EXCEPT !.code[pc].b = from + n - 1] ELSE s
      ELSE luaK_codeABC(s, "LOADNIL", from, from + n - 1, 0)

ConcatTo(s, list) == luaK_concat(s, s.r, list)
luaK_jump(s) == ConcatTo(luaK_codeABx([s EXCEPT !.jpc = NO_JUMP], "JMP", 0, NO_JUMP), s.jpc)
luaK_ret(s, first, nret) == luaK_codeABC(s, "RETURN", first, nret + 1, 0)
condjump(s, op, a, b, c) == luaK_jump(luaK_codeABC(s, op, a, b, c))
code_label(s, a, b, jump) == luaK_codeABC(luaK_getlabel(s), "LOADBOOL", a, b, jump)

(***************************************************************************)
(* Registers and constants.                                                *)
(***************************************************************************)
(* Mutant: the size of the frame is raised one register late.               *)
CheckstackLate(s, n) == IF s.freereg + n > s.maxstacksize + 1 THEN [s EXCEPT !.maxstacksize = s.freereg + n] ELSE s
luaK_checkstack(s, n) == IF s.freereg + n > s.maxstacksize THEN [s EXCEPT !.maxstacksize = s.freereg + n] ELSE s
luaK_reserveregs(s, n) == [luaK_checkstack(s, n) EXCEPT !.freereg = @ + n]

freereg(s, reg) ==
  IF ISK(reg) \/ reg < s.nactvar THEN s
  ELSE [lua_assert(s, reg = s.freereg - 1) EXCEPT !.freereg = @ - 1]
freeexp(s, e) == IF e.k = "VNONRELOC" THEN freereg(s, e.info) ELSE s

addk(s, v) ==
  IF \E j \in DOMAIN s.k : s.k[j] = v
  THEN [s EXCEPT !.r = (CHOOSE j \in DOMAIN s.k : s.k[j] = v) - 1]
  ELSE [s EXCEPT !.k = Append(@, v), !.r = Len(s.k)]
luaK_stringK(s, str) == addk(s, <<"string", str>>)
luaK_numberK(s, n) == addk(s, <<"number", n>>)

(***************************************************************************)
(* Expressions.                                                            *)
(***************************************************************************)
luaK_setreturns(s, nresults) ==
  CASE s.e.k = "VCALL" -> [s EXCEPT !.code[s.e.info + 1].c = nresults + 1]
    [] s.e.k = "VVARARG" ->
         luaK_reserveregs([s EXCEPT !.code[s.e.info + 1].b = nresults + 1,
                                    !.code[s.e.info + 1].a = s.freereg], 1)
    [] OTHER -> s
luaK_setmultret(s) == luaK_setreturns(s, LUA_MULTRET)

luaK_setoneret(s) ==
  CASE s.e.k = "VCALL" -> [s EXCEPT !.e.k = "VNONRELOC", !.e.info = getcode(s, s.e).a]
    [] s.e.k = "VVARARG" -> [s EXCEPT !.code[s.e.info + 1].b = 2, !.e.k = "VRELOCABLE"]
    [] OTHER -> s

Relocable(s) == [s EXCEPT !.e.k = "VRELOCABLE", !.e.info = s.r]
InRegister(s, reg) == [s EXCEPT !.e.k = "VNONRELOC", !.e.info = reg]

luaK_dischargevars(s) ==
  CASE s.e.k = "VLOCAL" -> [s EXCEPT !.e.k = "VNONRELOC"]
    [] s.e.k = "VUPVAL" -> Relocable(luaK_codeABC(s, "GETUPVAL", 0, s.e.info, 0))
    [] s.e.k = "VGLOBAL" -> Relocable(luaK_codeABx(s, "GETGLOBAL", 0, s.e.info))
    [] s.e.k = "VINDEXED" ->
         Relocable(luaK_codeABC(freereg(freereg(s, s.e.aux), s.e.info), "GETTABLE", 0, s.e.info, s.e.aux))
    [] hasmultret(s.e.k) -> luaK_setoneret(s)
    [] OTHER -> s

ValueToReg(s, reg) ==
  LET number == luaK_numberK(s, s.e.nval)
  IN  CASE s.e.k = "VNIL" -> InRegister(luaK_nil(s, reg, 1), reg)
        [] s.e.k \in {"VFALSE", "VTRUE"} ->
             InRegister(luaK_codeABC(s, "LOADBOOL", reg, IF s.e.k = "VTRUE" THEN 1 ELSE 0, 0), reg)
        [] s.e.k = "VK" -> InRegister(luaK_codeABx(s, "LOADK", reg, s.e.info), reg)
        [] s.e.k = "VKNUM" -> InRegister(luaK_codeABx(number, "LOADK", reg, number.r), reg)
        [] s.e.k = "VRELOCABLE" -> InRegister([s EXCEPT !.code[s.e.info + 1].a = reg], reg)
        [] s.e.k = "VNONRELOC" ->
             InRegister(IF reg # s.e.info THEN luaK_codeABC(s, "MOVE", reg, s.e.info, 0) ELSE s, reg)
        [] OTHER -> lua_assert(s, s.e.k \in {"VVOID", "VJMP"})

discharge2reg(s, reg) == ValueToReg(luaK_dischargevars(s), reg)

ToLastReg(s) == discharge2reg(s, s.freereg - 1)
discharge2anyreg(s) == IF s.e.k = "VNONRELOC" THEN s ELSE ToLastReg(luaK_reserveregs(s, 1))

(* The jumps of an expression bring a value to its register: that of their  *)
(* OP_TESTSET, or one of two OP_LOADBOOL.                                   *)
PatchValues(s, jumps, reg, p_f, p_t) ==
  patchlistaux(patchlistaux(s, jumps.f, s.r, reg, p_f), jumps.t, s.r, reg, p_t)
JumpsToReg(s, reg) ==
  LET skip == IF s.e.k = "VJMP" THEN [s EXCEPT !.r = NO_JUMP] ELSE luaK_jump(s)
      p_f == code_label(skip, reg, 0, 1)
      p_t == code_label(p_f, reg, 1, 0)
  IN  IF need_value(s, s.e.t) \/ need_value(s, s.e.f)
      THEN PatchValues(luaK_getlabel(luaK_patchtohere(p_t, skip.r)), s.e, reg, p_f.r, p_t.r)
      ELSE PatchValues(luaK_getlabel(s), s.e, reg, NO_JUMP, NO_JUMP)
BothToReg(s, reg) ==
  WithExp(IF hasjumps(s.e) THEN JumpsToReg(s, reg) ELSE s, init_exp("VNONRELOC", reg))
JumpOfTest(s) == IF s.e.k = "VJMP" THEN ConcatTrue(s, s.e.info) ELSE s
exp2reg(s, reg) == BothToReg(JumpOfTest(discharge2reg(s, reg)), reg)

FreeOperand(s) == freeexp(s, s.e)
ExpToLastReg(s) == exp2reg(s, s.freereg - 1)
luaK_exp2nextreg(s) == ExpToLastReg(luaK_reserveregs(FreeOperand(luaK_dischargevars(s)), 1))

NextReg(s) == luaK_reserveregs(FreeOperand(s), 1)
ToAnyReg(s) ==
  LET placed == s.e.k = "VNONRELOC"
      own == placed /\ s.e.info >= s.nactvar
  IN  IF placed /\ ~ hasjumps(s.e) THEN s
      ELSE exp2reg(IF own THEN s ELSE NextReg(s), IF own THEN s.e.info ELSE NextReg(s).freereg - 1)
ReturnInfo(s) == [s EXCEPT !.r = s.e.info]
luaK_exp2anyreg(s) == ReturnInfo(ToAnyReg(luaK_dischargevars(s)))

ToVal(s) == IF hasjumps(s.e) THEN ReturnInfo(ToAnyReg(s)) ELSE s
luaK_exp2val(s) == ToVal(luaK_dischargevars(s))

(* The constant that an expression is, as a Lua value.                      *)
Constant(e) ==
  CASE e.k = "VNIL" -> <<"nil">>
    [] e.k = "VKNUM" -> <<"number", e.nval>>
    [] OTHER -> <<"boolean", e.k = "VTRUE">>

ToRK(s) ==
  LET c == addk(s, Constant(s.e))
  IN  IF s.e.k \in {"VKNUM", "VTRUE", "VFALSE", "VNIL"} /\ Len(s.k) <= MAXINDEXRK
      THEN [c EXCEPT !.e.k = "VK", !.e.info = c.r, !.r = RKASK(c.r)]
      ELSE IF s.e.k = "VK" /\ s.e.info <= MAXINDEXRK THEN [s EXCEPT !.r = RKASK(s.e.info)]
      ELSE luaK_exp2anyreg(s)
luaK_exp2RK(s) == ToRK(luaK_exp2val(s))

StoreFrom(s, var) ==
  CASE var.k = "VUPVAL" -> luaK_codeABC(s, "SETUPVAL", s.r, var.info, 0)
    [] var.k = "VGLOBAL" -> luaK_codeABx(s, "SETGLOBAL", s.r, var.info)
    [] var.k = "VINDEXED" -> luaK_codeABC(s, "SETTABLE", var.info, var.aux, s.r)
    [] OTHER -> lua_assert(s, FALSE)
luaK_storevar(s, var) ==
  IF var.k = "VLOCAL" THEN exp2reg(FreeOperand(s), var.info)
  ELSE FreeOperand(StoreFrom(IF var.k = "VINDEXED" THEN luaK_exp2RK(s) ELSE luaK_exp2anyreg(s), var))

SelfFrom(s, object, func) ==
  InRegister(WithExp(FreeOperand(luaK_codeABC(s, "SELF", func, object.info, s.r)), object), func)
(* The object is in a register, freed; f is the state after that.           *)
SelfOf(f, key) == SelfFrom(luaK_exp2RK(WithExp(luaK_reserveregs(f, 2), key)), f.e, f.freereg)
luaK_self(s, key) == SelfOf(FreeOperand(luaK_exp2anyreg(s)), key)

IndexedBy(s, t) == WithExp(s, [t EXCEPT !.aux = s.r, !.k = "VINDEXED"])
(* s.e is the table, key what luaK_indexed gets besides.                    *)
luaK_indexed(s, key) == IndexedBy(luaK_exp2RK(WithExp(s, key)), s.e)

invertjump(s) ==
  LET at == getjumpcontrol(s, s.e.info) + 1
  IN  [lua_assert(s, testTMode(s.code[at]) /\ s.code[at].op \notin {"TESTSET", "TEST"})
         EXCEPT !.code[at].a = 1 - @]

TestRegister(s, cond) == condjump(FreeOperand(s), "TESTSET", NO_REG, s.e.info, cond)
jumponcond(s, cond) ==
  LET ie == getcode(s, s.e)
  IN  IF s.e.k = "VRELOCABLE" /\ ie.op = "NOT"
      THEN condjump([s EXCEPT !.code = SubSeq(@, 1, Len(@) - 1)], "TEST", ie.b, 0, 1 - cond)
      ELSE TestRegister(discharge2anyreg(s), cond)

TrueHere(s) == [luaK_patchtohere(s, s.e.t) EXCEPT !.e.t = NO_JUMP]
FalseHere(s) == [luaK_patchtohere(s, s.e.f) EXCEPT !.e.f = NO_JUMP]
JumpIfFalse(s) ==
  CASE s.e.k \in {"VK", "VKNUM", "VTRUE"} -> [s EXCEPT !.r = NO_JUMP]     \* always true
    [] s.e.k = "VJMP" -> [invertjump(s) EXCEPT !.r = s.e.info]
    [] OTHER -> jumponcond(s, 0)
JumpIfTrue(s) ==
  CASE s.e.k \in {"VNIL", "VFALSE"} -> [s EXCEPT !.r = NO_JUMP]           \* always false
    [] s.e.k = "VJMP" -> [s EXCEPT !.r = s.e.info]
    [] OTHER -> jumponcond(s, 1)
(* The jump that was just returned joins the false or the true exits.       *)
FalseExit(s) == ConcatFalse(s, s.r)
TrueExit(s) == ConcatTrue(s, s.r)
luaK_goiftrue(s) == TrueHere(FalseExit(JumpIfFalse(luaK_dischargevars(s))))
luaK_goiffalse(s) == FalseHere(TrueExit(JumpIfTrue(luaK_dischargevars(s))))

NotRegister(s) == Relocable(luaK_codeABC(FreeOperand(s), "NOT", 0, s.e.info, 0))
Negated(s) ==
  CASE s.e.k \in {"VNIL", "VFALSE"} -> [s EXCEPT !.e.k = "VTRUE"]
    [] s.e.k \in {"VK", "VKNUM", "VTRUE"} -> [s EXCEPT !.e.k = "VFALSE"]
    [] s.e.k = "VJMP" -> invertjump(s)
    [] s.e.k \in {"VRELOCABLE", "VNONRELOC"} -> NotRegister(discharge2anyreg(s))
    [] OTHER -> lua_assert(s, FALSE)
ExitsSwapped(s) ==
  removevalues(removevalues([s EXCEPT !.e.f = s.e.t, !.e.t = s.e.f], s.e.t), s.e.f)
codenot(s) == ExitsSwapped(Negated(luaK_dischargevars(s)))

(***************************************************************************)
(* Operators.                                                              *)
(***************************************************************************)
RECURSIVE luai_numpow(_, _)
luai_numpow(x, y) == IF y = 0 THEN 1 ELSE x * luai_numpow(x, y - 1)
(* The arithmetic of integers; quotients are exact, divisors positive.      *)
Arith(op, x, y) ==
  CASE op = "ADD" -> x + y
    [] op = "SUB" -> x - y
    [] op = "MUL" -> x * y
    [] op = "DIV" -> x \div y
    [] op = "MOD" -> x % y
    [] op = "POW" -> luai_numpow(x, y)
    [] op = "UNM" -> - x

constfolding(op, e1, e2) ==
  /\ isnumeral(e1) /\ isnumeral(e2)
  /\ op \in Arithmetic \cup {"UNM"}
  /\ op \in {"DIV", "MOD"} => e2.nval # 0

(* Mutant: the first operand is always freed first.                        *)
FreeInOrder(s, e2, o2) == freeexp(freeexp(s, s.e), e2)
(* s is the state after the first operand, e2 and o2 are the second one.    *)
FreeOperands(s, e2, o2) ==
  IF s.r > o2 THEN freeexp(freeexp(s, s.e), e2) ELSE freeexp(freeexp(s, e2), s.e)
Operate(s, op, e2, o2) == Relocable(luaK_codeABC(FreeOperands(s, e2, o2), op, 0, s.r, o2))
SecondDone(s, op, e1) == Operate(luaK_exp2RK(WithExp(s, e1)), op, s.e, s.r)
codearith(s, op, e1) ==
  IF constfolding(op, e1, s.e) THEN WithExp(s, [e1 EXCEPT !.nval = Arith(op, e1.nval, s.e.nval)])
  ELSE SecondDone(IF op \in {"UNM", "LEN"} THEN [s EXCEPT !.r = 0] ELSE luaK_exp2RK(s), op, e1)

TestJump(s, e1) == WithExp(s, [e1 EXCEPT !.k = "VJMP", !.info = s.r])
CompareWith(s, op, cond, e1, o1) ==
  LET swap == cond = 0 /\ op # "EQ"       \* a > b is b < a
  IN  TestJump(condjump(freeexp(FreeOperand(s), e1), op, IF swap THEN 1 ELSE cond,
                        IF swap THEN s.r ELSE o1, IF swap THEN o1 ELSE s.r), e1)
FirstDone(s, op, cond, e2) == CompareWith(luaK_exp2RK(WithExp(s, e2)), op, cond, s.e, s.r)
codecomp(s, op, cond, e1) == FirstDone(luaK_exp2RK(WithExp(s, e1)), op, cond, s.e)

Unary(s, op) == codearith(WithExp(s, init_exp("VKNUM", 0)), op, s.e)
luaK_prefix(s, op) ==
  IF op = "not" THEN codenot(s)
  ELSE Unary(IF op = "-" /\ isnumeral(s.e) THEN s ELSE luaK_exp2anyreg(s), IF op = "-" THEN "UNM" ELSE "LEN")

BinaryArithmetic == [ops \in {"+", "-", "*", "/", "%", "^"} |->
  CASE ops = "+" -> "ADD" [] ops = "-" -> "SUB" [] ops = "*" -> "MUL"
    [] ops = "/" -> "DIV" [] ops = "%" -> "MOD" [] ops = "^" -> "POW"]

Comparing == [ops \in {"==", "~=", "<", "<=", ">", ">="} |->
  [op |-> CASE ops \in {"==", "~="} -> "EQ" [] ops \in {"<", ">"} -> "LT" [] ops \in {"<=", ">="} -> "LE",
   cond |-> IF ops \in {"==", "<", "<="} THEN 1 ELSE 0]]

luaK_infix(s, op) ==
  CASE op = "and" -> luaK_goiftrue(s)
    [] op = "or" -> luaK_goiffalse(s)
    [] op = ".." -> luaK_exp2nextreg(s)
    [] op \in DOMAIN BinaryArithmetic /\ isnumeral(s.e) -> s
    [] OTHER -> luaK_exp2RK(s)

(* The operands of concatenations in a row are in registers in a row.       *)
ConcatWith(s, e1) ==
  LET inner == getcode(s, s.e)
  IN  IF s.e.k = "VRELOCABLE" /\ inner.op = "CONCAT"
      THEN WithExp([freeexp(lua_assert(s, e1.info = inner.b - 1), e1) EXCEPT !.code[s.e.info + 1].b = e1.info],
                   [e1 EXCEPT !.k = "VRELOCABLE", !.info = s.e.info])
      ELSE codearith(luaK_exp2nextreg(s), "CONCAT", e1)

luaK_posfix(s, op, e1) ==
  CASE op = "and" -> ConcatFalse(luaK_dischargevars(lua_assert(s, e1.t = NO_JUMP)), e1.f)
    [] op = "or" -> ConcatTrue(luaK_dischargevars(lua_assert(s, e1.f = NO_JUMP)), e1.t)
    [] op = ".." -> ConcatWith(luaK_exp2val(s), e1)
    [] op \in DOMAIN BinaryArithmetic -> codearith(s, BinaryArithmetic[op], e1)
    [] OTHER -> codecomp(s, Comparing[op].op, Comparing[op].cond, e1)

luaK_setlist(s, base, nelems, tostore) ==
  LET c == (nelems - 1) \div LFIELDS_PER_FLUSH + 1
      b == IF tostore = LUA_MULTRET THEN 0 ELSE tostore
  IN  [luaK_codeABC(lua_assert(s, tostore # 0), "SETLIST", base, b, c) EXCEPT !.freereg = base + 1]
=============================================================================
