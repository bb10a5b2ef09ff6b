------------------------------ MODULE LuaDebug ------------------------------
(***************************************************************************)
(* The code checker of the Lua virtual machine and the symbolic execution   *)
(* that finds the name of a value for an error message (ldebug.c, and       *)
(* luaF_getlocalname of lfunc.c).                                          *)
(*                                                                         *)
(* pt is a prototype.  A pc is an index of C: code[pc] is pt.code[pc + 1].  *)
(***************************************************************************)
EXTENDS LuaOpcodes, FiniteSets

sizecode(pt) == Len(pt.code)
checkreg(pt, reg) == reg < pt.maxstacksize

precheck(pt) ==
  /\ pt.numparams + (IF "HASARG" \in pt.is_vararg THEN 1 ELSE 0) <= pt.maxstacksize
  /\ "NEEDSARG" \in pt.is_vararg => "HASARG" \in pt.is_vararg
  /\ Len(pt.upvalues) <= pt.nups
  /\ sizecode(pt) > 0 /\ pt.code[sizecode(pt)].op = "RETURN"

checkArgMode(pt, r, mode) ==
  CASE mode = "N" -> r = 0
    [] mode = "U" -> TRUE
    [] mode = "R" -> checkreg(pt, r)
    [] mode = "K" -> IF ISK(r) THEN INDEXK(r) < Len(pt.k) ELSE checkreg(pt, r)

checkopenop(pt, pc) == luaG_checkopenop(pt.code[pc + 2])

CheckOperands(pt, i, pc) ==
  LET m == luaP_opmodes(i.op)
  IN  CASE m.mode = "ABC" -> checkArgMode(pt, i.b, m.b) /\ checkArgMode(pt, i.c, m.c)
        [] m.mode = "ABx" -> m.b = "K" => i.b < Len(pt.k)
        [] m.mode = "AsBx" -> m.b = "R" => pc + 1 + i.b \in 0 .. sizecode(pt) - 1

CheckCall(pt, i, pc) ==
  /\ i.b # 0 => checkreg(pt, i.a + i.b - 1)
  /\ CASE i.c - 1 = LUA_MULTRET -> checkopenop(pt, pc)
       [] i.c - 1 > 0 -> checkreg(pt, i.a + i.c - 2)
       [] OTHER -> TRUE

(* What the opcode asks for besides.                                        *)
CheckOpcode(pt, i, pc) ==
  CASE i.op = "LOADBOOL" -> i.c = 1 => pc + 2 < sizecode(pt)
    [] i.op \in {"GETUPVAL", "SETUPVAL"} -> i.b < pt.nups
    [] i.op \in {"GETGLOBAL", "SETGLOBAL"} -> pt.k[i.b + 1][1] = "string"
    [] i.op = "SELF" -> checkreg(pt, i.a + 1)
    [] i.op = "CONCAT" -> i.b < i.c
    [] i.op = "TFORLOOP" -> i.c >= 1 /\ checkreg(pt, i.a + 2 + i.c)
    [] i.op \in {"FORLOOP", "FORPREP"} -> checkreg(pt, i.a + 3)
    [] i.op \in {"CALL", "TAILCALL"} -> CheckCall(pt, i, pc)
    [] i.op = "RETURN" -> i.b > 1 => checkreg(pt, i.a + i.b - 2)
    [] i.op = "SETLIST" -> i.b > 0 => checkreg(pt, i.a + i.b)
    [] i.op = "CLOSURE" ->
         /\ i.b < Len(pt.p)
         /\ pc + pt.p[i.b + 1].nups < sizecode(pt)
         /\ \A j \in 1 .. pt.p[i.b + 1].nups : pt.code[pc + j + 1].op \in {"GETUPVAL", "MOVE"}
    [] i.op = "VARARG" ->
         /\ "ISVARARG" \in pt.is_vararg /\ "NEEDSARG" \notin pt.is_vararg
         /\ i.b = 0 => checkopenop(pt, pc)
         /\ checkreg(pt, i.a + i.b - 2)
    [] OTHER -> TRUE

CheckInstruction(pt, pc) ==
  LET i == pt.code[pc + 1]
  IN  /\ checkreg(pt, i.a)
      /\ CheckOperands(pt, i, pc)
      /\ testTMode(i) => pc + 2 < sizecode(pt) /\ pt.code[pc + 2].op = "JMP"
      /\ CheckOpcode(pt, i, pc)

luaG_checkcode(pt) == precheck(pt) /\ \A pc \in 0 .. sizecode(pt) - 1 : CheckInstruction(pt, pc)

(***************************************************************************)
(* Symbolic execution up to lastpc: the last instruction that changed reg.  *)
(* It follows jumps that go forward and not beyond lastpc.                 *)
(***************************************************************************)
Changes(i, reg) ==
  \/ luaP_opmodes(i.op).setA /\ i.a = reg
  \/ i.op = "LOADNIL" /\ i.a <= reg /\ reg <= i.b
  \/ i.op = "SELF" /\ reg = i.a + 1
  \/ i.op = "TFORLOOP" /\ reg >= i.a + 2
  \/ i.op \in {"CALL", "TAILCALL"} /\ reg >= i.a

NextTraced(pt, i, pc, lastpc) ==
  CASE i.op \in {"JMP", "FORLOOP", "FORPREP"} /\ i.b >= 0 /\ pc + 1 + i.b <= lastpc -> pc + 1 + i.b
    [] i.op = "CLOSURE" -> pc + 1 + pt.p[i.b + 1].nups
    [] OTHER -> pc + 1

RECURSIVE Trace(_, _, _, _, _)
Trace(pt, pc, lastpc, reg, last) ==
  IF pc >= lastpc THEN pt.code[last + 1]
  ELSE Trace(pt, NextTraced(pt, pt.code[pc + 1], pc, lastpc), lastpc, reg,
             IF Changes(pt.code[pc + 1], reg) THEN pc ELSE last)
symbexec(pt, lastpc, reg) == Trace(pt, 0, lastpc, reg, sizecode(pt) - 1)

(* The name of the local variable in a register, NULL if there is none.     *)
NULL == "NULL"
luaF_getlocalname(pt, local_number, pc) ==
  LET active == {v \in DOMAIN pt.locvars : pt.locvars[v].startpc <= pc /\ pc < pt.locvars[v].endpc}
      numbered == {v \in active : Cardinality({u \in active : u <= v}) = local_number}
  IN  IF numbered = {} THEN NULL ELSE pt.locvars[CHOOSE v \in numbered : TRUE].varname

kname(pt, c) == IF ISK(c) /\ pt.k[INDEXK(c) + 1][1] = "string" THEN pt.k[INDEXK(c) + 1][2] ELSE "?"

(* What a register holds before the instruction at pc: <<kind, name>>, or    *)
(* <<>> if that is not known.                                               *)
RECURSIVE getobjname(_, _, _)
NameFrom(pt, i, pc) ==
  CASE i.op = "GETGLOBAL" -> <<"global", pt.k[i.b + 1][2]>>
    [] i.op = "MOVE" /\ i.b < i.a -> getobjname(pt, pc, i.b)
    [] i.op = "GETTABLE" -> <<"field", kname(pt, i.c)>>
    [] i.op = "GETUPVAL" -> <<"upvalue", IF pt.upvalues = <<>> THEN "?" ELSE pt.upvalues[i.b + 1]>>
    [] i.op = "SELF" -> <<"method", kname(pt, i.c)>>
    [] OTHER -> <<>>
getobjname(pt, pc, stackpos) ==
  LET name == luaF_getlocalname(pt, stackpos + 1, pc)
  IN  IF name # NULL THEN <<"local", name>> ELSE NameFrom(pt, symbexec(pt, pc, stackpos), pc)
=============================================================================
