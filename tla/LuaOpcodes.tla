----------------------------- MODULE LuaOpcodes -----------------------------
(***************************************************************************)
(* The instructions of the virtual machine (lopcodes.h, lopcodes.c).        *)
(* An instruction is a record; its field b holds Bx or sBx if it has one.   *)
(***************************************************************************)
EXTENDS Integers, Sequences

CONSTANT MAXINDEXRK   (* constants with a larger index are no RK operands   *)

LUA_MULTRET == -1
NO_REG == 255         (* MAXARG_A                                           *)
BITRK == 256
ISK(x) == x >= BITRK
INDEXK(r) == r - BITRK
RKASK(x) == x + BITRK

CREATE_ABC(o, a, b, c) == [op |-> o, a |-> a, b |-> b, c |-> c]
CREATE_ABx(o, a, bc) == [op |-> o, a |-> a, b |-> bc, c |-> 0]

opmode(a, b, c, m) == [setA |-> a, b |-> b, c |-> c, mode |-> m]

Arithmetic == {"ADD", "SUB", "MUL", "DIV", "MOD", "POW"}
Comparison == {"EQ", "LT", "LE"}

luaP_opmodes(op) ==
  CASE op \in {"MOVE", "LOADNIL", "UNM", "NOT", "LEN"} -> opmode(TRUE, "R", "N", "ABC")
    [] op \in {"LOADK", "GETGLOBAL"} -> opmode(TRUE, "K", "N", "ABx")
    [] op \in {"LOADBOOL", "NEWTABLE", "CALL", "TAILCALL"} -> opmode(TRUE, "U", "U", "ABC")
    [] op \in {"GETUPVAL", "VARARG"} -> opmode(TRUE, "U", "N", "ABC")
    [] op \in {"GETTABLE", "SELF"} -> opmode(TRUE, "R", "K", "ABC")
    [] op = "SETGLOBAL" -> opmode(FALSE, "K", "N", "ABx")
    [] op \in {"SETUPVAL", "RETURN"} -> opmode(FALSE, "U", "N", "ABC")
    [] op = "SETTABLE" -> opmode(FALSE, "K", "K", "ABC")
    [] op \in Arithmetic -> opmode(TRUE, "K", "K", "ABC")
    [] op = "CONCAT" -> opmode(TRUE, "R", "R", "ABC")
    [] op = "JMP" -> opmode(FALSE, "R", "N", "AsBx")
    [] op \in Comparison -> opmode(FALSE, "K", "K", "ABC")
    [] op \in {"TEST", "TESTSET"} -> opmode(TRUE, "R", "U", "ABC")
    [] op \in {"FORLOOP", "FORPREP"} -> opmode(TRUE, "R", "N", "AsBx")
    [] op = "TFORLOOP" -> opmode(FALSE, "N", "U", "ABC")
    [] op = "SETLIST" -> opmode(FALSE, "U", "U", "ABC")
    [] op = "CLOSE" -> opmode(FALSE, "N", "N", "ABC")
    [] op = "CLOSURE" -> opmode(TRUE, "U", "N", "ABx")

(* A test: the next instruction is a jump.                                  *)
testTMode(i) == i.op \in Comparison \cup {"TEST", "TESTSET", "TFORLOOP"}

(* Instructions that take the values up to top: luaG_checkopenop.           *)
luaG_checkopenop(i) == i.op \in {"CALL", "TAILCALL", "RETURN", "SETLIST"} /\ i.b = 0
=============================================================================
