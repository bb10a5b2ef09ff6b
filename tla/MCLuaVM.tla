------------------------------- MODULE MCLuaVM -------------------------------
EXTENDS LuaVM
P == INSTANCE Programs
Ref == INSTANCE LuaSemantics


CONSTANT Families      (* the families of programs, by their names in Programs *)
Family(name) ==
  CASE name = "conditions" -> P!ConditionPrograms
    [] name = "operators" -> P!OperatorPrograms
    [] name = "loops" -> P!LoopPrograms
    [] name = "assignments" -> P!AssignPrograms
    [] name = "functions" -> P!FunctionPrograms
    [] name = "errors" -> P!ErrorPrograms
    [] name = "metamethods" -> P!MetaPrograms
    [] name = "caches" -> P!CachePrograms
    [] name = "extra" -> P!ExtraPrograms
(* Conditions are run with every truth value of their two variables.        *)
MCInputs(name) ==
  IF name = "conditions" THEN {<<x, y>> : x \in {Nil, Number(1)}, y \in {Nil, Number(1)}}
  ELSE {<<Number(1), Number(2)>>}
(* Programs that fail are run stripped too: their errors name no variables. *)
MCStrips(name) == IF name \in {"loops", "functions", "errors", "metamethods"} THEN BOOLEAN ELSE {FALSE}
MCSources ==
  UNION {{[ast |-> p, toks |-> Ref!Unparse(p), inputs |-> MCInputs(name), strips |-> MCStrips(name)] : p \in Family(name)} : name \in Families}

ErrorAgrees(e, ref) ==
  /\ e[1] = ref[1] /\ Len(ref) > 1 => e[2] = ref[2]
  /\ \/ Len(ref) = 3 /\ ref[3] = "any"
     \/ Len(ref) > 2 /\ ref[3] \in {"field", "method"} /\ Len(e) = 4 /\ e[3] = ref[3] /\ e[4] \in {ref[4], "?"}
     \/ e = ref
     \/ Stripped
Agrees(m) ==
  IF L.status = "error" THEN m.out = "error" /\ ErrorAgrees(L.err, m.v)
  ELSE /\ m.out = "normal"
       /\ ShownAll(Values(L, 1, L.top - 1)) = [j \in DOMAIN m.v |-> Ref!Display(m.v[j])]
       /\ L.log = m.log
(* A run of the compiled chunk, dumped and loaded again or not, does what the *)
(* program means: same results and calls, or an error that tells the same    *)
(* operand (luaY_parser, the code generator and luaV_execute together).     *)
SameAsReference == phase = "running" /\ L.status # "run" => Agrees(Ref!Meaning(source.ast, L.args))

(* An event that the cache of a table calls absent (ltm.h, flags) is absent  *)
(* from it: stores, those into a table that is its own metatable included,  *)
(* clear the cache after the search that may have filled it.              *)
FlagsTrue == \A t \in DOMAIN L.tables : \A event \in L.tables[t].flags : luaH_get(L, t, String(event)) = Nil

(* No lua_assert of the parser, the code generator or the machine fails.    *)
AssertionsHold == L.ok

(* The code that the compiler makes passes luaG_checkcode, as lparser.c:381  *)
(* and lvm.c's asserts ask for.                                            *)
CodeChecked == phase = "loaded" => luaG_checkcode(proto)

RECURSIVE Bare(_)
Bare(f) == [f EXCEPT !.source = "=?", !.locvars = <<>>, !.upvalues = <<>>, !.p = [j \in DOMAIN @ |-> Bare(@[j])]]
(* luaU_undump reads what luaU_dump wrote, all of it and no more, as the     *)
(* function that was dumped, without its debug information if that was       *)
(* stripped; it refuses a chunk that has lost its end.                      *)
UndumpsDump ==
  /\ phase = "dumped" =>
       LET read == luaU_undump(binary)
       IN  ~ read.bad /\ read.d = <<>> /\ read.f = IF binary[2] = 0 THEN Bare(proto) ELSE proto
  /\ phase = "truncated" => luaU_undump(binary).bad
=============================================================================
