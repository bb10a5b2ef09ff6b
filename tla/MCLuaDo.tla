------------------------------ MODULE MCLuaDo ------------------------------
(* Small instances of LuaDo for TLC.                                        *)
EXTENDS LuaDo

CONSTANTS co1, co2   (* the coroutines                                     *)

MCFunctions ==
  {[kind |-> "lua", numparams |-> 1, is_vararg |-> v, maxstacksize |-> 2] : v \in BOOLEAN}
MCHandlers == {CFunction}
MCNResults == {LUA_MULTRET, 1}
(* Each program uses a few of the features, so that those that could        *)
(* disturb each other meet.                                                *)
MCPrograms == {
  {"pcall", "handler"},
  {"pcall", co1},
  {co1, co2},
  {co1, "return hook", "count hook"},
  {"pcall", "call hook", "return hook", "count hook"},
  {"pcall", "upvalue", "metamethod"},
  {co1, "gc"}, {"gc", "vararg", "metamethod"},
  {"pcall", "cpcall", "memory", "callable", "vararg"}}

(* Bounds on the calls in progress, in all threads.                         *)
CONSTANTS MaxDepth, MaxDepthOverflow
Depth == LET calls(th) == Len(lstate[th].ci) - 1
         IN  calls(MainThread) + calls(co1) + calls(co2)
Bound ==
  Depth < CASE "handler" \in uses -> MaxDepthOverflow
            [] \/ {"pcall", co1} \subseteq uses \/ {co1, co2} \subseteq uses
               \/ {co1, "return hook"} \subseteq uses
               \/ {"gc", "vararg"} \subseteq uses -> MaxDepth - 1
            [] OTHER -> MaxDepth
=============================================================================
