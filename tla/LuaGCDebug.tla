----------------------------- MODULE LuaGCDebug -----------------------------
(***************************************************************************)
(* LuaGC with lua_setupvalue (debug.setupvalue) on a Lua function.         *)
(***************************************************************************)
EXTENDS LuaGC

(* lapi.c, lua_setupvalue: the value goes to the upvalue, which several     *)
(* functions may share; the barrier is that of the function.               *)
lua_setupvalue(f, u, v) ==
  /\ MutatorRuns /\ f \in Held \cap Functions /\ v \in Held
  /\ u \in fields[f] \cap Upvals
  /\ IF IsOpen(u)
     THEN stack' = [stack EXCEPT ![uvloc[u][1]][uvloc[u][2]] = v] /\ UNCHANGED uvval
     ELSE uvval' = [uvval EXCEPT ![u] = v] /\ UNCHANGED stack
  /\ luaC_barrierf(f, v)
  /\ UNCHANGED <<alive, meta, fields, entries, uvloc, gmt, running, udVars, listVars, ctlVars>>

DebugNext ==
  \/ Next
  \/ \E f \in Functions, u \in Upvals, v \in Objects : lua_setupvalue(f, u, v)
DebugSpec == Init /\ [][DebugNext]_vars
=============================================================================
