------------------------------- MODULE LuaDump -------------------------------
(***************************************************************************)
(* Precompiled chunks (ldump.c, lundump.c).  A chunk is the sequence of the *)
(* values that luaU_dump writes, each of which takes some bytes; a string   *)
(* takes two, its size (with the final \0) and its characters.  The header  *)
(* is one value, and there is no line information.                         *)
(***************************************************************************)
EXTENDS LuaDebug

HEADER == "ESC Lua"

DumpString(s) == IF s = NULL THEN <<0>> ELSE <<Len(s) + 1, s>>
DumpVector(v) == <<Len(v)>> \o v

(* The values of the elements of v, one after the other.                    *)
RECURSIVE DumpEach(_)
DumpEach(dumped) == IF dumped = <<>> THEN <<>> ELSE Head(dumped) \o DumpEach(Tail(dumped))

DumpConstant(o) ==
  CASE o[1] = "nil" -> <<"nil">>
    [] o[1] = "string" -> <<"string">> \o DumpString(o[2])
    [] OTHER -> o                     \* the type and the value
(* Mutant: the end of the scope is written before its start.               *)
DumpLocvarSwapped(v) == DumpString(v.varname) \o <<v.endpc, v.startpc>>
DumpLocvar(v) == DumpString(v.varname) \o <<v.startpc, v.endpc>>

DumpDebug(f, strip) ==
  LET locvars == IF strip THEN <<>> ELSE f.locvars
      upvalues == IF strip THEN <<>> ELSE f.upvalues
  IN  <<Len(locvars)>> \o DumpEach([v \in DOMAIN locvars |-> DumpLocvar(locvars[v])])
      \o <<Len(upvalues)>> \o DumpEach([u \in DOMAIN upvalues |-> DumpString(upvalues[u])])

RECURSIVE DumpFunction(_, _, _)
DumpConstants(f, strip) ==
  <<Len(f.k)>> \o DumpEach([j \in DOMAIN f.k |-> DumpConstant(f.k[j])])
  \o <<Len(f.p)>> \o DumpEach([j \in DOMAIN f.p |-> DumpFunction(f.p[j], f.source, strip)])
(* p is the source of the enclosing function.                               *)
DumpFunction(f, p, strip) ==
  DumpString(IF f.source = p \/ strip THEN NULL ELSE f.source)
  \o <<f.nups, f.numparams, f.is_vararg, f.maxstacksize>>
  \o DumpVector(f.code) \o DumpConstants(f, strip) \o DumpDebug(f, strip)

luaU_dump(f, strip) == <<HEADER>> \o DumpFunction(f, NULL, strip)

(***************************************************************************)
(* The reader S has what is left of the chunk (d), what it read last (v),   *)
(* the function it builds (f) and whether the chunk was refused (bad).      *)
(***************************************************************************)
NewProto == [code |-> <<>>, k |-> <<>>, p |-> <<>>, nups |-> 0, upvalues |-> <<>>, locvars |-> <<>>,
             source |-> NULL, numparams |-> 0, is_vararg |-> {}, maxstacksize |-> 0]

Refuse(S, c) == IF c THEN [S EXCEPT !.bad = TRUE, !.v = 0, !.d = <<>>] ELSE S
LoadBlock(S) ==
  IF S.d = <<>> THEN Refuse(S, TRUE) ELSE [S EXCEPT !.v = Head(S.d), !.d = Tail(S.d)]
NoString(S) == [S EXCEPT !.v = NULL]
Characters(S) == IF S.bad \/ S.v = 0 THEN NoString(S) ELSE LoadBlock(S)
LoadString(S) == Characters(LoadBlock(S))

RECURSIVE LoadCode(_, _), LoadConstantList(_, _), LoadLocvars(_, _), LoadUpvalues(_, _), LoadProtos(_, _, _)
NextCode(S, n) == LoadCode([S EXCEPT !.f.code = Append(@, S.v)], n - 1)
LoadCode(S, n) == IF n = 0 \/ S.bad THEN S ELSE NextCode(LoadBlock(S), n)

AddConstant(S, t) == [S EXCEPT !.f.k = Append(@, IF t = "nil" THEN <<t>> ELSE <<t, S.v>>)]
LoadConstant(S) ==
  CASE S.bad -> S
    [] S.v = "nil" -> AddConstant(S, "nil")
    [] S.v = "string" -> AddConstant(LoadString(S), "string")
    [] S.v \in {"boolean", "number"} -> AddConstant(LoadBlock(S), S.v)
    [] OTHER -> Refuse(S, TRUE)
LoadConstantList(S, n) ==
  IF n = 0 \/ S.bad THEN S ELSE LoadConstantList(LoadConstant(LoadBlock(S)), n - 1)

LocvarName(S) == [S EXCEPT !.f.locvars = Append(@, [varname |-> S.v, startpc |-> 0, endpc |-> 0])]
LocvarStart(S) == [S EXCEPT !.f.locvars[Len(S.f.locvars)].startpc = S.v]
LocvarEnd(S) == [S EXCEPT !.f.locvars[Len(S.f.locvars)].endpc = S.v]
LoadLocvars(S, n) ==
  IF n = 0 \/ S.bad THEN S
  ELSE LoadLocvars(LocvarEnd(LoadBlock(LocvarStart(LoadBlock(LocvarName(LoadString(S)))))), n - 1)

AddUpvalue(S) == [S EXCEPT !.f.upvalues = Append(@, S.v)]
LoadUpvalues(S, n) == IF n = 0 \/ S.bad THEN S ELSE LoadUpvalues(AddUpvalue(LoadString(S)), n - 1)

SetSource(S, p) == [S EXCEPT !.f.source = IF S.bad \/ S.v = NULL THEN p ELSE S.v]
SetNups(S) == [S EXCEPT !.f.nups = S.v]
SetNumparams(S) == [S EXCEPT !.f.numparams = S.v]
SetVararg(S) == [S EXCEPT !.f.is_vararg = IF S.bad THEN {} ELSE S.v]
SetMaxstacksize(S) == [S EXCEPT !.f.maxstacksize = S.v]
LoadHeaderOf(S, p) ==
  SetMaxstacksize(LoadBlock(SetVararg(LoadBlock(SetNumparams(LoadBlock(SetNups(LoadBlock(
    SetSource(LoadString([S EXCEPT !.f = NewProto]), p)))))))))

(* Each part of a function starts with the number of its elements.          *)
CodePart(S) == LoadCode(S, S.v)
ConstantPart(S) == LoadConstantList(S, S.v)
ProtoPart(S) == LoadProtos(S, S.f, S.v)
LocvarPart(S) == LoadLocvars(S, S.v)
UpvaluePart(S) == LoadUpvalues(S, S.v)
CheckCode(S) == Refuse(S, S.bad \/ ~ luaG_checkcode(S.f))
LoadFunction(S, p) ==
  CheckCode(UpvaluePart(LoadBlock(LocvarPart(LoadBlock(ProtoPart(LoadBlock(ConstantPart(LoadBlock(
    CodePart(LoadBlock(LoadHeaderOf(S, p))))))))))))

NextProto(S, f, n) == LoadProtos(S, [f EXCEPT !.p = Append(@, S.f)], n - 1)
LoadProtos(S, f, n) ==
  IF n = 0 \/ S.bad THEN [S EXCEPT !.f = f] ELSE NextProto(LoadFunction(S, f.source), f, n)

LoadHeader(S) == Refuse(S, S.bad \/ S.v # HEADER)
luaU_undump(d) ==
  LoadFunction(LoadHeader(LoadBlock([d |-> d, v |-> 0, f |-> NewProto, bad |-> FALSE])), "=?")
=============================================================================
