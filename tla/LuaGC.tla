------------------------------- MODULE LuaGC -------------------------------
(***************************************************************************)
(* The incremental tri-colour collector of lgc.c together with the         *)
(* operations of the virtual machine and of the API that build, change and *)
(* read the object graph (lapi.c, lvm.c, lfunc.c, lstring.c, lstate.c).    *)
(*                                                                         *)
(* The program (the "mutator") and the collector share one C thread:       *)
(* luaC_step runs singlestep a number of times inside an allocation and    *)
(* then the program goes on.  The module interleaves single steps with     *)
(* single operations; how many steps an allocation pays for (GCthreshold,  *)
(* gcdept, estimate) is left out, so every schedule is allowed.            *)
(*                                                                         *)
(* The data is the object graph alone: a value that is not collectable     *)
(* (nil, a number, a boolean) is NoObj.                                    *)
(*                                                                         *)
(* An operator that stands before another one with the same parameters and *)
(* is not used is what a bug in the code would make of it: with it in its  *)
(* place TLC finds a property violated (PROJECT.json, mutants).            *)
(***************************************************************************)
EXTENDS Integers, FiniteSets, Sequences

CONSTANTS
  Tables,      (* LUA_TTABLE: written through the backward barrier         *)
  Udatas,      (* LUA_TUSERDATA: never gray, may have a finalizer          *)
  Functions,   (* LUA_TFUNCTION and LUA_TPROTO: forward barrier            *)
  Strings,     (* LUA_TSTRING: interned, kept in the string table          *)
  Upvals,      (* LUA_TUPVAL: open (in a stack slot) or closed             *)
  Threads,     (* LUA_TTHREAD: never black                                 *)
  MainThread, Registry,
  Globals,     (* the table that f_luaopen makes for the globals           *)
  Slots,       (* slots of the stack of a thread                           *)
  GlobalSlot,  (* the one that stands for l_gt, the table of globals       *)
  NoObj,       (* a value that is not collectable, or a NULL reference     *)
  ModeField,   (* ModeField[t]: the letters k, v in the field __mode of t  *)
  HasGC,       (* tables with a field __gc                                 *)
  Hash,        (* Hash[s]: the hash of string s                            *)
  MinStrTabSize,
  MaxEntries,  (* bound on the entries of a table                          *)
  MaxFields,   (* bound on the fields of a function                        *)
  Operations,  (* the operations that the program uses                     *)
  AsKeys       (* the objects that it uses as keys of tables               *)

Objects == Tables \cup Udatas \cup Functions \cup Strings \cup Upvals \cup Threads
Values == Objects \cup {NoObj}

ASSUME KindsAssumption ==
  /\ Tables \cap (Udatas \cup Functions \cup Strings \cup Upvals \cup Threads) = {}
  /\ Udatas \cap (Functions \cup Strings \cup Upvals \cup Threads) = {}
  /\ Functions \cap (Strings \cup Upvals \cup Threads) = {}
  /\ Strings \cap (Upvals \cup Threads) = {}
  /\ Upvals \cap Threads = {}
  /\ NoObj \notin Objects
  /\ MainThread \in Threads /\ {Registry, Globals} \subseteq Tables
  /\ GlobalSlot \in Slots
ASSUME FieldsAssumption ==
  /\ ModeField \in [Tables -> SUBSET {"k", "v"}]
  /\ HasGC \subseteq Tables
  /\ Hash \in [Strings -> Nat]
  /\ MinStrTabSize \in Nat \ {0}

VARIABLES
  alive,        (* the objects that are allocated                          *)
  color,        (* the bits WHITE0, WHITE1, BLACK of `marked'              *)
  meta,         (* metatable of a table or of a userdata                   *)
  fields,       (* env, upvalues, constants, nested functions              *)
  entries,      (* the pairs <<key, value>> of a table                     *)
  stack,        (* stack and l_gt of each thread                           *)
  uvloc,        (* the slot <<thread, slot>> of an open upvalue, or Closed *)
  uvval,        (* u.value of a closed upvalue                             *)
  running,      (* the main thread, the one it resumed, ... the L that runs *)
  gmt,          (* g->mt of one basic type                                 *)
  udlist,       (* the userdata linked after the main thread               *)
  tmudata,      (* userdata waiting for their finalizers, in order         *)
  finalized,    (* userdata with bit FINALIZEDBIT                          *)
  gcstate, currentwhite, gray, grayagain, weak,
  unswept,      (* what is left of rootgc after sweepgc                    *)
  sweepstrgc, strsize,
  fullgc        (* what luaC_fullgc does: nothing, sweeping, then marking  *)

heapVars == <<alive, meta, fields, entries, uvloc, uvval, gmt>>
udVars   == <<udlist, tmudata, finalized>>
listVars == <<grayagain, weak, unswept, sweepstrgc, strsize>>
ctlVars  == <<gcstate, currentwhite, fullgc>>
vars == <<heapVars, color, stack, running, udVars, gray, listVars, ctlVars>>

Closed == <<>>
Nil == "nil"
Whites == {"white0", "white1"}
AtomicStates == {"remarkupvals", "remarkweak", "remarkagain", "marktmu"}
SweepStates  == {"sweepstring", "sweep"}
GCStates == {"pause", "propagate", "finalize"} \cup AtomicStates \cup SweepStates

Range(s) == {s[i] : i \in DOMAIN s}
cur == running[Len(running)]
iswhite(o) == color[o] \in Whites
isblack(o) == color[o] = "black"
otherwhite == IF currentwhite = "white0" THEN "white1" ELSE "white0"
isdead(o) == color[o] = otherwhite

IsOpen(u) == uvloc[u] # Closed
OpenUpvals == {u \in Upvals \cap alive : IsOpen(u)}
UpvalValue(u) == IF IsOpen(u) THEN stack[uvloc[u][1]][uvloc[u][2]] ELSE uvval[u]
StackOf(th) == Range(stack[th]) \ {NoObj}
Held == StackOf(cur)

(* Weak mode of table t: the field __mode of its metatable.                *)
WeakMode(t) == IF t \in Tables /\ meta[t] # NoObj THEN ModeField[meta[t]] ELSE {}
Keys(t) == {e[1] : e \in entries[t]}
Vals(t) == {e[2] : e \in entries[t]}

(* A thread that has resumed another one keeps it in the frame of the      *)
(* function that called lua_resume.                                        *)
Resumed(th) == {running[i + 1] : i \in {j \in 1..(Len(running) - 1) : running[j] = th}}
OwnRefs(o) == fields[o] \cup {meta[o]}
                \cup (IF o \in Threads THEN Range(stack[o]) \cup Resumed(o) ELSE {})
                \cup (IF o \in Upvals THEN {UpvalValue(o)} ELSE {})
(* What object o refers to, and what the collector follows from it.        *)
Refs(o) == (OwnRefs(o) \cup Keys(o) \cup Vals(o)) \ {NoObj}
StrongRefs(o) == (OwnRefs(o) \cup (IF "k" \in WeakMode(o) THEN {} ELSE Keys(o))
                             \cup (IF "v" \in WeakMode(o) THEN {} ELSE Vals(o))) \ {NoObj}

(***************************************************************************)
(* Marking.  reallymarkobject turns a white object gray (and, where it has *)
(* a gclist, links it in `gray'), but marks at once the value of an        *)
(* upvalue and the metatable and environment of a userdata: the recursion  *)
(* is at most upvalue, userdata, table deep.                               *)
(***************************************************************************)
HasGclist == Tables \cup Functions \cup Threads
LinkedWhatever(S) == S
Linked(S) == S \cap HasGclist
Marked(S) ==
  LET w  == {o \in S : o # NoObj /\ iswhite(o)}
      wv == w \cup {v \in {UpvalValue(u) : u \in w \cap Upvals} : v # NoObj /\ iswhite(v)}
  IN  wv \cup {v \in UNION {OwnRefs(u) : u \in wv \cap Udatas} : v # NoObj /\ iswhite(v)}
ColorOnceMarked(o) ==
  IF o \in Udatas \/ (o \in Upvals /\ ~IsOpen(o)) THEN "black" ELSE "gray"
Recolor(S) == [o \in Objects |-> IF o \in Marked(S) THEN ColorOnceMarked(o) ELSE color[o]]

MarkFrom(S, graylist) ==
  /\ color' = Recolor(S)
  /\ gray' = graylist \cup Linked(Marked(S))

(***************************************************************************)
(* Barriers: what a store of v in the black object o makes the collector   *)
(* do.  Tables are turned gray again; for the other kinds the value is     *)
(* marked, or, during a sweep, the owner is swept early.                   *)
(***************************************************************************)
luaC_barrierf(o, v) ==
  IF v # NoObj /\ isblack(o) /\ iswhite(v)
  THEN IF gcstate = "propagate"
       THEN MarkFrom({v}, gray)
       ELSE color' = [color EXCEPT ![o] = currentwhite] /\ UNCHANGED gray
  ELSE UNCHANGED <<color, gray>>

NoBarrierback(t, S) == UNCHANGED <<color, grayagain>>
BarrierbackStaysBlack(t, S) ==
  IF isblack(t) /\ \E v \in S \ {NoObj} : iswhite(v)
  THEN grayagain' = grayagain \cup {t} /\ UNCHANGED color
  ELSE UNCHANGED <<color, grayagain>>
luaC_barrierback(t, S) ==
  IF isblack(t) /\ \E v \in S \ {NoObj} : iswhite(v)
  THEN /\ color' = [color EXCEPT ![t] = "gray"]
       /\ grayagain' = grayagain \cup {t}
  ELSE UNCHANGED <<color, grayagain>>

(***************************************************************************)
(* The program.  It works on the stack of the running thread: it can only  *)
(* name objects that it holds there.                                       *)
(***************************************************************************)
MutatorRuns == gcstate \notin AtomicStates /\ fullgc = "no"
LocalSlots == Slots \ {GlobalSlot}

Push(s, v) == stack' = [stack EXCEPT ![cur][s] = v]

(* lua_settop, assignments to a register, lua_pushthread.                  *)
Move(s, v) ==
  /\ MutatorRuns /\ v \in Held \cup {NoObj, cur}
  /\ Push(s, v)
  /\ UNCHANGED <<heapVars, color, running, udVars, gray, listVars, ctlVars>>

(* lua_replace with LUA_GLOBALSINDEX, lua_setfenv on a thread: threads need *)
(* no barrier.                                                             *)
SetGlobals(th, t) ==
  /\ MutatorRuns /\ th \in (Held \cap Threads) \cup {cur} /\ t \in Held \cap Tables
  /\ stack' = [stack EXCEPT ![th][GlobalSlot] = t]
  /\ UNCHANGED <<heapVars, color, running, udVars, gray, listVars, ctlVars>>

(* luaC_link: a new object is white and is pushed at once.                 *)
Link(o) ==
  /\ o \notin alive
  /\ color' = [color EXCEPT ![o] = currentwhite]

NewTable(t, s) ==
  /\ MutatorRuns /\ Link(t)
  /\ alive' = alive \cup {t}
  /\ Push(s, t)
  /\ UNCHANGED <<meta, fields, entries, uvloc, uvval, gmt, running, udVars, gray, listVars, ctlVars>>

(* lua_newuserdata: the userdata is linked after the main thread.          *)
NewUdata(u, env, s) ==
  /\ MutatorRuns /\ Link(u)
  /\ env \in Tables \cap (Held \cup {Registry})
  /\ alive' = alive \cup {u}
  /\ fields' = [fields EXCEPT ![u] = {env}]
  /\ udlist' = <<u>> \o udlist
  /\ Push(s, u)
  /\ UNCHANGED <<meta, entries, uvloc, uvval, gmt, running, tmudata, finalized, gray, listVars, ctlVars>>

(* lua_pushcclosure, luaF_newproto, and OP_CLOSURE with upvalues of the    *)
(* enclosing function: no barrier, for the function is new.                *)
NewFunction(f, S, s) ==
  /\ MutatorRuns /\ Link(f)
  /\ S \subseteq Held \cup UNION {fields[g] \cap Upvals : g \in Held \cap Functions}
  /\ Cardinality(S) <= MaxFields
  /\ alive' = alive \cup {f}
  /\ fields' = [fields EXCEPT ![f] = S]
  /\ Push(s, f)
  /\ UNCHANGED <<meta, entries, uvloc, uvval, gmt, running, udVars, gray, listVars, ctlVars>>

(* An upvalue or a string that is found again lives on, though the sweep    *)
(* would free it.                                                          *)
FoundDead(o) == color[o]
Resurrected(o) == IF isdead(o) THEN currentwhite ELSE color[o]

(* OP_CLOSURE over a local variable that luaF_findupval finds to have an    *)
(* open upvalue already ...                                                *)
CaptureOpen(f, u, s) ==
  /\ MutatorRuns /\ f \notin alive
  /\ u \in OpenUpvals /\ uvloc[u][1] = cur
  /\ alive' = alive \cup {f}
  /\ fields' = [fields EXCEPT ![f] = {u}]
  /\ color' = [color EXCEPT ![f] = currentwhite, ![u] = Resurrected(u)]
  /\ Push(s, f)
  /\ UNCHANGED <<meta, entries, uvloc, uvval, gmt, running, udVars, gray, listVars, ctlVars>>

(* ... and over one that has none: a new upvalue, linked in openupval and  *)
(* in uvhead but not in rootgc.                                            *)
CaptureNew(f, u, level, s) ==
  /\ MutatorRuns /\ f \notin alive /\ u \notin alive
  /\ \A w \in OpenUpvals : uvloc[w] # <<cur, level>>
  /\ alive' = alive \cup {f, u}
  /\ fields' = [fields EXCEPT ![f] = {u}]
  /\ uvloc' = [uvloc EXCEPT ![u] = <<cur, level>>]
  /\ color' = [color EXCEPT ![f] = currentwhite, ![u] = currentwhite]
  /\ Push(s, f)
  /\ UNCHANGED <<meta, entries, uvval, gmt, running, udVars, gray, listVars, ctlVars>>

(* luaE_newthread: the new thread shares the table of globals.             *)
NewThread(th, s) ==
  /\ MutatorRuns /\ Link(th)
  /\ alive' = alive \cup {th}
  /\ stack' = [stack EXCEPT ![cur][s] = th, ![th][GlobalSlot] = stack[cur][GlobalSlot]]
  /\ UNCHANGED <<meta, fields, entries, uvloc, uvval, gmt, running, udVars, gray, listVars, ctlVars>>

(* luaS_newlstr: a string that is still in the table is used again, also   *)
(* when it is dead; for a new one luaS_resize doubles a table that is full, *)
(* but not while it is being swept.                                        *)
luaS_resize ==
  IF gcstate # "sweepstring" /\ Cardinality(alive \cap Strings) + 1 > strsize
  THEN 2 * strsize ELSE strsize
NewString(str, s) ==
  /\ MutatorRuns
  /\ alive' = alive \cup {str}
  /\ color' = [color EXCEPT ![str] = IF str \in alive THEN Resurrected(str) ELSE currentwhite]
  /\ strsize' = IF str \in alive THEN strsize ELSE luaS_resize
  /\ Push(s, str)
  /\ UNCHANGED <<meta, fields, entries, uvloc, uvval, gmt, running, udVars, gray, grayagain, weak,
                 unswept, sweepstrgc, ctlVars>>

(* luaV_settable, lua_rawset, OP_SETLIST: newkey checks a key that the     *)
(* table does not have, the caller checks the value.                       *)
SetTable(t, k, v) ==
  /\ MutatorRuns /\ t \in (Held \cap Tables) \cup {Registry}
  /\ k \in Held \cup {NoObj} /\ v \in Held \cup {NoObj, Nil}
  /\ entries' = [entries EXCEPT ![t] = {e \in @ : e[1] # k} \cup ({<<k, v>>} \ {<<k, Nil>>})]
  /\ Cardinality(entries'[t]) <= MaxEntries
  /\ luaC_barrierback(t, ({k} \ Keys(t)) \cup ({v} \ {Nil}))
  /\ UNCHANGED <<alive, meta, fields, stack, uvloc, uvval, gmt, running, udVars, gray, weak,
                 unswept, sweepstrgc, strsize, ctlVars>>

(* luaV_gettable, lua_next, lua_getmetatable, lua_getfenv, lua_getupvalue, *)
(* lua_xmove from another thread: any reference of an object that the      *)
(* program holds, or of an upvalue of a function that it holds, is pushed. *)
Load(o, v, s) ==
  /\ MutatorRuns
  /\ o \in Held \cup {Registry} \cup UNION {fields[f] \cap Upvals : f \in Held \cap Functions}
  /\ v \in Refs(o) \ Upvals
  /\ Push(s, v)
  /\ UNCHANGED <<heapVars, color, running, udVars, gray, listVars, ctlVars>>

LoadBasicMetatable(s) ==
  /\ MutatorRuns /\ gmt # NoObj
  /\ Push(s, gmt)
  /\ UNCHANGED <<heapVars, color, running, udVars, gray, listVars, ctlVars>>

(* lua_setmetatable, one action per kind of object: a table ...            *)
SetTableMeta(t, m) ==
  /\ MutatorRuns /\ t \in Held \cap Tables /\ m \in (Held \cap Tables) \cup {NoObj}
  /\ meta' = [meta EXCEPT ![t] = m]
  /\ luaC_barrierback(t, {m})
  /\ UNCHANGED <<alive, fields, entries, stack, uvloc, uvval, gmt, running, udVars, gray, weak,
                 unswept, sweepstrgc, strsize, ctlVars>>

(* ... a userdata ...                                                      *)
SetUdataMeta(u, m) ==
  /\ MutatorRuns /\ u \in Held \cap Udatas /\ m \in (Held \cap Tables) \cup {NoObj}
  /\ meta' = [meta EXCEPT ![u] = m]
  /\ luaC_barrierf(u, m)
  /\ UNCHANGED <<alive, fields, entries, stack, uvloc, uvval, gmt, running, udVars, listVars, ctlVars>>

(* ... and a basic type: no barrier, atomic marks g->mt again.             *)
SetBasicMeta(m) ==
  /\ MutatorRuns /\ m \in (Held \cap Tables) \cup {NoObj}
  /\ gmt' = m
  /\ UNCHANGED <<alive, meta, fields, entries, uvloc, uvval, color, stack, running, udVars, gray,
                 listVars, ctlVars>>

(* lua_setfenv on a userdata.                                              *)
SetUdataEnv(u, env) ==
  /\ MutatorRuns /\ u \in Held \cap Udatas /\ env \in Held \cap Tables
  /\ fields' = [fields EXCEPT ![u] = {env}]
  /\ luaC_barrierf(u, env)
  /\ UNCHANGED <<alive, meta, entries, stack, uvloc, uvval, gmt, running, udVars, listVars, ctlVars>>

(* lua_setfenv and lua_replace on a C function, addk and the other stores  *)
(* of the parser in a prototype: field old is overwritten with v.          *)
SetField(f, old, v) ==
  /\ MutatorRuns /\ f \in Held \cap Functions
  /\ old \in (fields[f] \ Upvals) \cup {NoObj} /\ v \in Held
  /\ fields' = [fields EXCEPT ![f] = (@ \ {old}) \cup {v}]
  /\ Cardinality(fields'[f]) <= MaxFields
  /\ luaC_barrierf(f, v)
  /\ UNCHANGED <<alive, meta, entries, stack, uvloc, uvval, gmt, running, udVars, listVars, ctlVars>>

(* OP_SETUPVAL: the slot of an open upvalue may belong to another thread.  *)
SetUpval(u, v) ==
  /\ MutatorRuns /\ v \in Held \cup {NoObj}
  /\ \E f \in Held \cap Functions : u \in fields[f] \cap Upvals
  /\ IF IsOpen(u)
     THEN stack' = [stack EXCEPT ![uvloc[u][1]][uvloc[u][2]] = v] /\ UNCHANGED uvval
     ELSE uvval' = [uvval EXCEPT ![u] = v] /\ UNCHANGED stack
  /\ luaC_barrierf(u, v)
  /\ UNCHANGED <<alive, meta, fields, entries, uvloc, gmt, running, udVars, listVars, ctlVars>>

(* lua_xmove, lua_pushXXX on another thread: stacks have no barrier.       *)
StoreInThread(th, s, v) ==
  /\ MutatorRuns /\ th \in Held \cap Threads /\ v \in Held
  /\ stack' = [stack EXCEPT ![th][s] = v]
  /\ UNCHANGED <<heapVars, color, running, udVars, gray, listVars, ctlVars>>

(* lua_resume of a thread that does not run, nor waits for another one;    *)
(* lua_yield or the end of its function gives control back.                *)
Resume(th) ==
  /\ MutatorRuns /\ th \in (Held \cap Threads) \ Range(running)
  /\ running' = Append(running, th)
  /\ UNCHANGED <<heapVars, color, stack, udVars, gray, listVars, ctlVars>>

Yield ==
  /\ MutatorRuns /\ Len(running) > 1
  /\ running' = SubSeq(running, 1, Len(running) - 1)
  /\ UNCHANGED <<heapVars, color, stack, udVars, gray, listVars, ctlVars>>

(* luaF_close of the open upvalues in S: a dead one is freed, another gets   *)
(* its own value and luaC_linkupval links it in rootgc; a gray one becomes *)
(* black with its value marked, or, during a sweep, is swept at once.      *)
luaF_close(S) ==
  LET kept == {u \in S : ~ isdead(u)}
      blackened == IF gcstate = "propagate" THEN {u \in kept : color[u] = "gray"} ELSE {}
      m == Marked({UpvalValue(u) : u \in blackened})
  IN  /\ alive' = alive \ (S \ kept)
      /\ uvloc' = [u \in Upvals |-> IF u \in S THEN Closed ELSE uvloc[u]]
      /\ uvval' = [u \in Upvals |-> IF u \in kept THEN UpvalValue(u) ELSE uvval[u]]
      /\ color' = [o \in Objects |->
                     IF o \in S \ kept THEN "white0"
                     ELSE IF o \in blackened THEN "black"
                     ELSE IF o \in kept /\ color[o] = "gray" THEN currentwhite
                     ELSE IF o \in m THEN ColorOnceMarked(o) ELSE color[o]]
      /\ gray' = gray \cup Linked(m)

CloseUpvals(S) ==
  /\ MutatorRuns
  /\ S # {} /\ S \subseteq {u \in OpenUpvals : uvloc[u][1] = cur}
  /\ luaF_close(S)
  /\ UNCHANGED <<meta, fields, entries, gmt, stack, running, udVars, listVars, ctlVars>>

Mutator ==
  \/ \E s \in LocalSlots :
       \/ "Move" \in Operations /\ \E v \in Held \cup {NoObj, cur} : Move(s, v)
       \/ "NewTable" \in Operations /\ \E t \in Tables : NewTable(t, s)
       \/ "NewUdata" \in Operations /\ \E u \in Udatas, env \in Tables : NewUdata(u, env, s)
       \/ "NewFunction" \in Operations /\ \E f \in Functions :
            \E S \in SUBSET (Held \cup Upvals) : NewFunction(f, S, s)
       \/ "Capture" \in Operations /\ \E f \in Functions, u \in Upvals :
            \/ CaptureOpen(f, u, s)
            \/ \E level \in LocalSlots : CaptureNew(f, u, level, s)
       \/ "NewThread" \in Operations /\ \E th \in Threads : NewThread(th, s)
       \/ "NewString" \in Operations /\ \E str \in Strings : NewString(str, s)
       \/ "Load" \in Operations /\ \E o, v \in Objects : Load(o, v, s)
       \/ "SetBasicMeta" \in Operations /\ LoadBasicMetatable(s)
       \/ "StoreInThread" \in Operations /\ \E th \in Threads, v \in Held : StoreInThread(th, s, v)
  \/ "SetGlobals" \in Operations /\ \E th \in Threads, t \in Tables : SetGlobals(th, t)
  \/ "SetTable" \in Operations /\ \E t \in Tables, k \in (Held \cap AsKeys) \cup {NoObj} :
       \E v \in Held \cup {NoObj, Nil} : SetTable(t, k, v)
  \/ "SetTableMeta" \in Operations /\ \E t \in Tables, m \in Values : SetTableMeta(t, m)
  \/ "SetUdataMeta" \in Operations /\ \E u \in Udatas, m \in Values : SetUdataMeta(u, m)
  \/ "SetBasicMeta" \in Operations /\ \E m \in Values : SetBasicMeta(m)
  \/ "SetUdataEnv" \in Operations /\ \E u \in Udatas, env \in Tables : SetUdataEnv(u, env)
  \/ "SetField" \in Operations /\ \E f \in Functions, old, v \in Values : SetField(f, old, v)
  \/ "SetUpval" \in Operations /\ \E u \in Upvals, v \in Values : SetUpval(u, v)
  \/ "Resume" \in Operations /\ ((\E th \in Threads : Resume(th)) \/ Yield)
  \/ "CloseUpvals" \in Operations /\ \E S \in SUBSET OpenUpvals : CloseUpvals(S)

(***************************************************************************)
(* The collector.  atomic() is one step of singlestep; it is cut at its    *)
(* calls of propagateall so that the traversals are those of PropagateMark *)
(* here too, and the program does not run between the pieces.              *)
(***************************************************************************)

(* GCSpause: markroot starts a cycle.  luaC_fullgc calls it as soon as no   *)
(* sweep is pending.                                                       *)
MarkRoot ==
  /\ \/ gcstate = "pause" /\ fullgc = "no"
     \/ gcstate = "finalize" /\ fullgc = "sweeping"
  /\ MarkFrom({MainThread, stack[MainThread][GlobalSlot], Registry, gmt}, {})
  /\ grayagain' = {} /\ weak' = {}
  /\ gcstate' = "propagate"
  /\ fullgc' = IF fullgc = "no" THEN "no" ELSE "marking"
  /\ UNCHANGED <<heapVars, stack, running, udVars, unswept, sweepstrgc, strsize, currentwhite>>

(* propagatemark: one object of the gray list is traversed.  A weak table   *)
(* and a thread stay gray, in the lists that atomic visits again.          *)
PropagateMark(o) ==
  /\ gcstate \in {"propagate"} \cup AtomicStates
  /\ o \in gray
  /\ LET m == Marked(StrongRefs(o))
     IN  /\ color' = [p \in Objects |->
                        IF p \in m THEN ColorOnceMarked(p)
                        ELSE IF p = o /\ WeakMode(o) = {} /\ o \notin Threads THEN "black"
                        ELSE color[p]]
         /\ gray' = (gray \ {o}) \cup Linked(m)
  /\ weak' = IF WeakMode(o) # {} THEN weak \cup {o} ELSE weak
  /\ grayagain' = IF o \in Threads THEN grayagain \cup {o} ELSE grayagain
  /\ UNCHANGED <<heapVars, stack, running, udVars, unswept, sweepstrgc, strsize, ctlVars>>

AtomicStage(from, to) ==
  /\ gcstate = from /\ gray = {}
  /\ gcstate' = to
  /\ UNCHANGED <<heapVars, stack, running, unswept, sweepstrgc, strsize, currentwhite, fullgc>>

(* atomic: the values of the open upvalues of threads that may be dead ...  *)
RemarkUpvals ==
  /\ AtomicStage("propagate", "remarkupvals")
  /\ MarkFrom({UpvalValue(u) : u \in {w \in OpenUpvals : color[w] = "gray"}}, {})
  /\ UNCHANGED <<udVars, grayagain, weak>>

(* ... the weak tables, the running thread and the basic metatables ...     *)
RemarkWithoutMt ==
  /\ AtomicStage("remarkupvals", "remarkweak")
  /\ MarkFrom({cur}, weak)
  /\ weak' = {}
  /\ UNCHANGED <<udVars, grayagain>>
RemarkWeak ==
  /\ AtomicStage("remarkupvals", "remarkweak")
  /\ MarkFrom({cur, gmt}, weak)
  /\ weak' = {}
  /\ UNCHANGED <<udVars, grayagain>>

(* ... what the backward barrier caught, and the threads ...               *)
RemarkNoThreads ==
  /\ AtomicStage("remarkweak", "remarkagain")
  /\ gray' = grayagain \ Threads /\ grayagain' = {}
  /\ UNCHANGED <<color, udVars, weak>>
RemarkAgain ==
  /\ AtomicStage("remarkweak", "remarkagain")
  /\ gray' = grayagain /\ grayagain' = {}
  /\ UNCHANGED <<color, udVars, weak>>

(* s with only the members of S, in the order they have in s.              *)
Filtered(s, S) ==
  {q \in UNION {[1..n -> S] : n \in 0..Len(s)} :
     /\ Range(q) = S
     /\ \A i, j \in DOMAIN q : i < j =>
          \E k, l \in DOMAIN s : k < l /\ s[k] = q[i] /\ s[l] = q[j]}

HasFinalizer(u) == meta[u] \in HasGC

(* ... then luaC_separateudata moves the dead userdata that have a          *)
(* finalizer to the end of tmudata, and marktmu marks all that wait there. *)
NoneToFinalize(all) == {}
NotFinalized(all) == {u \in Range(udlist) : u \notin finalized /\ (all \/ iswhite(u))}
SeparateWithoutBit(all) ==
  LET due == {u \in NotFinalized(all) : HasFinalizer(u)}
  IN  /\ finalized' = finalized
      /\ \E q \in Filtered(udlist, due) : tmudata' = tmudata \o q
      /\ udlist' \in Filtered(udlist, Range(udlist) \ due)
SeparateAtFront(all) ==
  LET due == {u \in NotFinalized(all) : HasFinalizer(u)}
  IN  /\ finalized' = finalized \cup NotFinalized(all)
      /\ \E q \in Filtered(udlist, due) :
           tmudata' = tmudata \o [i \in DOMAIN q |-> q[Len(q) + 1 - i]]
      /\ udlist' \in Filtered(udlist, Range(udlist) \ due)
luaC_separateudata(all) ==
  LET due == {u \in NotFinalized(all) : HasFinalizer(u)}
  IN  /\ finalized' = finalized \cup NotFinalized(all)
      /\ \E q \in Filtered(udlist, due) : tmudata' = tmudata \o q
      /\ udlist' \in Filtered(udlist, Range(udlist) \ due)

SeparateOnly ==
  /\ AtomicStage("remarkagain", "marktmu")
  /\ luaC_separateudata(FALSE)
  /\ UNCHANGED <<color, gray, grayagain, weak>>
MarkTmu ==
  /\ AtomicStage("remarkagain", "marktmu")
  /\ luaC_separateudata(FALSE)
  /\ LET m == {o \in UNION {OwnRefs(u) : u \in Range(tmudata')} : o # NoObj /\ iswhite(o)}
     IN  /\ color' = [o \in Objects |-> IF o \in Range(tmudata') THEN "black"
                                        ELSE IF o \in m THEN "gray" ELSE color[o]]
         /\ gray' = Linked(m)
  /\ UNCHANGED <<grayagain, weak>>

(* iscleared: strings are never removed, a userdata that is being finalized *)
(* is removed as a value and kept as a key.                                *)
NoneCleared(o) == FALSE
StringsCleared(o) == o \in Objects /\ iswhite(o)
ClearedKey(o) == o \in Objects \ Strings /\ iswhite(o)
ClearedValue(o) == ClearedKey(o) \/ o \in Udatas \cap finalized

(* What luaC_step sweeps: rootgc.  Strings are in the string table, open    *)
(* upvalues in their threads.                                              *)
Rootgc == ((alive \ Strings) \ OpenUpvals) \ Range(tmudata)

(* ... and the end of atomic: cleartable empties entries of weak tables     *)
(* (the array part, which may hold the keys that are not objects, only of  *)
(* tables with weak values), the white of the dead is flipped, the sweep   *)
(* begins.                                                                 *)
ClearAndFlip(inarray) ==
  LET spared(t, e) == e[1] = NoObj /\ t \in inarray /\ WeakMode(t) = {"k"}
      cleared(t) == {e \in entries[t] : ~ spared(t, e) /\ (ClearedKey(e[1]) \/ ClearedValue(e[2]))}
      strings == {s \in Strings : \E t \in weak : \E e \in entries[t] :
                    s = e[1] \/ (s = e[2] /\ ~ ClearedKey(e[1]))}
  IN  /\ gcstate = "marktmu" /\ gray = {}
      /\ entries' = [o \in Objects |-> IF o \in weak THEN entries[o] \ cleared(o) ELSE entries[o]]
      /\ color' = [o \in Objects |-> IF o \in strings THEN "gray" ELSE color[o]]
      /\ currentwhite' = otherwhite
      /\ sweepstrgc' = 0 /\ unswept' = Rootgc
      /\ gcstate' = "sweepstring"
      /\ UNCHANGED <<alive, meta, fields, uvloc, uvval, gmt, stack, running, udVars, gray,
                     grayagain, weak, strsize, fullgc>>

(* The open upvalues of threads in S.                                      *)
NoUpvalsOf(S) == {}
UpvalsOf(S) == {u \in OpenUpvals : uvloc[u][1] \in S}

(* freeobj of the objects in F: their memory is anyone's.  The open upvalues *)
(* of a dead thread are closed (luaE_freethread).                          *)
Free(F) ==
  /\ alive' = alive \ F
  /\ meta' = [o \in Objects |-> IF o \in F THEN NoObj ELSE meta[o]]
  /\ fields' = [o \in Objects |-> IF o \in F THEN {} ELSE fields[o]]
  /\ entries' = [o \in Objects |-> IF o \in F THEN {} ELSE entries[o]]
  /\ stack' = [th \in Threads |-> IF th \in F THEN [s \in Slots |-> NoObj] ELSE stack[th]]
  /\ uvloc' = [u \in Upvals |-> IF u \in F \cup UpvalsOf(F) THEN Closed ELSE uvloc[u]]
  /\ uvval' = [u \in Upvals |-> IF u \in F THEN NoObj
                                ELSE IF u \in UpvalsOf(F) THEN UpvalValue(u) ELSE uvval[u]]
  /\ finalized' = finalized \ F
  /\ udlist' \in Filtered(udlist, Range(udlist) \ F)
  /\ UNCHANGED <<gmt, running, tmudata>>

(* sweeplist over the objects of B.                                        *)
SweepList(B) ==
  /\ Free({o \in B : isdead(o)})
  /\ color' = [o \in Objects |-> IF o \notin B THEN color[o]
                                 ELSE IF isdead(o) THEN "white0" ELSE currentwhite]

SweepStringShort ==
  /\ gcstate = "sweepstring"
  /\ SweepList({s \in alive \cap Strings : Hash[s] % strsize = sweepstrgc})
  /\ sweepstrgc' = sweepstrgc + 1
  /\ gcstate' = IF sweepstrgc' + 1 >= strsize THEN "sweep" ELSE gcstate
  /\ UNCHANGED <<gray, grayagain, weak, unswept, strsize, currentwhite, fullgc>>
SweepString ==
  /\ gcstate = "sweepstring"
  /\ SweepList({s \in alive \cap Strings : Hash[s] % strsize = sweepstrgc})
  /\ sweepstrgc' = sweepstrgc + 1
  /\ gcstate' = IF sweepstrgc' >= strsize THEN "sweep" ELSE gcstate
  /\ UNCHANGED <<gray, grayagain, weak, unswept, strsize, currentwhite, fullgc>>

(* checkSizes: luaS_resize halves a string table that is mostly empty.     *)
checkSizes ==
  strsize' = IF /\ Cardinality(alive' \cap Strings) < strsize \div 4
                /\ strsize > 2 * MinStrTabSize
             THEN strsize \div 2 ELSE strsize

(* The step of GCSsweep sweeps up to GCSWEEPMAX objects of rootgc: it is as *)
(* many steps of Sweep, for which the order of rootgc is left open.  The   *)
(* open upvalues of a thread are swept with it.                            *)
Sweep(o) ==
  /\ gcstate = "sweep" /\ o \in unswept
  /\ SweepList({o} \cup UpvalsOf({o}))
  /\ unswept' = unswept \ {o}
  /\ IF unswept' # {}
     THEN UNCHANGED <<gcstate, strsize, fullgc>>
     ELSE /\ checkSizes
          /\ gcstate' = "finalize"
          /\ fullgc' = IF fullgc = "marking" THEN "no" ELSE fullgc
  /\ UNCHANGED <<gray, grayagain, weak, sweepstrgc, currentwhite>>

(* A push on the stack: slot s is above the open upvalues.                  *)
OnTop(s, u) ==
  /\ \A w \in OpenUpvals : uvloc[w] # <<cur, s>>
  /\ Push(s, u)

(* GCSfinalize: GCTM returns the first userdata of tmudata to the list      *)
(* after the main thread and calls its finalizer, if it still has one, with *)
(* the userdata on top of the stack of the running thread.  The operations   *)
(* that follow are those of the finalizer, until it ends.                   *)
FinalizedStaysLinked(s) ==
  /\ gcstate = "finalize" /\ fullgc = "no" /\ tmudata # <<>>
  /\ LET u == Head(tmudata)
     IN  /\ color' = [color EXCEPT ![u] = currentwhite]
         /\ IF HasFinalizer(u) THEN OnTop(s, u) ELSE UNCHANGED stack
  /\ UNCHANGED <<heapVars, running, udVars, gray, listVars, ctlVars>>
FinalizedStaysBlack(s) ==
  /\ gcstate = "finalize" /\ fullgc = "no" /\ tmudata # <<>>
  /\ LET u == Head(tmudata)
     IN  /\ tmudata' = Tail(tmudata)
         /\ udlist' = <<u>> \o udlist
         /\ IF HasFinalizer(u) THEN OnTop(s, u) ELSE UNCHANGED stack
  /\ UNCHANGED <<heapVars, color, running, finalized, gray, listVars, ctlVars>>
GCTM(s) ==
  /\ gcstate = "finalize" /\ fullgc = "no" /\ tmudata # <<>>
  /\ LET u == Head(tmudata)
     IN  /\ tmudata' = Tail(tmudata)
         /\ udlist' = <<u>> \o udlist
         /\ color' = [color EXCEPT ![u] = currentwhite]
         /\ IF HasFinalizer(u) THEN OnTop(s, u) ELSE UNCHANGED stack
  /\ UNCHANGED <<heapVars, running, finalized, gray, listVars, ctlVars>>

EndCycle ==
  /\ gcstate = "finalize" /\ fullgc = "no" /\ tmudata = <<>>
  /\ gcstate' = "pause"
  /\ UNCHANGED <<heapVars, color, stack, running, udVars, gray, listVars, currentwhite, fullgc>>

(* luaC_fullgc: a cycle that is still marking is dropped by sweeping all    *)
(* objects without flipping the white first; a pending sweep is finished;  *)
(* then comes a whole cycle.  The program does not run until that reaches  *)
(* GCSfinalize: from there on fullgc is "no" again, for the rest of        *)
(* luaC_fullgc, which calls the finalizers one after the other up to       *)
(* GCSpause, is one of the schedules of GCTM, the program and EndCycle.    *)
FullGC ==
  /\ MutatorRuns
  /\ fullgc' = "sweeping"
  /\ IF gcstate \in {"pause", "propagate"}
     THEN /\ sweepstrgc' = 0 /\ unswept' = Rootgc
          /\ gray' = {} /\ grayagain' = {} /\ weak' = {}
          /\ gcstate' = "sweepstring"
     ELSE UNCHANGED <<gray, grayagain, weak, unswept, sweepstrgc, gcstate>>
  /\ UNCHANGED <<heapVars, color, stack, running, udVars, strsize, currentwhite>>

Collector ==
  \/ MarkRoot
  \/ \E o \in Objects : PropagateMark(o)
  \/ RemarkUpvals \/ RemarkWeak \/ RemarkAgain \/ MarkTmu
  \/ \E inarray \in SUBSET {t \in weak : NoObj \in Keys(t)} : ClearAndFlip(inarray)
  \/ SweepString
  \/ \E o \in Objects : Sweep(o)
  \/ \E s \in LocalSlots : GCTM(s)
  \/ EndCycle

(* Between two cycles, with the objects h.objs besides the main thread, the *)
(* registry and the globals.                                               *)
InitWith(h) ==
  /\ alive = {MainThread, Registry, Globals} \cup h.objs
  /\ color = [o \in Objects |-> "white0"]
  /\ meta = h.meta /\ fields = h.fields /\ entries = h.entries
  /\ udlist = h.udlist /\ tmudata = <<>> /\ finalized = {}
  /\ stack = [th \in Threads |-> [s \in Slots |->
                IF th = MainThread /\ s = GlobalSlot THEN Globals ELSE NoObj]]
  /\ uvloc = [u \in Upvals |-> Closed]
  /\ uvval = [u \in Upvals |-> NoObj]
  /\ running = <<MainThread>>
  /\ gmt = NoObj
  /\ gcstate = "pause" /\ currentwhite = "white0"
  /\ gray = {} /\ grayagain = {} /\ weak = {}
  /\ unswept = {} /\ sweepstrgc = 0 /\ strsize = MinStrTabSize
  /\ fullgc = "no"

(* lua_newstate, f_luaopen.                                                *)
NewState == [objs |-> {}, meta |-> [o \in Objects |-> NoObj], fields |-> [o \in Objects |-> {}],
             entries |-> [o \in Objects |-> {}], udlist |-> <<>>]
Init == InitWith(NewState)

Next == Mutator \/ Collector \/ ("FullGC" \in Operations /\ FullGC)
Spec == Init /\ [][Next]_vars
(* The program goes on allocating: the collector is called again and again. *)
FairSpec == Spec /\ WF_vars(Collector)

(***************************************************************************)
(* Properties.                                                             *)
(***************************************************************************)

(* An upvalue is shared by closures; it is never on a stack or in a table.  *)
FirstClass == Values \ Upvals

HeapType ==
  /\ alive \subseteq Objects
  /\ color \in [Objects -> Whites \cup {"gray", "black"}]
  /\ meta \in [Objects -> Tables \cup {NoObj}]
  /\ fields \in [Objects -> SUBSET Objects]
  /\ entries \in [Objects -> SUBSET (FirstClass \X FirstClass)]
  /\ \A o \in Objects : /\ o \in Udatas => fields[o] \subseteq Tables
                        /\ o \notin Udatas \cup Functions => fields[o] = {}
                        /\ o \notin Tables \cup Udatas => meta[o] = NoObj
                        /\ o \notin Tables => entries[o] = {}
ProgramType ==
  /\ stack \in [Threads -> [Slots -> FirstClass]]
  /\ uvloc \in [Upvals -> (Threads \X LocalSlots) \cup {Closed}]
  /\ uvval \in [Upvals -> FirstClass]
  /\ running \in Seq(Threads) \ {<<>>}
  /\ gmt \in Tables \cup {NoObj}
CollectorType ==
  /\ udlist \in Seq(Udatas) /\ tmudata \in Seq(Udatas) /\ finalized \subseteq Udatas
  /\ gcstate \in GCStates /\ currentwhite \in Whites
  /\ gray \subseteq HasGclist /\ grayagain \subseteq HasGclist /\ weak \subseteq Tables
  /\ unswept \subseteq Objects /\ sweepstrgc \in Nat /\ strsize \in Nat \ {0}
  /\ fullgc \in {"no", "sweeping", "marking"}
TypeOK == HeapType /\ ProgramType /\ CollectorType

Live == {o \in alive : ~ isdead(o)}
Roots == Range(running) \cup {MainThread, Registry} \cup ({gmt} \ {NoObj}) \cup Range(tmudata)

(* lobject.h, checkliveness: whatever the program can name, or can get from *)
(* an object that is not dead, is allocated and is not about to be swept.  *)
(* That holds at every point of the cycle, weak entries and the stacks of  *)
(* suspended threads included.                                             *)
CheckLiveness ==
  /\ Roots \subseteq Live
  /\ \A o \in Live : Refs(o) \subseteq Live

(* lgc.h, "black object pointing to a white one": while the collector      *)
(* marks, a black object refers to no white one, whatever the program has  *)
(* stored in it meanwhile; but for a userdata that was waiting for its     *)
(* finalizer when the cycle began, until marktmu visits it.                *)
MarkPhase == {"propagate"} \cup AtomicStates
TriColor ==
  gcstate \in MarkPhase =>
    \A o \in alive : isblack(o) /\ (o \in Range(tmudata) => gcstate = "marktmu")
                       => \A r \in Refs(o) : ~ iswhite(r)

(* While the collector marks, no gray object is forgotten: it is in a list  *)
(* that will be visited, or needs no visit (strings), or is an open upvalue *)
(* that remarkupvals finds in uvhead.  The lists hold gray objects only,   *)
(* and none holds an object of another, for an object has one gclist.      *)
GrayLists ==
  gcstate \in MarkPhase =>
    /\ gray \cup grayagain \cup weak \subseteq {o \in alive : color[o] = "gray"}
    /\ gray \cap (grayagain \cup weak) = {} /\ grayagain \cap weak = {}
    /\ \A o \in alive : color[o] = "gray" =>
         o \in gray \cup grayagain \cup weak \cup Strings \cup OpenUpvals

(* What each piece of atomic has made sure of when the next one begins: the *)
(* values of gray open upvalues, what weak tables hold strongly, and the   *)
(* stacks of the threads are marked.                                       *)
RemarkedLists ==
  (IF gcstate \in {"remarkweak", "remarkagain", "marktmu"} THEN weak ELSE {}) \cup
  (IF gcstate \in {"remarkagain", "marktmu"} THEN grayagain ELSE {})
Remarked ==
  /\ gcstate \in MarkPhase => ~ iswhite(MainThread) /\ ~ iswhite(Registry)
  /\ gcstate \in {"remarkweak", "remarkagain", "marktmu"} =>
       ~ iswhite(cur) /\ (gmt # NoObj => ~ iswhite(gmt))
  /\ gcstate \in AtomicStates =>
       \A u \in OpenUpvals : color[u] = "gray" /\ UpvalValue(u) # NoObj
                               => ~ iswhite(UpvalValue(u))
  /\ \A o \in RemarkedLists : \A r \in StrongRefs(o) : ~ iswhite(r)
  /\ gcstate \in {"remarkagain", "marktmu"} => grayagain \subseteq Threads
  /\ gcstate = "marktmu" => \A u \in Range(tmudata) : isblack(u)

(* A sweep finds every object that it has to free or to turn white, though *)
(* the program goes on linking, interning, closing and storing between its *)
(* steps: outside of the mark phase whatever does not have the current     *)
(* white is still to be swept, or waits for its finalizer; in it no object *)
(* has the other white.  The assertions on gcstate in luaC_barrierback and *)
(* luaC_linkupval follow.                                                  *)
StillToSweep ==
  Range(tmudata) \cup
  IF gcstate \notin SweepStates THEN {}
  ELSE unswept \cup {u \in OpenUpvals : uvloc[u][1] \in unswept}
         \cup (IF gcstate = "sweep" THEN {}
               ELSE {s \in Strings : Hash[s] % strsize >= sweepstrgc})
SweepComplete ==
  \A o \in alive : IF gcstate \in MarkPhase THEN ~ isdead(o)
                   ELSE color[o] # currentwhite => o \in StillToSweep

(* Each userdata is in one of the two circular lists, once; one that waits *)
(* for its finalizer has its bit set, so that it is not separated again.   *)
UdataLists ==
  /\ Range(udlist) \cup Range(tmudata) = alive \cap Udatas
  /\ Range(udlist) \cap Range(tmudata) = {}
  /\ \A i, j \in DOMAIN udlist : udlist[i] = udlist[j] => i = j
  /\ \A i, j \in DOMAIN tmudata : tmudata[i] = tmudata[j] => i = j
  /\ Range(tmudata) \subseteq finalized /\ finalized \subseteq alive

(* What has no write barrier is never black.                               *)
NeverBlack == \A o \in Threads \cup Strings \cup OpenUpvals : ~ isblack(o)

(* A userdata, which has no gclist, is never gray.                         *)
NeverGray == \A u \in Udatas : color[u] # "gray"

(* What is left to sweep is allocated and in rootgc, not elsewhere.        *)
UnsweptListed ==
  /\ unswept \subseteq (alive \ Strings) \ (OpenUpvals \cup Range(tmudata))
  /\ gcstate \notin SweepStates => unswept = {}

(* The open upvalues of a thread that is freed are closed with it, what was *)
(* freed keeps nothing, and the lists above are as they should be.         *)
OpenListed ==
  \A u \in Upvals : IsOpen(u) => u \in alive /\ uvloc[u][1] \in alive /\ uvval[u] = NoObj
FreedEmpty == \A o \in Objects \ alive : Refs(o) = {}
Normal ==
  /\ NeverBlack /\ NeverGray /\ UnsweptListed
  /\ OpenListed /\ FreedEmpty /\ running[1] = MainThread

(* A cycle that has begun ends, whatever the program stores meanwhile: the  *)
(* barriers do not feed the mark phase for ever, nor finalizers the last.  *)
CycleEnds == gcstate # "pause" ~> gcstate = "pause"

(* The inductive invariant: what the collector and the barriers of the     *)
(* program preserve together, in every state of the cycle, so that nothing  *)
(* that can still be read is freed and nothing dead is kept.               *)
IInv == TypeOK /\ CheckLiveness /\ TriColor /\ GrayLists /\ Remarked /\ SweepComplete
          /\ UdataLists /\ Normal
=============================================================================
