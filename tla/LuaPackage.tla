----------------------------- MODULE LuaPackage -----------------------------
(***************************************************************************)
(* require, module and the loaders of loadlib.c, with the part of lauxlib.c *)
(* that names the table of a library (luaL_findtable, luaI_openlib).        *)
(*                                                                         *)
(* call.frames are the running functions: the main chunk, protected calls   *)
(* and bodies of modules.  Any of them may require, call module, assign to  *)
(* package.loaded, or raise an error; a body of a C library may also        *)
(* register functions.  The name of a module is the sequence of its         *)
(* components.  Metamethods, the search in path templates and the loaders   *)
(* that a program adds are left out.                                        *)
(***************************************************************************)
EXTENDS Integers, Sequences, SequencesExt, FiniteSetsExt

CONSTANTS Names,             (* names of modules                             *)
          MaxFrames,         (* bound: running functions                     *)
          MaxTables,         (* tables that their components may need        *)
          PackageWorlds      (* what the loaders find: records of            *)
                             (*   preload: the names in package.preload      *)
                             (*   files: for a name "none", "good" or "bad"  *)
                             (*   libraries: for a name the functions of the *)
                             (*     library in its file, NoLibrary if none   *)
                             (*   globals: global variables with no table    *)
VARIABLE call                (* the running program                          *)

nil == <<"nil">>
sentinel == <<"sentinel">>
Table(k) == <<"table", k>>
Own == Table(MaxTables + 1)  (* a table that the program has made            *)
NoLibrary == {<<>>}
toboolean(v) == v[1] \notin {"nil", "false"}
istable(v) == v[1] = "table"

_G == 0
Components == UNION {Range(name) : name \in Names}
Frame(kind, name) == [kind |-> kind, name |-> name, env |-> _G, cleared |-> FALSE]
Start(world) ==
  [fn |-> "package", world |-> world,
   frames |-> <<Frame("main", <<>>)>>,
   loaded |-> [name \in Names |-> nil],
   fields |-> [t \in 0 .. MaxTables |-> [x \in Components |-> IF t = _G /\ x \in world.globals THEN <<"value">> ELSE nil]],
   tables |-> 0,                                          \* how many have been made
   _NAME |-> [t \in 1 .. MaxTables + 1 |-> <<>>],
   opened |-> [name \in Names |-> 0],                     \* how often a library has been opened
   failed |-> {},                                         \* the bodies that have ended in an error
   result |-> <<"true">>]                                  \* of the last require

Top == Last(call.frames)
Active == call.fn = "package" /\ call.frames # <<>>
PushFrame(c, kind, name) == [c EXCEPT !.frames = Append(@, Frame(kind, name))]

(* An error ends all functions up to the last protected call.              *)
Protected(c) == {i \in DOMAIN c.frames : c.frames[i].kind = "pcall"}
BodiesFrom(c, i) == {c.frames[k].name : k \in {j \in i .. Len(c.frames) : c.frames[j].kind \in {"body", "cbody"}}}
luaL_error(c) ==
  LET i == Max(Protected(c) \cup {1})
  IN  [c EXCEPT !.frames = SubSeq(@, 1, i - 1), !.failed = @ \cup BodiesFrom(c, i)]

(***************************************************************************)
(* The loaders, in the order of package.loaders: each finds a body, tells   *)
(* why it has none ("none"), or raises an error.                            *)
(***************************************************************************)
loader_preload(name) == IF name \in call.world.preload THEN "body" ELSE "none"
loader_Lua(name) == CASE call.world.files[name] = "none" -> "none" [] call.world.files[name] = "good" -> "body" [] OTHER -> "error"
(* The function for name in the library of the file for libname; opens: it  *)
(* can be opened.                                                          *)
HasLibrary(libname) == call.world.libraries[libname] # NoLibrary
ll_loadfunc(libname, name, opens) ==
  CASE call.opened[libname] = 0 /\ ~ opens -> "ERRLIB"
    [] (call.opened[libname] > 0 \/ opens) /\ name \in call.world.libraries[libname] -> "cbody"
    [] OTHER -> "ERRFUNC"
loader_C(name, opens) ==
  CASE ~ HasLibrary(name) -> "none"
    [] HasLibrary(name) /\ ll_loadfunc(name, name, opens) = "cbody" -> "cbody"
    [] OTHER -> "error"
Root(name) == <<name[1]>>
loader_Croot(name, opens) ==
  CASE Len(name) = 1 \/ ~ HasLibrary(Root(name)) -> "none"
    [] Len(name) > 1 /\ HasLibrary(Root(name)) /\ ll_loadfunc(Root(name), name, opens) = "ERRFUNC" -> "none"
    [] Len(name) > 1 /\ HasLibrary(Root(name)) /\ ll_loadfunc(Root(name), name, opens) = "cbody" -> "cbody"
    [] OTHER -> "error"
Loaders(name, opens) == <<loader_preload(name), loader_Lua(name), loader_C(name, opens), loader_Croot(name, opens)>>
Finding(outcomes) == {i \in DOMAIN outcomes : outcomes[i] # "none"}

(* ll_register and ll_load: a handle that is open is used again.            *)
LibraryOf(name, i) == IF i = 4 THEN Root(name) ELSE name
Opened(c, name, i, opens) ==
  IF i \in {3, 4} /\ opens /\ c.opened[LibraryOf(name, i)] = 0 THEN [c EXCEPT !.opened[LibraryOf(name, i)] = @ + 1] ELSE c
Asked(name, outcomes, opens) ==   \* all the loaders that have been called
  LET last == IF Finding(outcomes) = {} THEN 4 ELSE Min(Finding(outcomes))
      upto(i) == i <= last /\ (IF i = 3 THEN HasLibrary(name) ELSE Len(name) > 1 /\ HasLibrary(Root(name)))
  IN  FoldLeft(LAMBDA c, i : IF upto(i) THEN Opened(c, name, i, opens) ELSE c, call, <<3, 4>>)

(* Mutant: require leaves no sentinel.                                     *)
NoSentinel(c, name, kind) == PushFrame([c EXCEPT !.failed = @ \ {name}], kind, name)
RunBody(c, name, kind) ==
  PushFrame([c EXCEPT !.loaded[name] = sentinel, !.failed = @ \ {name}], kind, name)
Load(name, outcomes, opens) ==
  CASE Finding(outcomes) = {} -> luaL_error(Asked(name, outcomes, opens))
    [] Finding(outcomes) # {} /\ outcomes[Min(Finding(outcomes))] = "error" -> luaL_error(Asked(name, outcomes, opens))
    [] OTHER -> RunBody(Asked(name, outcomes, opens), name, outcomes[Min(Finding(outcomes))])
ll_require(name) ==
  /\ Active /\ Len(call.frames) < MaxFrames
  /\ CASE call.loaded[name] = sentinel -> call' = luaL_error(call)
       [] call.loaded[name] # sentinel /\ toboolean(call.loaded[name]) -> call' = call  \* the result
       [] OTHER -> \E opens \in BOOLEAN : call' = Load(name, Loaders(name, opens), opens)

(* The end of require, when the body has returned v: its result is then     *)
(* package.loaded[name].                                                   *)
EndRequire(c, name) == IF c.loaded[name] = sentinel THEN [c EXCEPT !.loaded[name] = <<"true">>] ELSE c
(* A frame notes that the entry of its name has been cleared.              *)
Note(frames, name, v) ==
  [i \in DOMAIN frames |-> [frames[i] EXCEPT !.cleared = @ \/ (frames[i].name = name /\ ~ toboolean(v))]]
SetLoaded(c, name, v) == [c EXCEPT !.loaded[name] = v, !.frames = Note(@, name, v)]
BodyReturns(v) ==
  /\ Active /\ Top.kind \in {"body", "cbody"}
  /\ LET c == [call EXCEPT !.frames = Front(@)]
     IN  call' = EndRequire(IF v = nil THEN c ELSE SetLoaded(c, Top.name, v), Top.name)

(***************************************************************************)
(* The table of a library or of a module.                                  *)
(***************************************************************************)
(* One component further from table s.t, with a new table if there is none. *)
Enter(s, x) ==
  CASE s.conflict -> s
    [] ~ s.conflict /\ s.c.fields[s.t][x] = nil ->
         [c |-> [s.c EXCEPT !.tables = @ + 1, !.fields[s.t][x] = Table(s.c.tables + 1)], t |-> s.c.tables + 1, conflict |-> FALSE]
    [] ~ s.conflict /\ istable(s.c.fields[s.t][x]) -> [s EXCEPT !.t = s.c.fields[s.t][x][2]]
    [] OTHER -> [s EXCEPT !.conflict = TRUE]
luaL_findtable(c, name) == FoldLeft(Enter, [c |-> c, t |-> _G, conflict |-> FALSE], name)
LibraryTable(name) ==   \* the table, put into package.loaded, or a conflict
  IF istable(call.loaded[name]) THEN [c |-> call, t |-> call.loaded[name][2], conflict |-> FALSE]
  ELSE LET found == luaL_findtable(call, name)
       IN  IF found.conflict THEN found ELSE [found EXCEPT !.c.loaded[name] = Table(found.t)]

luaI_openlib(name) ==
  /\ Active /\ Top.kind = "cbody"
  /\ LET lib == LibraryTable(name) IN call' = IF lib.conflict THEN luaL_error(lib.c) ELSE lib.c

modinit(c, t, name) == IF c._NAME[t] = <<>> THEN [c EXCEPT !._NAME[t] = name] ELSE c
setfenv(c, t) == IF Top.kind = "cbody" THEN luaL_error(c) ELSE [c EXCEPT !.frames[Len(c.frames)].env = t]
ll_module(name) ==
  /\ Active
  /\ LET m == LibraryTable(name) IN call' = IF m.conflict THEN luaL_error(m.c) ELSE setfenv(modinit(m.c, m.t, name), m.t)

(***************************************************************************)
(* The rest of the program.                                                *)
(***************************************************************************)
AssignLoaded(name, v) == Active /\ call' = SetLoaded(call, name, v)
lua_pcall == Active /\ Len(call.frames) < MaxFrames /\ call' = PushFrame(call, "pcall", <<>>)
pcall_returns == Active /\ Top.kind = "pcall" /\ call' = [call EXCEPT !.frames = Front(@)]
lua_error == Active /\ call' = luaL_error(call)

Init == \E world \in PackageWorlds : call = Start(world)
Next ==
  \/ \E name \in Names : ll_require(name) \/ luaI_openlib(name) \/ ll_module(name)
  \/ \E v \in {nil, <<"false">>, <<"value">>} : BodyReturns(v)
  \/ \E v \in {nil, Own}, name \in Names : AssignLoaded(name, v)
  \/ lua_pcall \/ pcall_returns \/ lua_error

(***************************************************************************)
(* Properties.                                                             *)
(***************************************************************************)
Bodies(name) == {i \in DOMAIN call.frames : call.frames[i].kind \in {"body", "cbody"} /\ call.frames[i].name = name}
(* The body of a module runs once, and not inside itself, as long as nobody *)
(* clears its entry of package.loaded; the sentinel stays there only while  *)
(* it runs, or after it has failed.                                        *)
OneBody ==
  /\ \A name \in Names :
       /\ \A i \in Bodies(name) : call.frames[i].cleared \/ (i = Max(Bodies(name)) /\ toboolean(call.loaded[name]))
       /\ call.loaded[name] = sentinel => Bodies(name) # {} \/ name \in call.failed
(* A table that module or luaL_register has put into package.loaded is also *)
(* the value of the global variable of that name, whatever has failed half  *)
(* way, and a table has the name under which it was found first.            *)
GlobalAt(name) == FoldLeft(LAMBDA v, x : IF istable(v) THEN call.fields[v[2]][x] ELSE nil, Table(_G), name)
TablesNamed ==
  /\ \A name \in Names : istable(call.loaded[name]) /\ call.loaded[name] # Own => GlobalAt(name) = call.loaded[name]
  /\ \A t \in 1 .. call.tables : call._NAME[t] # <<>> => GlobalAt(call._NAME[t]) = Table(t)
LibrariesOnce == \A name \in Names : call.opened[name] <= 1
RequireRight == OneBody /\ TablesNamed /\ LibrariesOnce
=============================================================================
