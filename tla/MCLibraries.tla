----------------------------- MODULE MCLibraries -----------------------------
(***************************************************************************)
(* The libraries, one call or one program of one of them at a time.         *)
(***************************************************************************)
EXTENDS Integers, Sequences, FiniteSets, TLC
VARIABLE call

(***************************************************************************)
(* Strings: patterns of up to seven items.                                 *)
(***************************************************************************)
Pat == INSTANCE LuaPatterns WITH LUA_MAXCAPTURES <- 3, StringCalls <- {}
a == Pat!Single(<<"a">>, "a")
any == Pat!Single(<<".">>, "all")
not_a == Pat!Single(<<"[", "^", "a", "]">>, "not_a")
Sets ==
  {a, any, not_a, Pat!Single(<<"%", "a">>, "letters"), Pat!Single(<<"%", "A">>, "others"), Pat!Single(<<"[", "]", "a", "]">>, "bracket_a"),
   Pat!Single(<<"[", "a", "-", "b", "]">>, "ab"), Pat!Single(<<"[", "a", "-", "]">>, "a_minus"),
   Pat!Single(<<"[", "%", "a", "-", "]">>, "letters_minus"), Pat!Single(<<"[", "^", "%", "A", "]">>, "letters"),
   Pat!Single(<<"[", "^", "^", "]">>, "not_hat"), Pat!Single(<<"%", ".">>, "dot"), Pat!Single(<<"-">>, "minus")}
Reps == {Pat!Repeated(i, r) : i \in {a, any, not_a}, r \in {"?", "*", "+", "-"}}
Open == <<"(", <<"(">>, "">>
Close == <<")", <<")">>, "">>
Position == <<"()", <<"(", ")">>, "">>
End == <<"$", <<"$">>, "">>
Back1 == <<"back", <<"%", "1">>, 1>>
Special ==
  {Open, Close, Position, Back1, <<"balance", <<"%", "b", "a", "b">>, <<"a", "b">>>>,
   <<"frontier", <<"%", "f", "[", "a", "]">>, "a">>, <<"frontier", <<"%", "f", "[", "^", "a", "]">>, "not_a">>}
Few == {a, Pat!Repeated(any, "*"), Pat!Repeated(a, "-"), Pat!Repeated(a, "?"), Open, Close, Position, Back1, <<"back", <<"%", "2">>, 2>>}
Tiny == {any, Pat!Repeated(any, "*"), Pat!Repeated(a, "-"), Pat!Repeated(a, "+"), Back1}
Ones == {<<x>> : x \in Sets \cup Reps \cup Special}
Pairs == {<<x, y>> : x \in Few, y \in Few}
Lists ==
  {<<>>} \cup Ones \cup {Append(l, End) : l \in Ones}
    \cup {<<x, y>> : x \in Reps \cup Special, y \in Reps \cup Special} \cup {<<x, y, z>> : x \in Few, y \in Few, z \in Few}
    \cup {<<Open, x, Close, y, z>> : x \in Tiny, y \in Tiny, z \in Tiny}
    \cup {<<Open, x, Open, y, Close, Close, z>> : x \in Tiny, y \in Tiny, z \in Tiny}
(* The text of one item must not continue the one before.                  *)
Unambiguous(l) == \A i \in 1 .. Len(l) - 1 : ~ (l[i][1] = "(" /\ l[i + 1][1] = ")") /\ l[i + 1][2] # <<"-">>
Pattern(anchored, l) == [anchored |-> anchored, items |-> l, text |-> Pat!PatternText(anchored, l), plain |-> FALSE]
Patterns(lists) == {Pattern(FALSE, l) : l \in {m \in lists : Unambiguous(m)}}
AnchoredPatterns(lists) == {Pattern(TRUE, l) : l \in {m \in lists : Unambiguous(m)}}
PlainPatterns == {[p EXCEPT !.plain = TRUE] : p \in Patterns({<<x, a>> : x \in {a, any}})}
Call(fn, subjects, patterns, inits, repls, limits) ==
  [fn |-> fn, subjects |-> subjects, patterns |-> patterns, inits |-> inits, repls |-> repls, limits |-> limits]
Aba == <<"a", "b", "a">>
Baab == <<"b", "a", "a", "b">>
None == <<"string", <<>>, <<>>>>
First == <<"string", <<"%", "1", "c", "%", "%">>, <<<<"capture", 1>>, <<"text", <<"c", "%">>>>>>>>
SecondAndAll == <<"string", <<"%", "2", "%", "0">>, <<<<"capture", 2>>, <<"capture", 0>>>>>>
ATable ==
  <<"table", <<"string", <<"a">>>> :> <<"string", <<"b", "c">>>> @@ <<"string", <<>>>> :> <<"false">>
               @@ <<"string", <<"b">>>> :> <<"table">> @@ <<"position", 1>> :> <<"string", <<"f">>>>, <<>>>>
AFunction == <<"function", 0, <<>>>>
MCStringCalls ==
  {Call("find", {Baab}, Patterns(Lists), {1}, {None}, {0}),
   Call("find", {Aba}, Patterns(Pairs) \cup AnchoredPatterns(Pairs) \cup PlainPatterns, -4 .. 5, {None}, {0}),
   Call("match", {<<>>, Aba}, Patterns(Pairs) \cup AnchoredPatterns(Pairs), {1, -1}, {None}, {0}),
   Call("gmatch", {Aba}, Patterns(Pairs), {1}, {None}, {0}),
   Call("gsub", {Aba, <<>>}, Patterns(Pairs) \cup AnchoredPatterns(Pairs), {1}, {First, SecondAndAll, ATable, AFunction}, {9}),
   Call("gsub", {Aba}, Patterns({<<x>> : x \in Few}), {1}, {First}, 0 .. 2)}
Str == INSTANCE LuaPatterns WITH LUA_MAXCAPTURES <- 3, StringCalls <- MCStringCalls

(***************************************************************************)
(* Tables: arrays of up to 6 elements of 3 ranks, and wrong orders.         *)
(***************************************************************************)
Array(n, first, ranks) == [k \in 0 .. n + 1 |-> IF k = 0 THEN first ELSE IF k > n THEN <<>> ELSE <<ranks[k], k>>]
Sort(n, order, ranks) == {[a |-> Array(n, f, r), n |-> n, order |-> order] : f \in {<<>>, <<9, 0>>}, r \in ranks}
MCSortRequests ==
  UNION {Sort(n, "less", [1 .. n -> 1 .. 3]) : n \in 0 .. 5} \cup Sort(6, "less", {r \in [1 .. 6 -> 1 .. 3] : r[1] + r[2] = 4})
    \cup UNION {Sort(n, "any", {[k \in 1 .. n |-> k]}) : n \in 2 .. 4}
Tab == INSTANCE LuaTablib WITH SortRequests <- MCSortRequests, ListValues <- {<<"x">>, <<"y">>}, MaxList <- 4

(***************************************************************************)
(* Buffers of 3 bytes, 3 references, files of up to 5 characters.           *)
(***************************************************************************)
EscInComment(t) == t # <<>> /\ t[1] = "#" /\ \E k \in DOMAIN t : t[k] = "ESC" /\ \A m \in 1 .. k : t[m] # "\n"
MCFileRequests ==
  {[text |-> t, named |-> b] : t \in {u \in UNION {[1 .. n -> {"#", "\n", "ESC", "x"}] : n \in 0 .. 5} : ~ EscInComment(u)}, b \in BOOLEAN}
Aux == INSTANCE LuaAuxlib WITH
  LUAL_BUFFERSIZE <- 3, LUA_MINSTACK <- 8, MaxBytes <- 14, MaxRef <- 3, Referred <- {<<"x">>, <<"y">>}, FileRequests <- MCFileRequests

(***************************************************************************)
(* Modules a and a.b: in package.preload, in files, in a C library.         *)
(***************************************************************************)
A == <<"a">>
AB == <<"a", "b">>
NoLibrary == {<<>>}
World(preload, inA, inAB, libA, libAB, globals) ==
  [preload |-> preload, files |-> (A :> inA @@ AB :> inAB), libraries |-> (A :> libA @@ AB :> libAB), globals |-> globals]
MCWorlds ==
  {World({A}, "none", "good", NoLibrary, NoLibrary, {}), World({}, "none", "none", {A, AB}, NoLibrary, {}),
   World({}, "bad", "none", {A}, {}, {}), World({}, "none", "bad", {A}, {AB}, {"a"})}
Package == INSTANCE LuaPackage WITH Names <- {A, AB}, MaxFrames <- 3, MaxTables <- 2, PackageWorlds <- MCWorlds

(***************************************************************************)
(* Five handles of files; texts of up to 5 characters, read in 3 formats.   *)
(***************************************************************************)
Line == <<"l">>
Number == <<"n">>
All == <<"a">>
Chars(k) == <<"c", k>>
MCReadRequests ==
  {[text |-> t, formats |-> f] :
     t \in UNION {[1 .. n -> {"x", "\n", "1"}] : n \in 0 .. 5},
     f \in {<<Line, Line, Line>>, <<Line, Number, Chars(2)>>, <<Chars(3), Chars(0), Line>>, <<Number, All, Line>>,
            <<Chars(4), Number, Line>>, <<Number, Chars(1), Number>>}}
IO == INSTANCE LuaIO WITH MaxHandles <- 5, IO_BUFFERSIZE <- 3, ReadRequests <- MCReadRequests

(***************************************************************************)
(* Texts of two characters, and some longer ones, in one block and byte by  *)
(* byte.                                                                   *)
(***************************************************************************)
Alphabet == {"a", "1", ".", "e", "+", "-", "[", "=", "]", "\"", "\\", "\n", "\r", " "}
Texts ==
  UNION {[1 .. n -> Alphabet] : n \in 0 .. 2} \cup
  {<<"[", "[", "\r", "\n", "a", "]", "]", "1">>, <<"[", "=", "[", "]", "]", "\n", "\r", "]", "=", "]", "d", "o">>,
   <<"[", "[", "[", "[", "]", "]">>, <<"[", "=", "a">>, <<"[", "[", "a", "[", "=", "]">>,
   <<"-", "-", "[", "[", "\n", "]", "]", "a">>, <<"-", "-", "[", "=", "a", "\n", "1">>, <<"-", "-", "[", "=", "[", "]", "]", "]", "=", "]", "a">>,
   <<"-", "-", "a">>, <<"\"", "\\", "9", "9", "9", "\"">>, <<"\"", "\\", "2", "1", "1", "9", "\\", "\r", "\n", "a", "\\", "\"", "\"", "d", "o", "d">>,
   <<"'", "\\", "a", "\"", "\\", "e", "'">>, <<"\"", "\\">>, <<"\"", "a", "\n">>,
   <<"1", "e", "+", "1", "2", "-", "1", ".", "e", "1">>, <<"1", ".", ".", "2">>, <<"1", "e", "-", "a">>, <<".", "1", "1", "a">>,
   <<"a", ".", ".", "1">>, <<".", ".", ".", ".", "=", "=", "=", "~", "=", "<", "=", ">">>, <<"d", "o", "_", "=", "_", ">", "=", "~", "a">>}
MCReaders == UNION {{<<t>>, [i \in DOMAIN t |-> <<t[i]>>]} : t \in Texts}
Lex == INSTANCE LuaTokens WITH Readers <- MCReaders, ReservedWords <- {<<"d", "o">>}, MAX_SIZET <- 255

Init == Str!Init \/ Tab!Init \/ Aux!Init \/ Package!Init \/ IO!Init \/ Lex!Init
Next == Str!Next \/ Tab!Next \/ Aux!Next \/ Package!Next \/ IO!Next \/ Lex!Next

(* lstrlib.c: what find, match, gmatch and gsub find, capture and replace    *)
(* is what the manual says of the pattern.                                 *)
MatchesRight == call.fn \in {"find", "match", "gmatch", "gsub"} => Str!MatchesRight
(* ltablib.c: a sort ends with the same elements in order and stays inside  *)
(* the array; with a wrong order it loses no element.  insert, remove and   *)
(* concat do to the table what the manual says of a list.                  *)
TablesRight == call.fn \in {"sort", "list"} => Tab!TablesRight
(* lauxlib.c: a buffer holds what was added with few pieces on the stack, a *)
(* reference stays the value's until it is given back, and a file is loaded *)
(* in the right mode, from its start.                                      *)
AuxlibRight == call.fn \in {"buffer", "ref", "loadfile"} => Aux!AuxlibRight
(* loadlib.c: the body of a module runs once and not inside itself, its     *)
(* table is where package.loaded and the globals say, a library is opened   *)
(* once.                                                                   *)
RequireRight == call.fn = "package" => Package!RequireRight
(* liolib.c: a file is closed once and never used afterwards, the default   *)
(* files stay; read gives what the manual says of the formats.             *)
FilesRight == call.fn \in {"files", "read"} => IO!FilesRight
(* llex.c over lzio.c: the tokens, their values and lines are those of the  *)
(* text however its blocks are cut and whenever the parser looks ahead.     *)
TokensRight == call.fn \in {"lexer", "loader"} => Lex!TokensRight
=============================================================================
