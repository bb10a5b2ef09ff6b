------------------------------ MODULE LuaStrlib ------------------------------
(***************************************************************************)
(* The pattern matcher of the string library and the functions that call it *)
(* (lstrlib.c): string.find, string.match, string.gmatch, string.gsub, with *)
(* string.sub for its positions.                                           *)
(*                                                                         *)
(* A string is a sequence of characters; pointers into it are indices from  *)
(* 1, and the character after its end is NUL, as in C.  The matcher is     *)
(* recursive and works on one MatchState, which it must leave as it found   *)
(* it wherever a match fails: ms is that state, with the result of the last *)
(* call in s (NULL where it failed) and the error it raised in err.  Each   *)
(* turn of the loops of gmatch and gsub is a step.                         *)
(***************************************************************************)
EXTENDS Integers, Sequences, SequencesExt

CONSTANTS LUA_MAXCAPTURES,   (* limit on captures                            *)
          StringCalls        (* the calls that a program makes               *)
VARIABLE call                (* the call in progress                         *)

NULL == 0
NUL == "NUL"
L_ESC == "%"
At(s, i) == IF i \in DOMAIN s THEN s[i] ELSE NUL

(***************************************************************************)
(* Characters and classes.  The order is that of their codes.              *)
(***************************************************************************)
Chars == <<"NUL", " ", "$", "%", "(", ")", "*", "+", "-", ".", "1", "2", "?", "A", "B", "[", "]", "^", "a", "b", "c", "f">>
Code == [c \in Range(Chars) |-> CHOOSE i \in DOMAIN Chars : Chars[i] = c]
isalpha == {"A", "B", "a", "b", "c", "f"}
isdigit == {"1", "2"}
Classes == [a |-> isalpha, d |-> isdigit, l |-> {"a", "b", "c", "f"}, u |-> {"A", "B"}, s |-> {" "},
            w |-> isalpha \cup isdigit, z |-> {NUL}]
Complements == [A |-> "a", D |-> "d", L |-> "l", U |-> "u", S |-> "s", W |-> "w", Z |-> "z"]

match_class(c, cl) ==
  CASE cl \in DOMAIN Classes -> c \in Classes[cl]
    [] cl \in DOMAIN Complements -> c \notin Classes[Complements[cl]]
    [] OTHER -> c = cl

(* The end of the set whose next character is at j; NULL: it has none.      *)
RECURSIVE SetEnd(_, _)
AfterMember(p, j) == IF p[j] = L_ESC /\ At(p, j + 1) # NUL THEN j + 2 ELSE j + 1
SetEndFrom(p, j) == IF At(p, j) = "]" THEN j + 1 ELSE SetEnd(p, j)
SetEnd(p, j) == IF At(p, j) = NUL THEN NULL ELSE SetEndFrom(p, AfterMember(p, j))
classend(p, i) ==
  CASE p[i] = L_ESC -> IF At(p, i + 1) = NUL THEN NULL ELSE i + 2
    [] p[i] = "[" -> SetEnd(p, IF At(p, i + 1) = "^" THEN i + 2 ELSE i + 1)
    [] OTHER -> i + 1

RECURSIVE InSet(_, _, _, _)
InSet(c, p, j, ec) ==
  /\ j < ec
  /\ CASE p[j] = L_ESC -> match_class(c, p[j + 1]) \/ InSet(c, p, j + 2, ec)
       [] p[j] # L_ESC /\ p[j + 1] = "-" /\ j + 2 < ec ->
            (Code[p[j]] <= Code[c] /\ Code[c] <= Code[p[j + 2]]) \/ InSet(c, p, j + 3, ec)
       [] OTHER -> p[j] = c \/ InSet(c, p, j + 1, ec)
matchbracketclass(c, p, i, ec) ==
  IF p[i + 1] = "^" THEN ~ InSet(c, p, i + 2, ec) ELSE InSet(c, p, i + 1, ec)

singlematch(c, p, i, ep) ==
  CASE p[i] = "." -> TRUE
    [] p[i] = L_ESC -> match_class(c, p[i + 1])
    [] p[i] = "[" -> matchbracketclass(c, p, i, ep - 1)
    [] OTHER -> p[i] = c

(***************************************************************************)
(* The matcher.                                                            *)
(***************************************************************************)
MatchState(src, p) ==
  [src |-> src, p |-> p, level |-> 0, s |-> NULL, err |-> "",
   capture |-> [l \in 1 .. LUA_MAXCAPTURES |-> [init |-> 1, len |-> 0]]]
CAP_UNFINISHED == -1
CAP_POSITION == -2

Found(ms, s) == [ms EXCEPT !.s = s]
NoMatch(ms) == [ms EXCEPT !.s = NULL]
luaL_error(ms, what) == [ms EXCEPT !.s = NULL, !.err = what]
Ended(ms) == ms.s # NULL \/ ms.err # ""
MoreSubject(ms, s) == s <= Len(ms.src)

RECURSIVE match(_, _, _)

UndoStart(ms) == IF Ended(ms) THEN ms ELSE [ms EXCEPT !.level = @ - 1]
start_capture(ms, s, p, what) ==
  IF ms.level >= LUA_MAXCAPTURES THEN luaL_error(ms, "too many captures")
  ELSE UndoStart(match([ms EXCEPT !.capture[ms.level + 1] = [init |-> s, len |-> what], !.level = @ + 1], s, p))

Unfinished(ms) == {l \in 1 .. ms.level : ms.capture[l].len = CAP_UNFINISHED}
capture_to_close(ms) == CHOOSE l \in Unfinished(ms) : \A k \in Unfinished(ms) : k <= l
(* Mutant: a capture stays closed when what follows does not match.         *)
StaysClosed(ms, l) == ms
UndoClose(ms, l) == IF Ended(ms) THEN ms ELSE [ms EXCEPT !.capture[l].len = CAP_UNFINISHED]
CloseCapture(ms, s, p, l) == UndoClose(match([ms EXCEPT !.capture[l].len = s - ms.capture[l].init], s, p), l)
end_capture(ms, s, p) ==
  IF Unfinished(ms) = {} THEN luaL_error(ms, "invalid pattern capture")
  ELSE CloseCapture(ms, s, p, capture_to_close(ms))

(* The length of a position capture is more than any string's.             *)
SameText(ms, s, c) ==
  /\ c.len >= 0 /\ Len(ms.src) - s + 1 >= c.len
  /\ SubSeq(ms.src, c.init, c.init + c.len - 1) = SubSeq(ms.src, s, s + c.len - 1)
match_capture(ms, s, p, l) ==
  CASE l \notin 1 .. ms.level \/ l \in Unfinished(ms) -> luaL_error(ms, "invalid capture index")
    [] l \in 1 .. ms.level \ Unfinished(ms) ->
         IF SameText(ms, s, ms.capture[l]) THEN match(ms, s + ms.capture[l].len, p) ELSE NoMatch(ms)

RECURSIVE Balance(_, _, _, _, _)
Balance(src, s, b, e, cont) ==
  CASE s > Len(src) -> NULL
    [] s <= Len(src) /\ src[s] = e -> IF cont = 1 THEN s + 1 ELSE Balance(src, s + 1, b, e, cont - 1)
    [] OTHER -> Balance(src, s + 1, b, e, IF src[s] = b THEN cont + 1 ELSE cont)
Continue(ms, s, p) == IF s = NULL THEN NoMatch(ms) ELSE match(ms, s, p)
matchbalance(ms, s, p) ==
  CASE NUL \in {At(ms.p, p), At(ms.p, p + 1)} -> luaL_error(ms, "unbalanced pattern")
    [] At(ms.src, s) # At(ms.p, p) -> NoMatch(ms)
    [] OTHER -> Continue(ms, Balance(ms.src, s + 1, ms.p[p], ms.p[p + 1], 1), p + 2)

Frontier(ms, s, p, ep) ==
  CASE ep = NULL -> luaL_error(ms, "malformed pattern")
    [] ep # NULL /\ ~ matchbracketclass(At(ms.src, s - 1), ms.p, p, ep - 1) /\ matchbracketclass(At(ms.src, s), ms.p, p, ep - 1) ->
         match(ms, s, ep)
    [] OTHER -> NoMatch(ms)

RECURSIVE Repetitions(_, _, _, _)
Repetitions(ms, s, p, ep) ==
  IF MoreSubject(ms, s) /\ singlematch(ms.src[s], ms.p, p, ep) THEN 1 + Repetitions(ms, s + 1, p, ep) ELSE 0
RECURSIVE Reduce(_, _, _, _)
Reduced(ms, s, i, p) == IF Ended(ms) \/ i = 0 THEN ms ELSE Reduce(ms, s, i - 1, p)
Reduce(ms, s, i, p) == Reduced(match(ms, s + i, p), s, i, p)
max_expand(ms, s, p, ep) == Reduce(ms, s, Repetitions(ms, s, p, ep), ep + 1)

RECURSIVE min_expand(_, _, _, _)
Expanded(ms, s, p, ep) ==
  IF ~ Ended(ms) /\ MoreSubject(ms, s) /\ singlematch(ms.src[s], ms.p, p, ep) THEN min_expand(ms, s + 1, p, ep) ELSE ms
min_expand(ms, s, p, ep) == Expanded(match(ms, s, ep + 1), s, p, ep)

OrWithout(ms, s, p) == IF Ended(ms) THEN ms ELSE match(ms, s, p)
(* m: the item at p, which ends before ep, matches the character at s.      *)
Item(ms, s, p, ep, m) ==
  CASE At(ms.p, ep) = "?" -> OrWithout(IF m THEN match(ms, s + 1, ep + 1) ELSE NoMatch(ms), s, ep + 1)
    [] At(ms.p, ep) = "*" -> max_expand(ms, s, p, ep)
    [] At(ms.p, ep) = "+" -> IF m THEN max_expand(ms, s + 1, p, ep) ELSE NoMatch(ms)
    [] At(ms.p, ep) = "-" -> min_expand(ms, s, p, ep)
    [] OTHER -> IF m THEN match(ms, s + 1, ep) ELSE NoMatch(ms)
ItemTo(ms, s, p, ep) ==
  IF ep = NULL THEN luaL_error(ms, "malformed pattern")
  ELSE Item(ms, s, p, ep, MoreSubject(ms, s) /\ singlematch(ms.src[s], ms.p, p, ep))

Digits == [d \in {"0"} \cup isdigit |-> CASE d = "0" -> 0 [] d = "1" -> 1 [] d = "2" -> 2]
MatchAt(ms, s, p, c, d) ==   \* c and d are the next characters of the pattern
  CASE c = "(" -> IF d = ")" THEN start_capture(ms, s, p + 2, CAP_POSITION) ELSE start_capture(ms, s, p + 1, CAP_UNFINISHED)
    [] c = ")" -> end_capture(ms, s, p + 1)
    [] c = L_ESC /\ d = "b" -> matchbalance(ms, s, p + 2)
    [] c = L_ESC /\ d = "f" ->
         IF At(ms.p, p + 2) # "[" THEN luaL_error(ms, "missing [") ELSE Frontier(ms, s, p + 2, classend(ms.p, p + 2))
    [] c = L_ESC /\ d \in DOMAIN Digits -> match_capture(ms, s, p + 2, Digits[d])
    [] c = NUL -> Found(ms, s)
    [] c = "$" /\ d = NUL -> IF MoreSubject(ms, s) THEN NoMatch(ms) ELSE Found(ms, s)
    [] OTHER -> ItemTo(ms, s, p, classend(ms.p, p))
match(ms, s, p) == MatchAt(ms, s, p, At(ms.p, p), At(ms.p, p + 1))

(***************************************************************************)
(* The values of the captures of a match from s to e.                      *)
(***************************************************************************)
push_onecapture(ms, i, s, e) ==
  CASE i > ms.level -> IF i = 1 THEN <<"string", SubSeq(ms.src, s, e - 1)>> ELSE <<"error", "invalid capture index">>
    [] i <= ms.level /\ ms.capture[i].len = CAP_UNFINISHED -> <<"error", "unfinished capture">>
    [] i <= ms.level /\ ms.capture[i].len = CAP_POSITION -> <<"position", ms.capture[i].init>>
    [] OTHER -> <<"string", SubSeq(ms.src, ms.capture[i].init, ms.capture[i].init + ms.capture[i].len - 1)>>
(* Of string.find, whole is FALSE: it has told where the match is.         *)
push_captures(ms, s, e, whole) ==
  [i \in 1 .. (IF ms.level = 0 /\ whole THEN 1 ELSE ms.level) |-> push_onecapture(ms, i, s, e)]
ErrorsOf(values) == {i \in DOMAIN values : values[i][1] = "error"}
Return(values) ==
  IF ErrorsOf(values) = {} THEN <<"values", values>>
  ELSE <<"error", values[CHOOSE i \in ErrorsOf(values) : \A k \in ErrorsOf(values) : i <= k][2]>>

(***************************************************************************)
(* string.find and string.match: one step for each place that is tried.     *)
(***************************************************************************)
Done(c, result) == [c EXCEPT !.status = "done", !.result = result]
Fail(c, what) == [c EXCEPT !.status = "done", !.result = <<"error", what>>]
posrelat(pos, len) == IF pos < 0 THEN (IF pos + len + 1 >= 0 THEN pos + len + 1 ELSE 0) ELSE pos
SPECIALS == {"^", "$", "*", "+", "?", ".", "(", "[", "%", "-"}
Anchored(p) == p # <<>> /\ p[1] = "^"

(* s1 begins at i.                                                        *)
RECURSIVE lmemfind(_, _, _)
lmemfind(s, i, s2) ==
  CASE s2 = <<>> -> i
    [] Len(s2) > Len(s) - i + 1 -> NULL
    [] OTHER -> IF SubSeq(s, i, i + Len(s2) - 1) = s2 THEN i ELSE lmemfind(s, i + 1, s2)

InitAt(init, len) == IF init < 0 THEN 0 ELSE IF init > len THEN len ELSE init
Begin(fn, src, pattern, init, repl, max_s) ==
  [fn |-> fn, src |-> src, pattern |-> pattern, p |-> pattern.text, plain |-> pattern.plain, init |-> init, repl |-> repl, max_s |-> max_s,
   status |-> "run", result |-> <<>>, n |-> 0, out |-> <<>>, got |-> <<>>,
   pos |-> IF fn \in {"find", "match"} THEN InitAt(posrelat(init, Len(src)) - 1, Len(src)) + 1 ELSE 1,
   start |-> IF fn # "gmatch" /\ Anchored(pattern.text) THEN 2 ELSE 1]

Running(fns) == call.fn \in fns /\ call.status = "run"
Plain == call.fn = "find" /\ (call.plain \/ Range(call.p) \cap SPECIALS = {})
FindPlain ==
  /\ Running({"find"}) /\ Plain
  /\ LET s2 == lmemfind(call.src, call.pos, call.p)
     IN  call' = Done(call, IF s2 = NULL THEN <<"nil">> ELSE <<"at", s2, s2 + Len(call.p) - 1, <<>>>>)

Located(values, from, to) == IF values[1] = "error" THEN values ELSE <<"at", from, to, values[2]>>
AfterFind(ms) ==
  CASE ms.err # "" -> Fail(call, ms.err)
    [] ms.s # NULL -> Done(call, Located(Return(push_captures(ms, call.pos, ms.s, call.fn = "match")), call.pos, ms.s - 1))
    [] ms.err = "" /\ ms.s = NULL /\ call.pos <= Len(call.src) /\ call.start = 1 -> [call EXCEPT !.pos = @ + 1]
    [] OTHER -> Done(call, <<"nil">>)
Matched == match(MatchState(call.src, call.p), call.pos, call.start)
str_find_aux == Running({"find", "match"}) /\ ~ Plain /\ call' = AfterFind(Matched)

(***************************************************************************)
(* string.gmatch: the iterator keeps where to go on in pos.                *)
(***************************************************************************)
Collected(ms, values) ==
  IF values[1] = "error" THEN Done(call, values)
  ELSE [call EXCEPT !.got = Append(@, <<call.pos, ms.s - 1, values[2]>>), !.pos = IF ms.s = call.pos THEN ms.s + 1 ELSE ms.s]
AfterGmatch(ms) ==
  CASE ms.err # "" -> Fail(call, ms.err)
    [] ms.s # NULL -> Collected(ms, Return(push_captures(ms, call.pos, ms.s, TRUE)))
    [] OTHER -> [call EXCEPT !.pos = @ + 1]
gmatch_aux ==
  /\ Running({"gmatch"})
  /\ call' = IF call.pos > Len(call.src) + 1 THEN Done(call, <<"nil">>) ELSE AfterGmatch(Matched)

(***************************************************************************)
(* string.gsub: out is the buffer of the result, value what the function or *)
(* the table gives for a match.                                            *)
(***************************************************************************)
Text(value) == IF value[1] = "position" THEN <<ToString(value[2])>> ELSE value[2]
Joined(text, value) ==
  CASE text[1] = "error" -> text
    [] text[1] # "error" /\ value[1] = "error" -> value
    [] OTHER -> <<"string", text[2] \o Text(value)>>
RECURSIVE add_s(_, _, _, _, _)
Escaped(ms, c, s, e) ==   \* what % and c stand for
  CASE c \in isdigit -> push_onecapture(ms, Digits[c], s, e)
    [] c = "0" -> <<"string", SubSeq(ms.src, s, e - 1)>>
    [] OTHER -> <<"string", <<c>>>>
add_s(ms, i, s, e, text) ==
  CASE i > Len(call.repl[2]) -> text
    [] i <= Len(call.repl[2]) /\ call.repl[2][i] = L_ESC -> add_s(ms, i + 2, s, e, Joined(text, Escaped(ms, At(call.repl[2], i + 1), s, e)))
    [] OTHER -> add_s(ms, i + 1, s, e, Joined(text, <<"string", <<call.repl[2][i]>>>>))

Kept(value, s, e) ==
  CASE value[1] \in {"nil", "false"} -> <<"string", SubSeq(call.src, s, e - 1)>>
    [] value[1] \in {"string", "position", "error"} -> value
    [] value[1] = "table" -> <<"error", "invalid replacement value">>
Lookup(t, key) == CASE key[1] = "error" -> key [] key[1] # "error" /\ key \in DOMAIN t -> t[key] [] OTHER -> <<"nil">>
Answer(args, value) == IF args[1] = "error" THEN args ELSE value
add_value(ms, s, e, value) ==
  CASE call.repl[1] = "string" -> add_s(ms, 1, s, e, <<"string", <<>>>>)
    [] call.repl[1] = "table" -> Kept(Lookup(call.repl[2], push_onecapture(ms, 1, s, e)), s, e)
    [] call.repl[1] = "function" -> Kept(Answer(Return(push_captures(ms, s, e, TRUE)), value), s, e)

Finish(c) == Done(c, <<"gsub", c.out \o SubSeq(c.src, c.pos, Len(c.src)), c.n>>)
Replaced(text, e, value) ==
  LET c == [call EXCEPT !.n = @ + 1, !.got = Append(@, <<call.pos, e - 1, value>>)]
  IN  IF text[1] = "error" THEN Fail(c, text[2]) ELSE [c EXCEPT !.out = @ \o text[2]]
OneOnly(c) == IF c.start = 2 THEN Finish(c) ELSE c
Advance(c, e) ==
  CASE c.status = "done" -> c
    [] c.status # "done" /\ e > c.pos -> OneOnly([c EXCEPT !.pos = e])
    [] c.status # "done" /\ e <= c.pos /\ c.pos <= Len(c.src) -> OneOnly([c EXCEPT !.out = Append(@, c.src[c.pos]), !.pos = @ + 1])
    [] OTHER -> Finish(c)
AfterGsub(ms, value) ==
  CASE ms.err # "" -> Fail(call, ms.err)
    [] ms.err = "" /\ ms.s = NULL -> Advance(call, NULL)
    [] OTHER -> Advance(Replaced(add_value(ms, call.pos, ms.s, value), ms.s, value), ms.s)
Answers == IF call.repl[1] = "function" THEN {<<"nil">>, <<"string", <<"f">>>>, <<"table">>} ELSE {<<"nil">>}
str_gsub == Running({"gsub"}) /\ call.n < call.max_s /\ \E value \in Answers : call' = AfterGsub(Matched, value)
GsubLimit == Running({"gsub"}) /\ call.n >= call.max_s /\ call' = Finish(call)

Init ==
  \E c \in StringCalls : \E src \in c.subjects, pattern \in c.patterns, init \in c.inits, repl \in c.repls, max_s \in c.limits :
    call = Begin(c.fn, src, pattern, init, repl, max_s)
Next == FindPlain \/ str_find_aux \/ gmatch_aux \/ str_gsub \/ GsubLimit
=============================================================================
