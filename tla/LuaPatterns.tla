----------------------------- MODULE LuaPatterns -----------------------------
(***************************************************************************)
(* What the patterns of string.find and its kin mean: doc/manual.html 5.4.1. *)
(* A pattern is a sequence of items, each with its text and, where it has   *)
(* one, its set of characters; all the ways in which it matches are listed, *)
(* the preferred one first, with no state that has to be restored.         *)
(***************************************************************************)
EXTENDS LuaStrlib, FiniteSetsExt

(* The sets of characters that items name.                                 *)
All == Range(Chars)
SetNamed ==
  [a |-> {"a"}, all |-> All, letters |-> isalpha, others |-> All \ isalpha, not_a |-> All \ {"a"}, ab |-> {"a", "b"},
   bracket_a |-> {"]", "a"}, a_minus |-> {"a", "-"}, letters_minus |-> isalpha \cup {"-"}, not_hat |-> All \ {"^"},
   dot |-> {"."}, minus |-> {"-"}]
(* Items <<kind, text, set>>, and the text of a pattern.                    *)
Single(text, set) == <<"one", text, set>>
Repeated(item, suffix) == <<suffix, Append(item[2], suffix), item[3]>>
PatternText(anchored, items) == (IF anchored THEN <<"^">> ELSE <<>>) \o FlattenSeq([i \in DOMAIN items |-> items[i][2]])

Times(src, s, set) == Max({n \in 0 .. Len(src) - s + 1 : \A i \in s .. s + n - 1 : src[i] \in SetNamed[set]})
Opened(caps) == {l \in DOMAIN caps : caps[l][2] = "open"}
(* The shortest balanced text at s, as its end.                            *)
Occurrences(src, s, e, c) == Cardinality({i \in s .. e : src[i] = c})
Balanced(src, s, x, y) ==
  {e \in s + 1 .. Len(src) : src[s] = x /\ src[e] = y /\ Occurrences(src, s + 1, e, y) = Occurrences(src, s, e - 1, x)}

RECURSIVE Ways(_, _, _, _, _)
(* Ways that go on after n characters, for each n of the sequence ns.       *)
WaysAfter(src, items, k, s, caps, ns) == FlattenSeq([j \in DOMAIN ns |-> Ways(src, items, k + 1, s + ns[j], caps)])
Descending(n) == [j \in 1 .. n |-> n + 1 - j]
WaysOf(src, items, k, s, caps, kind, set, n) ==
  CASE kind = "one" -> WaysAfter(src, items, k, s, caps, IF n > 0 THEN <<1>> ELSE <<>>)
    [] kind = "?" -> WaysAfter(src, items, k, s, caps, IF n > 0 THEN <<1, 0>> ELSE <<0>>)
    [] kind = "*" -> WaysAfter(src, items, k, s, caps, Append(Descending(n), 0))
    [] kind = "+" -> WaysAfter(src, items, k, s, caps, Descending(n))
    [] kind = "-" -> WaysAfter(src, items, k, s, caps, [j \in 1 .. n + 1 |-> j - 1])
    [] kind \in {"(", "()"} /\ Len(caps) = LUA_MAXCAPTURES -> <<<<"error">>>>
    [] kind = "(" /\ Len(caps) < LUA_MAXCAPTURES -> Ways(src, items, k + 1, s, Append(caps, <<s, "open", 0>>))
    [] kind = "()" /\ Len(caps) < LUA_MAXCAPTURES -> Ways(src, items, k + 1, s, Append(caps, <<s, "position", 0>>))
    [] kind = ")" ->
         IF Opened(caps) = {} THEN <<<<"error">>>>
         ELSE Ways(src, items, k + 1, s, [caps EXCEPT ![Max(Opened(caps))] = <<@[1], "text", s - @[1]>>])
    [] kind = "back" ->
         (CASE set \notin DOMAIN caps \/ set \in Opened(caps) -> <<<<"error">>>>
            [] set \in DOMAIN caps \ Opened(caps) /\ caps[set][2] # "position" ->
                 (LET text == SubSeq(src, caps[set][1], caps[set][1] + caps[set][3] - 1)
                  IN  IF IsPrefix(text, SubSeq(src, s, Len(src))) THEN Ways(src, items, k + 1, s + Len(text), caps) ELSE <<>>)
            [] OTHER -> <<>>)
    [] kind = "balance" ->
         IF s > Len(src) \/ Balanced(src, s, set[1], set[2]) = {} THEN <<>>
         ELSE Ways(src, items, k + 1, Min(Balanced(src, s, set[1], set[2])) + 1, caps)
    [] kind = "frontier" -> IF At(src, s - 1) \notin SetNamed[set] /\ At(src, s) \in SetNamed[set] THEN Ways(src, items, k + 1, s, caps) ELSE <<>>
    [] kind = "$" -> IF s > Len(src) THEN Ways(src, items, k + 1, s, caps) ELSE <<>>
Ways(src, items, k, s, caps) ==
  IF k > Len(items) THEN <<<<s, caps>>>>
  ELSE WaysOf(src, items, k, s, caps, items[k][1], items[k][3], IF items[k][1] \in {"one", "?", "*", "+", "-"} THEN Times(src, s, items[k][3]) ELSE 0)

WaysAt(src, pattern, s) == Ways(src, pattern.items, 1, s, <<>>)
CaptureOf(src, c) ==
  CASE c[2] = "open" -> <<"error">>
    [] c[2] = "position" -> <<"position", c[1]>>
    [] OTHER -> <<"string", SubSeq(src, c[1], c[1] + c[3] - 1)>>
(* Where a search from s finds the pattern.                                *)
Places(c, s) ==
  {i \in s .. Len(c.src) + 1 : (c.pattern.anchored => i = s) /\ WaysAt(c.src, c.pattern, i) # <<>>}
WholeIfNone(captures, src, i, e) == IF captures = <<>> THEN <<<<"string", SubSeq(src, i, e)>>>> ELSE captures
Match(c, i, way) ==
  LET captures == [l \in DOMAIN way[2] |-> CaptureOf(c.src, way[2][l])]
  IN  <<"at", i, way[1] - 1, IF c.fn = "find" THEN captures ELSE WholeIfNone(captures, c.src, i, way[1] - 1)>>
MatchFrom(c, s) ==
  IF Places(c, s) = {} THEN <<"nil">>
  ELSE LET i == Min(Places(c, s))
           way == WaysAt(c.src, c.pattern, i)[1]
       IN  IF way = <<"error">> THEN way ELSE Match(c, i, way)
(* All its captures are wanted.                                            *)
FoundBy(c, s) ==
  LET m == MatchFrom(c, s) IN IF m[1] = "at" /\ <<"error">> \in Range(m[4]) THEN <<"error">> ELSE m
Agrees(result, reference) == IF reference = <<"error">> THEN result[1] = "error" ELSE result = reference

(* The first place from which a search may start, counted from the end if   *)
(* init is negative.                                                       *)
FirstPlace(init, len) == Min({len + 1, Max({1, IF init < 0 THEN len + init + 1 ELSE init})})
PlainPlaces(c, s) == {i \in s .. Len(c.src) - Len(c.p) + 1 : SubSeq(c.src, i, i + Len(c.p) - 1) = c.p}
FindRight(c) ==
  LET s == FirstPlace(c.init, Len(c.src))
  IN  IF Plain
      THEN c.result = IF PlainPlaces(c, s) = {} THEN <<"nil">>
                      ELSE <<"at", Min(PlainPlaces(c, s)), Min(PlainPlaces(c, s)) + Len(c.p) - 1, <<>>>>
      ELSE Agrees(c.result, FoundBy(c, s))

(* The k-th match begins at the first place after the one before it, and one *)
(* character later if that was empty.                                      *)
After(got, k) == IF k = 0 THEN 1 ELSE IF got[k][2] < got[k][1] THEN got[k][1] + 1 ELSE got[k][2] + 1
GmatchRight(c) ==
  /\ \A k \in DOMAIN c.got : <<"at">> \o c.got[k] = FoundBy(c, After(c.got, k - 1))
  /\ c.status = "done" => Agrees(c.result, FoundBy(c, After(c.got, Len(c.got))))

(* The parts of a replacement string: texts, and numbers of captures.      *)
PartText(part, c, m) ==
  CASE part[1] = "text" -> part
    [] part[1] = "capture" /\ part[2] = 0 -> <<"text", SubSeq(c.src, m[2], m[3])>>
    [] part[1] = "capture" /\ part[2] \in DOMAIN m[4] /\ m[4][part[2]] # <<"error">> -> <<"text", Text(m[4][part[2]])>>
    [] OTHER -> <<"error">>
ReplacedBy(c, m, value) ==   \* the text for match m, or an error
  LET parts == [j \in DOMAIN c.repl[3] |-> PartText(c.repl[3][j], c, m)]
      given == IF c.repl[1] = "function" THEN value
               ELSE IF m[4][1] \in DOMAIN c.repl[2] THEN c.repl[2][m[4][1]] ELSE <<"nil">>
      needed == IF c.repl[1] = "function" THEN Range(m[4]) ELSE {m[4][1]}
  IN  CASE c.repl[1] = "string" ->
             IF <<"error">> \in Range(parts) THEN <<"error">> ELSE <<"text", FlattenSeq([j \in DOMAIN parts |-> parts[j][2]])>>
        [] c.repl[1] # "string" /\ (<<"error">> \in needed \/ given[1] = "table") -> <<"error">>
        [] c.repl[1] # "string" /\ given[1] \in {"nil", "false"} -> <<"text", SubSeq(c.src, m[2], m[3])>>
        [] OTHER -> <<"text", given[2]>>
GsubMatch(c, k) == MatchFrom(c, After(c.got, k - 1))
GsubReplacement(c, k) == ReplacedBy(c, GsubMatch(c, k), c.got[k][3])
GsubText(c) ==
  LET n == Len(c.got)
      gap(k) == SubSeq(c.src, IF k = 1 THEN 1 ELSE c.got[k - 1][2] + 1, c.got[k][1] - 1)
  IN  FlattenSeq([k \in 1 .. n |-> gap(k) \o GsubReplacement(c, k)[2]])
        \o SubSeq(c.src, IF n = 0 THEN 1 ELSE c.got[n][2] + 1, Len(c.src))
GsubOver(c) ==
  \/ Len(c.got) = c.max_s
  \/ c.pattern.anchored /\ Len(c.got) = 1
  \/ GsubMatch(c, Len(c.got) + 1) = <<"nil">>
GsubRight(c) ==
  /\ Len(c.got) <= c.max_s
  /\ \A k \in DOMAIN c.got : SubSeq(GsubMatch(c, k), 1, 3) = <<"at", c.got[k][1], c.got[k][2]>>
  /\ c.status = "done" =>
       IF c.result[1] = "error"
       THEN \/ GsubMatch(c, Len(c.got) + 1) = <<"error">>
            \/ c.got # <<>> /\ GsubReplacement(c, Len(c.got)) = <<"error">>
       ELSE /\ GsubOver(c)
            /\ \A k \in DOMAIN c.got : GsubReplacement(c, k)[1] = "text"
            /\ c.result = <<"gsub", GsubText(c), Len(c.got)>>

(* What string.find, match, gmatch and gsub find, capture and replace is     *)
(* what the manual says of the pattern: the first place where it matches,   *)
(* and there the preferred way, whatever the matcher has tried before.      *)
MatchesRight ==
  CASE call.fn \in {"find", "match"} -> call.status = "done" => FindRight(call)
    [] call.fn = "gmatch" -> GmatchRight(call)
    [] call.fn = "gsub" -> GsubRight(call)
=============================================================================
