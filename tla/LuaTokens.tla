------------------------------ MODULE LuaTokens ------------------------------
(***************************************************************************)
(* The lexical conventions of doc/manual.html 2.1, for a text that is there *)
(* as a whole: where each token begins and ends, its value and its line.    *)
(***************************************************************************)
EXTENDS LuaLexer, FiniteSetsExt

Alnum == Letter \cup Digit
At(s, i) == IF i \in DOMAIN s THEN s[i] ELSE EOZ
(* Line breaks of s, where a pair of different characters is one.           *)
RECURSIVE Breaks(_)
PairAt(s, i) == At(s, i) \in Newlines /\ At(s, i + 1) \in Newlines \ {At(s, i)}
Breaks(s) ==
  CASE s = <<>> -> 0
    [] s # <<>> /\ s[1] \notin Newlines -> Breaks(Tail(s))
    [] OTHER -> 1 + Breaks(SubSeq(s, IF PairAt(s, 1) THEN 3 ELSE 2, Len(s)))
RECURSIVE WithNewlines(_)
WithNewlines(s) ==
  CASE s = <<>> -> <<>>
    [] s # <<>> /\ s[1] \notin Newlines -> <<s[1]>> \o WithNewlines(Tail(s))
    [] OTHER -> <<"\n">> \o WithNewlines(SubSeq(s, IF PairAt(s, 1) THEN 3 ELSE 2, Len(s)))

Error == <<"error">>
(* The level of the long bracket at i, -1 if there is none.                 *)
Level(s, i, c) ==
  LET k == Max({m \in 0 .. Len(s) : \A j \in i + 1 .. i + m : At(s, j) = "="})
  IN  IF At(s, i) = c /\ At(s, i + k + 1) = c THEN k ELSE -1
(* A long bracket that opens at i: its text and its end.                    *)
LongAt(s, i) ==
  LET level == Level(s, i, "[")
      first == i + level + 2
      from == IF At(s, first) \notin Newlines THEN first ELSE IF PairAt(s, first) THEN first + 2 ELSE first + 1
      closes == {j \in from .. Len(s) : Level(s, j, "]") = level}
  IN  CASE closes = {} -> Error
        [] closes # {} /\ level = 0 /\ \E j \in from .. Min(closes) : Level(s, j, "[") = 0 -> Error
        [] OTHER -> <<"string", WithNewlines(SubSeq(s, from, Min(closes) - 1)), Min(closes) + level + 2>>
(* The rest of a short string, from i on.                                  *)
DigitsAt(s, i) == Max({k \in 0 .. 3 : \A j \in i .. i + k - 1 : At(s, j) \in Digit})
DecimalAt(s, i) == FoldLeft(LAMBDA v, c : 10 * v + DigitValue[c], 0, SubSeq(s, i, i + DigitsAt(s, i) - 1))
RECURSIVE ShortAt(_, _, _, _)
ShortAt(s, i, del, text) ==
  CASE At(s, i) = del -> <<"string", text, i + 1>>
    [] At(s, i) \in Newlines \cup {EOZ} -> Error
    [] At(s, i) = "\\" /\ At(s, i + 1) \in Newlines -> ShortAt(s, IF PairAt(s, i + 1) THEN i + 3 ELSE i + 2, del, Append(text, "\n"))
    [] At(s, i) = "\\" /\ At(s, i + 1) \in Digit ->
         IF DecimalAt(s, i + 1) < 256 THEN ShortAt(s, i + 1 + DigitsAt(s, i + 1), del, Append(text, Coded(DecimalAt(s, i + 1)))) ELSE Error
    [] At(s, i) = "\\" /\ At(s, i + 1) = EOZ -> Error
    [] At(s, i) = "\\" /\ At(s, i + 1) = "a" -> ShortAt(s, i + 2, del, Append(text, Bell))
    [] At(s, i) = "\\" /\ At(s, i + 1) \notin Newlines \cup Digit \cup {EOZ, "a"} -> ShortAt(s, i + 2, del, Append(text, s[i + 1]))
    [] OTHER -> ShortAt(s, i + 1, del, Append(text, s[i]))

(* The first token at or after i.                                          *)
RECURSIVE TokenFrom(_, _)
EndOfLine(s, i) == Min({j \in i .. Len(s) + 1 : At(s, j) \in Newlines \cup {EOZ}})
CommentAt(s, i) ==
  IF Level(s, i + 2, "[") >= 0
  THEN LET long == LongAt(s, i + 2) IN IF long = Error THEN Error ELSE TokenFrom(s, long[3])
  ELSE TokenFrom(s, EndOfLine(s, i))
(* A numeral takes all it might consist of, and may be wrong then.          *)
InNumeral(s, i, j) == s[j] \in Alnum \cup {"."} \/ (s[j] \in {"+", "-"} /\ s[j - 1] = "e" /\ \A k \in i .. j - 2 : s[k] \in Digit \cup {"."})
NumeralShape(s, i, e) ==
  /\ \A j \in i .. e : InNumeral(s, i, j)
  /\ \A j \in i .. e : s[j] = "." => \A k \in i .. j : s[k] \in Digit \cup {"."}
NumeralAt(s, i) ==
  LET e == Max({k \in i .. Len(s) : NumeralShape(s, i, k)})
  IN  IF luaO_str2d(SubSeq(s, i, e)) THEN <<"number", SubSeq(s, i, e), e + 1>> ELSE Error
WordAt(s, i) ==
  LET e == Max({k \in i .. Len(s) : \A j \in i .. k : s[j] \in Alnum})
      w == SubSeq(s, i, e)
  IN  <<IF w \in ReservedWords THEN "reserved" ELSE "name", w, e + 1>>
Fixed == {<<".", ".", ".">>, <<".", ".">>, <<"=", "=">>, <<"<", "=">>, <<">", "=">>, <<"~", "=">>}
Longest(s, i) == {f \in Fixed : IsPrefix(f, SubSeq(s, i, Len(s))) /\ \A g \in Fixed : IsPrefix(g, SubSeq(s, i, Len(s))) => Len(g) <= Len(f)}
Joined(f) == CASE f = <<".", ".", ".">> -> "..." [] f = <<".", ".">> -> ".." [] OTHER -> f[1] \o f[2]
TokenFrom(s, i) ==
  CASE i > Len(s) -> <<"eos", <<>>, i>>
    [] At(s, i) \in Newlines \cup {" "} -> TokenFrom(s, i + 1)
    [] At(s, i) = "-" /\ At(s, i + 1) = "-" -> CommentAt(s, i)
    [] At(s, i) = "[" /\ Level(s, i, "[") >= 0 -> LongAt(s, i)
    [] At(s, i) = "[" /\ Level(s, i, "[") < 0 /\ At(s, i + 1) = "=" -> Error
    [] At(s, i) \in {"\"", "'"} -> ShortAt(s, i + 1, s[i], <<>>)
    [] At(s, i) \in Digit \/ (At(s, i) = "." /\ At(s, i + 1) \in Digit) -> NumeralAt(s, i)
    [] At(s, i) \in Letter -> WordAt(s, i)
    [] i <= Len(s) /\ Longest(s, i) # {} -> (LET f == CHOOSE g \in Longest(s, i) : TRUE IN <<Joined(f), <<>>, i + Len(f)>>)
    [] OTHER -> <<s[i], <<>>, i + 1>>

(* All tokens, up to the end or to an error.                               *)
RECURSIVE TokensFrom(_, _)
Valued == {"number", "name", "reserved", "string"}
AndMore(s, t) ==
  CASE t = Error -> <<Error>>
    [] t # Error /\ t[1] = "eos" -> <<<<"eos", 1 + Breaks(s)>>>>
    [] OTHER -> <<<<t[1], 1 + Breaks(SubSeq(s, 1, t[3] - 1))>> \o (IF t[1] \in Valued THEN <<t[2]>> ELSE <<>>)>> \o TokensFrom(s, t[3])
TokensFrom(s, i) == AndMore(s, TokenFrom(s, i))

Asked == IF call.lookahead = <<"none">> THEN call.tokens ELSE Append(call.tokens, call.lookahead)
(* The tokens, their values and their lines are those of the text, however  *)
(* it comes in blocks and whenever the parser looks ahead; a loader gets    *)
(* the bytes in order, and learns how many are missing.                    *)
TokensRight ==
  CASE call.fn = "lexer" ->
         IsPrefix(IF call.err THEN Append(Asked, Error) ELSE Asked, TokensFrom(call.given, 1))
    [] call.fn = "loader" ->
         /\ IsPrefix(call.got, call.given)
         /\ call.missing > 0 => call.got = call.given
=============================================================================
