------------------------------ MODULE LuaLexer ------------------------------
(***************************************************************************)
(* The lexical analyser (llex.c) over a buffered stream (lzio.c).           *)
(*                                                                         *)
(* The stream hands out the bytes of the blocks that a reader gives, of any *)
(* size; its counter n is unsigned.  call is the LexState with its ZIO and  *)
(* its buffer.  A parser asks for the next token, or looks one further; a   *)
(* loader of precompiled chunks reads bytes.  Each request is a step.       *)
(* Characters are strings of one character; numerals have digits, a point   *)
(* and an exponent.                                                        *)
(***************************************************************************)
EXTENDS Integers, Sequences, SequencesExt

CONSTANTS Readers,           (* what readers give: sequences of blocks       *)
          ReservedWords,     (* the reserved words that can be spelt         *)
          MAX_SIZET          (* the largest size_t                           *)
VARIABLE call                (* the stream and the analyser                  *)

EOZ == "EOZ"
NUL == "NUL"
Garbage == "garbage"         (* a byte from outside the blocks               *)

(***************************************************************************)
(* The stream: p is the next byte of block.                                *)
(***************************************************************************)
luaZ_init(use, blocks) ==
  [fn |-> use, blocks |-> blocks, given |-> FlattenSeq(blocks), block |-> <<>>, n |-> 0, p |-> 1, current |-> EOZ, got |-> <<>>, missing |-> 0,
   buff |-> <<>>, linenumber |-> 1, err |-> FALSE, t |-> <<"none">>, lookahead |-> <<"none">>, tokens |-> <<>>, end |-> FALSE]
(* The next block, with its first byte taken; no block and an empty one are *)
(* the end.                                                                *)
luaZ_fill(z) ==
  IF z.blocks = <<>> \/ z.blocks[1] = <<>> THEN [z EXCEPT !.current = EOZ]
  ELSE [z EXCEPT !.block = z.blocks[1], !.blocks = Tail(@), !.n = Len(z.blocks[1]) - 1, !.p = 2, !.current = z.blocks[1][1]]
Byte(z) == IF z.p \in DOMAIN z.block THEN z.block[z.p] ELSE Garbage
zgetc(z) ==
  IF z.n > 0 THEN [z EXCEPT !.n = @ - 1, !.p = @ + 1, !.current = Byte(z)] ELSE luaZ_fill([z EXCEPT !.n = MAX_SIZET])
(* Mutant: the byte that opened the block is not put back.                 *)
NotPutBack(z) == z
PutBack(z) == IF z.current = EOZ THEN z ELSE [z EXCEPT !.n = @ + 1, !.p = @ - 1]
luaZ_lookahead(z) == IF z.n = 0 THEN PutBack(luaZ_fill(z)) ELSE [z EXCEPT !.current = Byte(z)]
RECURSIVE luaZ_read(_, _)
Copied(z, m) == [z EXCEPT !.got = @ \o SubSeq(z.block, z.p, z.p + m - 1), !.n = @ - m, !.p = @ + m]
ReadFrom(z, n) ==
  IF z.current = EOZ THEN [z EXCEPT !.missing = n]
  ELSE luaZ_read(Copied(z, IF n <= z.n THEN n ELSE z.n), IF n <= z.n THEN 0 ELSE n - z.n)
luaZ_read(z, n) == IF n = 0 THEN z ELSE ReadFrom(luaZ_lookahead(z), n)

(***************************************************************************)
(* The analyser.                                                           *)
(***************************************************************************)
Newlines == {"\n", "\r"}
Digit == {"1", "2", "9"}
DigitValue == [c \in Digit |-> CASE c = "1" -> 1 [] c = "2" -> 2 [] c = "9" -> 9]
Letter == {"a", "d", "e", "o", "_"}
save(ls, c) == [ls EXCEPT !.buff = Append(@, c)]
save_and_next(ls) == zgetc(save(ls, ls.current))
luaX_lexerror(ls) == [ls EXCEPT !.err = TRUE]
RECURSIVE SaveWhile(_, _), SkipWhileNot(_, _)
SaveWhile(ls, set) == IF ls.current \in set THEN SaveWhile(save_and_next(ls), set) ELSE ls
SkipWhileNot(ls, set) == IF ls.current \in set THEN ls ELSE SkipWhileNot(zgetc(ls), set)
SecondOfPair(ls, old) == IF ls.current \in Newlines \ {old} THEN zgetc(ls) ELSE ls
inclinenumber(ls) == [SecondOfPair(zgetc(ls), ls.current) EXCEPT !.linenumber = @ + 1]
(* strchr also finds the NUL that ends the set.                            *)
check_next(ls, set) == IF ls.current \in set \cup {NUL} THEN save_and_next(ls) ELSE ls

Token(ls, kind) == [ls EXCEPT !.t = <<kind, ls.linenumber>>]
TokenWith(ls, kind, seminfo) == [ls EXCEPT !.t = <<kind, ls.linenumber, seminfo>>]

(* What luaO_str2d accepts, of the characters modelled.                     *)
Mantissa(s) == s # <<>> /\ Range(s) \subseteq Digit \cup {"."} /\ Range(s) \cap Digit # {} /\ \A i, j \in DOMAIN s : s[i] = "." /\ s[j] = "." => i = j
Exponent(s) == LET d == IF s # <<>> /\ s[1] \in {"+", "-"} THEN Tail(s) ELSE s IN d # <<>> /\ Range(d) \subseteq Digit
luaO_str2d(s) ==
  \/ Mantissa(s)
  \/ \E i \in DOMAIN s : s[i] = "e" /\ Mantissa(SubSeq(s, 1, i - 1)) /\ Exponent(SubSeq(s, i + 1, Len(s)))
Numeral(ls) == IF luaO_str2d(ls.buff) THEN TokenWith(ls, "number", ls.buff) ELSE luaX_lexerror(ls)
AfterDigits(ls) == IF ls.current \in {"e", NUL} THEN check_next(save_and_next(ls), {"+", "-"}) ELSE ls
read_numeral(ls) == Numeral(SaveWhile(AfterDigits(SaveWhile(save_and_next(ls), Digit \cup {"."})), Digit \cup Letter))

(* After skip_sep: the number of = between two s, or minus one minus their  *)
(* number; before is the length of the buffer before it.                   *)
skip_sep(ls) == SaveWhile(save_and_next(ls), {"="})
sep(ls, before, s) == LET count == Len(ls.buff) - before - 1 IN IF ls.current = s THEN count ELSE -count - 1

RECURSIVE LongString(_, _, _)
AfterOpen(ls, keep, level, again) ==   \* LUA_COMPAT_LSTR is 1
  CASE again # level -> LongString(ls, keep, level)
    [] again = level /\ level = 0 -> luaX_lexerror(save_and_next(ls))
    [] OTHER -> LongString(save_and_next(ls), keep, level)
AfterClose(ls, keep, level, again) == IF again = level THEN save_and_next(ls) ELSE LongString(ls, keep, level)
ClearUnless(keep, ls) == IF keep THEN ls ELSE [ls EXCEPT !.buff = <<>>]
LongString(ls, keep, level) ==
  CASE ls.current = EOZ -> luaX_lexerror(ls)
    [] ls.current = "[" -> AfterOpen(skip_sep(ls), keep, level, sep(skip_sep(ls), Len(ls.buff), "["))
    [] ls.current = "]" -> AfterClose(skip_sep(ls), keep, level, sep(skip_sep(ls), Len(ls.buff), "]"))
    [] ls.current \in Newlines -> LongString(ClearUnless(keep, inclinenumber(save(ls, "\n"))), keep, level)
    [] OTHER -> LongString(IF keep THEN save_and_next(ls) ELSE zgetc(ls), keep, level)
SkipNewline(ls) == IF ls.current \in Newlines THEN inclinenumber(ls) ELSE ls
read_long_string(ls, keep, level) == LongString(SkipNewline(save_and_next(ls)), keep, level)
LongToken(ls, level) ==
  IF ls.err THEN ls ELSE TokenWith(ls, "string", SubSeq(ls.buff, 3 + level, Len(ls.buff) - 2 - level))

(* Escapes: a is the letter that stands for a control character.            *)
UCHAR_MAX == 255
Bell == "\\7"
Coded(c) == "\\" \o ToString(c)     \* the character of code c
RECURSIVE read_string(_, _), DecimalEscape(_, _, _, _)
SaveCode(ls, del, c) == IF c > UCHAR_MAX THEN luaX_lexerror(ls) ELSE read_string(save(ls, Coded(c)), del)
DecimalEscape(ls, del, i, c) ==
  IF i < 3 /\ ls.current \in Digit THEN DecimalEscape(zgetc(ls), del, i + 1, 10 * c + DigitValue[ls.current]) ELSE SaveCode(ls, del, c)
Escape(ls, del) ==
  CASE ls.current = "a" -> read_string(zgetc(save(ls, Bell)), del)
    [] ls.current \in Digit -> DecimalEscape(ls, del, 0, 0)
    [] ls.current \in Newlines -> read_string(inclinenumber(save(ls, "\n")), del)
    [] ls.current = EOZ -> read_string(ls, del)
    [] OTHER -> read_string(save_and_next(ls), del)
read_string(ls, del) ==
  CASE ls.current = del -> save_and_next(ls)
    [] ls.current \in {EOZ} \cup Newlines -> luaX_lexerror(ls)
    [] ls.current = "\\" -> Escape(zgetc(ls), del)
    [] OTHER -> read_string(save_and_next(ls), del)
ShortToken(ls) == IF ls.err THEN ls ELSE TokenWith(ls, "string", SubSeq(ls.buff, 2, Len(ls.buff) - 1))

RECURSIVE llex(_)
AfterComment(ls) == IF ls.err THEN ls ELSE llex(ls)
LongOrShort(ls, level) ==
  IF level >= 0 THEN AfterComment(read_long_string([ls EXCEPT !.buff = <<>>], FALSE, level))
  ELSE llex(SkipWhileNot(ls, Newlines \cup {EOZ}))
Comment(ls) ==
  IF ls.current = "[" THEN LongOrShort(skip_sep(ls), sep(skip_sep(ls), Len(ls.buff), "[")) ELSE LongOrShort(ls, -1)
Minus(ls) == IF ls.current = "-" THEN Comment(zgetc(ls)) ELSE Token(ls, "-")
Bracket(ls, level) ==
  CASE level >= 0 -> LongToken(read_long_string(ls, TRUE, level), level)
    [] level = -1 -> Token(ls, "[")
    [] OTHER -> luaX_lexerror(ls)
OrEqual(ls, c) == IF ls.current = "=" THEN Token(zgetc(ls), c \o "=") ELSE Token(ls, c)
Dots(ls) ==
  CASE ls.current = "." -> (LET two == save_and_next(ls) IN IF two.current = "." THEN Token(save_and_next(two), "...") ELSE Token(two, ".."))
    [] ls.current \in Digit -> read_numeral(ls)
    [] OTHER -> Token(ls, ".")
Word(ls) == IF ls.buff \in ReservedWords THEN TokenWith(ls, "reserved", ls.buff) ELSE TokenWith(ls, "name", ls.buff)
LexAt(ls) ==
  CASE ls.current \in Newlines -> llex(inclinenumber(ls))
    [] ls.current = "-" -> Minus(zgetc(ls))
    [] ls.current = "[" -> Bracket(skip_sep(ls), sep(skip_sep(ls), 0, "["))
    [] ls.current \in {"=", "<", ">", "~"} -> OrEqual(zgetc(ls), ls.current)
    [] ls.current \in {"\"", "'"} -> ShortToken(read_string(save_and_next(ls), ls.current))
    [] ls.current = "." -> Dots(save_and_next(ls))
    [] ls.current = EOZ -> Token(ls, "eos")
    [] ls.current = " " -> llex(zgetc(ls))
    [] ls.current \in Digit -> read_numeral(ls)
    [] ls.current \in Letter -> Word(SaveWhile(ls, Letter \cup Digit))
    [] OTHER -> Token(zgetc(ls), ls.current)
llex(ls) == LexAt([ls EXCEPT !.buff = <<>>])

(***************************************************************************)
(* Requests of the parser, and of the loader of precompiled chunks.        *)
(***************************************************************************)
luaX_setinput(z) == zgetc(z)
Lexing == call.fn = "lexer" /\ ~ call.err /\ ~ call.end
Deliver(ls, t) == [ls EXCEPT !.tokens = Append(@, t), !.t = <<"none">>, !.lookahead = <<"none">>, !.end = t[1] = "eos", !.buff = <<>>]
luaX_next ==
  /\ Lexing
  /\ call' = IF call.lookahead # <<"none">> THEN Deliver(call, call.lookahead)
             ELSE LET ls == llex(call) IN IF ls.err THEN ls ELSE Deliver(ls, ls.t)
luaX_lookahead ==
  /\ Lexing /\ call.lookahead = <<"none">> /\ call.tokens # <<>>
  /\ call' = LET ls == llex(call) IN IF ls.err THEN ls ELSE [ls EXCEPT !.lookahead = ls.t, !.t = <<"none">>, !.buff = <<>>]
LoadBytes ==
  /\ call.fn = "loader" /\ call.missing = 0
  /\ \E n \in 1 .. 3 : call' = luaZ_read(call, n)

Init ==
  \E blocks \in Readers :
    call \in {luaX_setinput(luaZ_lookahead(luaZ_init("lexer", blocks))), luaZ_lookahead(luaZ_init("loader", blocks))}
Next == luaX_next \/ luaX_lookahead \/ LoadBytes
=============================================================================
