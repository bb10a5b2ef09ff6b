------------------------------ MODULE LuaSyntax ------------------------------
(***************************************************************************)
(* Programs as trees, and their text: the tokens of a program, with no more *)
(* parentheses than the manual asks for.  A specification, not a           *)
(* translation of code: it follows the grammar and the precedences of       *)
(* doc/manual.html (2.5.6 and 8).                                         *)
(*                                                                         *)
(*   expressions  <<"nil">> <<"true">> <<"false">> <<"...">>               *)
(*                <<"num", n>> <<"str", s>> <<"name", x>> <<"paren", e>>    *)
(*                <<"field", e, name>> <<"index", e, key>>                  *)
(*                <<"call", e, args>> <<"method", e, name, args>>           *)
(*                <<"un", op, e>> <<"bin", op, e1, e2>>                    *)
(*                <<"function", params, dots, block>>, where dots is "no",  *)
(*                "..." or "arg" (a vararg function without ... inside)     *)
(*                <<"table", items>>, with items <<"item", e>>,            *)
(*                <<"named", name, e>>, <<"keyed", key, e>>                *)
(*   statements   <<"local", names, es>> <<"assign", targets, es>>         *)
(*                <<"callstat", e>> <<"do", block>> <<"while", e, block>>  *)
(*                <<"repeat", block, e>> <<"if", <<<<e, block>>, ...>>, b>> *)
(*                <<"fornum", name, es, block>>                            *)
(*                <<"forin", names, es, block>> <<"return", es>>           *)
(*                <<"break">> <<"localfunction", name, f>>                 *)
(*                <<"functionstat", names, method, f>>                     *)
(***************************************************************************)
EXTENDS Integers, Sequences, FiniteSets, SequencesExt

T(token) == <<[token |-> token, seminfo |-> ""]>>
Name(x) == <<[token |-> "NAME", seminfo |-> x]>>

Precedence(op) ==
  CASE op = "or" -> 1
    [] op = "and" -> 2
    [] op \in {"<", ">", "<=", ">=", "~=", "=="} -> 3
    [] op = ".." -> 4
    [] op \in {"+", "-"} -> 5
    [] op \in {"*", "/", "%"} -> 6
    [] op = "^" -> 8
UnaryPrecedence == 7
RightAssociative == {"..", "^"}
Level(e) ==
  IF e[1] = "bin" THEN Precedence(e[2])
  ELSE IF e[1] = "un" THEN UnaryPrecedence
  ELSE 9
PrefixExp(e) == e[1] \in {"name", "field", "index", "call", "method", "paren"}

RECURSIVE Tokens(_, _)
ExpT(e) == Tokens("exp", e)
BlockT(b) == Tokens("block", b)
InParens(toks) == T("(") \o toks \o T(")")
AtLevel(e, level) == IF Level(e) < level THEN InParens(ExpT(e)) ELSE ExpT(e)
PrefixT(e) == IF PrefixExp(e) THEN ExpT(e) ELSE InParens(ExpT(e))

Separated(lists) == FoldLeft(LAMBDA all, l : IF all = <<>> THEN l ELSE all \o T(",") \o l, <<>>, lists)
NamesT(names) == Separated([j \in DOMAIN names |-> Name(names[j])])
ExpsT(es) == Separated([j \in DOMAIN es |-> ExpT(es[j])])

(* A unary operator may follow a binary one without parentheses.           *)
RightT(op, e) ==
  IF e[1] = "un" THEN ExpT(e) ELSE AtLevel(e, Precedence(op) + (IF op \in RightAssociative THEN 0 ELSE 1))
LeftT(op, e) == AtLevel(e, Precedence(op) + (IF op \in RightAssociative THEN 1 ELSE 0))

ParamsT(params, dots) ==
  T("(") \o Separated([j \in DOMAIN params |-> Name(params[j])] \o (IF dots = "no" THEN <<>> ELSE <<T("...")>>)) \o T(")")
FunctionBodyT(f) == ParamsT(f[2], f[3]) \o BlockT(f[4]) \o T("end")
ItemT(item) ==
  CASE item[1] = "item" -> ExpT(item[2])
    [] item[1] = "named" -> Name(item[2]) \o T("=") \o ExpT(item[3])
    [] item[1] = "keyed" -> T("[") \o ExpT(item[2]) \o T("]") \o T("=") \o ExpT(item[3])

ExpTokens(e) ==
  CASE e[1] \in {"nil", "true", "false", "..."} -> T(e[1])
    [] e[1] = "num" -> <<[token |-> "NUMBER", seminfo |-> e[2]]>>
    [] e[1] = "str" -> <<[token |-> "STRING", seminfo |-> e[2]]>>
    [] e[1] = "name" -> Name(e[2])
    [] e[1] = "paren" -> InParens(ExpT(e[2]))
    [] e[1] = "field" -> PrefixT(e[2]) \o T(".") \o Name(e[3])
    [] e[1] = "index" -> PrefixT(e[2]) \o T("[") \o ExpT(e[3]) \o T("]")
    [] e[1] = "call" -> PrefixT(e[2]) \o T("(") \o ExpsT(e[3]) \o T(")")
    [] e[1] = "method" -> PrefixT(e[2]) \o T(":") \o Name(e[3]) \o T("(") \o ExpsT(e[4]) \o T(")")
    [] e[1] = "un" -> T(e[2]) \o AtLevel(e[3], UnaryPrecedence)
    [] e[1] = "bin" -> LeftT(e[2], e[3]) \o T(e[2]) \o RightT(e[2], e[4])
    [] e[1] = "function" -> T("function") \o FunctionBodyT(e)
    [] e[1] = "table" -> T("{") \o Separated([j \in DOMAIN e[2] |-> ItemT(e[2][j])]) \o T("}")

Concatenated(lists) == FoldLeft(LAMBDA all, l : all \o l, <<>>, lists)
BranchT(branch) == ExpT(branch[1]) \o T("then") \o BlockT(branch[2])
IfT(branches) ==
  Concatenated([j \in DOMAIN branches |-> T(IF j = 1 THEN "if" ELSE "elseif") \o BranchT(branches[j])])
FunctionName(names, method) ==
  Concatenated([j \in DOMAIN names |-> (IF j = 1 THEN <<>> ELSE T(".")) \o Name(names[j])])
  \o (IF method = "" THEN <<>> ELSE T(":") \o Name(method))

StatTokens(x) ==
  CASE x[1] = "local" -> T("local") \o NamesT(x[2]) \o (IF x[3] = <<>> THEN <<>> ELSE T("=") \o ExpsT(x[3]))
    [] x[1] = "assign" -> ExpsT(x[2]) \o T("=") \o ExpsT(x[3])
    [] x[1] = "callstat" -> ExpT(x[2])
    [] x[1] = "do" -> T("do") \o BlockT(x[2]) \o T("end")
    [] x[1] = "while" -> T("while") \o ExpT(x[2]) \o T("do") \o BlockT(x[3]) \o T("end")
    [] x[1] = "repeat" -> T("repeat") \o BlockT(x[2]) \o T("until") \o ExpT(x[3])
    [] x[1] = "if" ->
         IfT(x[2]) \o (IF x[3] = <<>> THEN <<>> ELSE T("else") \o BlockT(x[3])) \o T("end")
    [] x[1] = "fornum" ->
         T("for") \o Name(x[2]) \o T("=") \o ExpsT(x[3]) \o T("do") \o BlockT(x[4]) \o T("end")
    [] x[1] = "forin" ->
         T("for") \o NamesT(x[2]) \o T("in") \o ExpsT(x[3]) \o T("do") \o BlockT(x[4]) \o T("end")
    [] x[1] = "return" -> T("return") \o ExpsT(x[2])
    [] x[1] = "break" -> T("break")
    [] x[1] = "localfunction" -> T("local") \o T("function") \o Name(x[2]) \o FunctionBodyT(x[3])
    [] x[1] = "functionstat" -> T("function") \o FunctionName(x[2], x[3]) \o FunctionBodyT(x[4])

Tokens(what, x) ==
  IF what = "exp" THEN ExpTokens(x)
  ELSE Concatenated([j \in DOMAIN x |-> StatTokens(x[j]) \o (IF x[j][1] \in {"assign", "local"} THEN T(";") ELSE <<>>)])

Unparse(program) == BlockT(program) \o T("EOS")
=============================================================================
