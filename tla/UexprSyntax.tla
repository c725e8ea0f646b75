---------------------------- MODULE UexprSyntax ----------------------------
(***************************************************************************)
(* The parser of src/src/uexpr/uexpr.c and the printer of its syntax trees.*)
(* A text is the sequence of its tokens.  A string token is a string that  *)
(* is no punctuation, whether it was quoted or not; `BadToken` stands for  *)
(* a string without an end and for characters of no token.                 *)
(*                                                                         *)
(* The tree lives in one vector, e->ast, to which every file that is read  *)
(* appends: nodes refer to others by index, children come before parents.  *)
(***************************************************************************)
EXTENDS Integers, Sequences, FiniteSets, SequencesExt

Fail == -1
BadToken == "error token"
End == "end of file"

Binary == [t \in {"&", "|", "=", "%"} |->
              CASE t = "&" -> "AND" [] t = "|" -> "OR" [] t = "=" -> "EQ" [] t = "%" -> "IN"]
Opening == [LIST |-> "[", BLOCK |-> "{", FN |-> "("]
Separator == [LIST |-> ",", BLOCK |-> ";", FN |-> ","]
Closing == [LIST |-> "]", BLOCK |-> "}", FN |-> ")"]
Punctuation == {"(", ")", "[", "]", "{", "}", ",", ";", "$", "~"} \cup DOMAIN Binary
IsString(t) == t \notin Punctuation \cup {BadToken, End}

(***************************************************************************)
(* struct parser_state: the tokens ahead, the vector, and the index that   *)
(* the last function returned, or Fail.                                    *)
(***************************************************************************)
Peek(p) == IF p.in = <<>> THEN End ELSE Head(p.in)
Get(p) == IF p.in = <<>> THEN p ELSE [p EXCEPT !.in = Tail(@)]
Failed(p) == [p EXCEPT !.r = Fail]

\* vec_append(&s->ast, &n)
Appended(p, op, str, args) ==
    [p EXCEPT !.ast = Append(@, [op |-> op, str |-> str, args |-> args]), !.r = Len(p.ast) + 1]

RECURSIVE term(_), expr(_), Items(_, _, _, _)

\* The loop of list(), when t is the state after one more item.
NextItem(t, op, str, all) ==
    IF t.r = Fail THEN t
    ELSE IF Peek(t) = Closing[op] THEN Appended(Get(t), op, str, all)
    ELSE IF Peek(t) = Separator[op] THEN Items(Get(t), op, str, all)
    ELSE Failed(t)

Item(t, op, str, args) == NextItem(t, op, str, Append(args, t.r))
Items(p, op, str, args) == Item(term(p), op, str, args)

list(p, op, str) ==
    IF Peek(p) = Closing[op] THEN Appended(Get(p), op, str, <<>>) ELSE Items(p, op, str, <<>>)

\* term(), after its operands.
Joint(a, b) ==
    IF b.r = Fail THEN b ELSE Appended(b, Binary[Peek(a)], "", <<a.r, b.r>>)

\* Binary operators have no precedence and lean to the right.
AfterExpr(a) ==
    IF a.r = Fail \/ Peek(a) \notin DOMAIN Binary THEN a ELSE Joint(a, term(Get(a)))
term(p) == AfterExpr(expr(p))

Grouped(e) == IF e.r # Fail /\ Peek(e) = ")" THEN Get(e) ELSE Failed(e)
Negated(e) == IF e.r = Fail THEN e ELSE Appended(e, "NEG", "", <<e.r>>)

\* A term in parentheses has no node of its own; a name followed by a
\* parenthesis is a call, also when it is quoted; "~" takes one operand.
expr(p) ==
    LET t == Peek(p)
        q == Get(p)
    IN  CASE t = "(" -> Grouped(term(q))
          [] t = "[" -> list(q, "LIST", "")
          [] t = "{" -> list(q, "BLOCK", "")
          [] t = "$" -> IF IsString(Peek(q)) THEN Appended(Get(q), "VAR", Peek(q), <<>>)
                                             ELSE Failed(q)
          [] t = "~" -> Negated(expr(q))
          [] IsString(t) -> IF Peek(q) = "(" THEN list(Get(q), "FN", t)
                                             ELSE Appended(q, "LIT", t, <<>>)
          [] OTHER -> Failed(p)

\* uexpr_parse: what follows the first term is not looked at.
uexpr_parse(ast, text) == term([in |-> text, ast |-> ast, r |-> Fail])

(***************************************************************************)
(* dump_ast                                                                *)
(***************************************************************************)
Joined(texts, separator) ==
    FoldLeft(LAMBDA all, k : all \o (IF k = 1 THEN <<>> ELSE <<separator>>) \o texts[k],
             <<>>, [k \in DOMAIN texts |-> k])

RECURSIVE dump_ast(_, _)

Sign(op) == CHOOSE t \in DOMAIN Binary : Binary[t] = op

\* MUTANT of Printed: no parentheses around a binary operator.
Printed_Bare(n, arg) ==
    CASE n.op = "LIT" -> <<n.str>>
      [] n.op = "VAR" -> <<"$", n.str>>
      [] n.op = "NEG" -> <<"~">> \o arg[1]
      [] n.op \in DOMAIN Opening ->
            (IF n.op = "FN" THEN <<n.str>> ELSE <<>>)
                \o <<Opening[n.op]>> \o Joined(arg, Separator[n.op]) \o <<Closing[n.op]>>
      [] OTHER -> arg[1] \o <<Sign(n.op)>> \o arg[2]

\* A node, when its arguments are printed.
Printed(n, arg) ==
    CASE n.op = "LIT" -> <<n.str>>
      [] n.op = "VAR" -> <<"$", n.str>>
      [] n.op = "NEG" -> <<"~">> \o arg[1]
      [] n.op \in DOMAIN Opening ->
            (IF n.op = "FN" THEN <<n.str>> ELSE <<>>)
                \o <<Opening[n.op]>> \o Joined(arg, Separator[n.op]) \o <<Closing[n.op]>>
      [] OTHER -> <<"(">> \o arg[1] \o <<Sign(n.op)>> \o arg[2] \o <<")">>

dump_ast(ast, i) ==
    Printed(ast[i], [k \in DOMAIN ast[i].args |-> dump_ast(ast, ast[i].args[k])])

(***************************************************************************)
(* What reading is about                                                   *)
(***************************************************************************)
RECURSIVE IsExpr(_), IsItems(_, _)

\* The grammar of Documentation/uexpr.md, as a predicate on texts.
IsExpr(t) ==
    LET n == Len(t)
    IN  \/ n = 1 /\ IsString(t[1])
        \/ n = 2 /\ t[1] = "$" /\ IsString(t[2])
        \/ n > 1 /\ t[1] = "~" /\ IsExpr(Tail(t))
        \/ n > 2 /\ t[1] = "(" /\ t[n] = ")" /\ IsExpr(SubSeq(t, 2, n - 1))
        \/ n > 2 /\ IsString(t[1]) /\ t[2] = "(" /\ t[n] = ")"
             /\ IsItems(SubSeq(t, 3, n - 1), ",")
        \/ \E op \in {"LIST", "BLOCK"} :
             /\ n > 1 /\ t[1] = Opening[op] /\ t[n] = Closing[op]
             /\ IsItems(SubSeq(t, 2, n - 1), Separator[op])
        \/ \E k \in 2..(n - 1) :
             /\ t[k] \in DOMAIN Binary
             /\ IsExpr(SubSeq(t, 1, k - 1)) /\ IsExpr(SubSeq(t, k + 1, n))

IsItems(t, separator) ==
    \/ t = <<>> \/ IsExpr(t)
    \/ \E k \in 2..(Len(t) - 1) :
         /\ t[k] = separator /\ IsExpr(SubSeq(t, 1, k - 1))
         /\ IsItems(SubSeq(t, k + 1, Len(t)), separator)

\* The part of a text that was read.
Read(text, p) == SubSeq(text, 1, Len(text) - Len(p.in))

Ungrouped(text) == SelectSeq(text, LAMBDA t : t \notin {"(", ")"})

RECURSIVE SameTree(_, _, _, _)
SameTree(ast, i, other, j) ==
    /\ ast[i].op = other[j].op /\ ast[i].str = other[j].str
    /\ Len(ast[i].args) = Len(other[j].args)
    /\ \A k \in DOMAIN ast[i].args : SameTree(ast, ast[i].args[k], other, other[j].args[k])

RECURSIVE Below(_, _)
Below(ast, i) == {i} \cup UNION {Below(ast, ast[i].args[k]) : k \in DOMAIN ast[i].args}
=============================================================================
