------------------------------- MODULE Printing -------------------------------
(***************************************************************************)
(* Reference: the tokens that a program is written with, with only the     *)
(* parentheses that precedence and associativity ask for.  parser.lalrpop  *)
(* binds Log loosest and to the right, then Cmp, PlusMinus and Times to    *)
(* the left; if and let stand in parentheses wherever an operand is        *)
(* wanted.                                                                 *)
(***************************************************************************)
EXTENDS Snake

Written(op) ==
    CASE op \in Log2 -> IF op = "And" THEN "&&" ELSE "||"
      [] op \in Eq2 -> IF op = "Eq" THEN "==" ELSE "!="
      [] op = "Lt" -> "<" [] op = "Le" -> "<=" [] op = "Gt" -> ">" [] op = "Ge" -> ">="
      [] op = "Add" -> "+" [] op = "Sub" -> "-" [] op = "Mul" -> "*"
      [] op = "Add1" -> "add1" [] op = "Sub1" -> "sub1"
      [] op = "Print" -> "print" [] op = "PrintStack" -> "printStack"
      [] op = "IsNum" -> "isnum" [] op = "IsBool" -> "isbool"

Binds(op) ==
    CASE op \in Log2 -> 1 [] op \in Cmp2 \cup Eq2 -> 2 [] op \in {"Add", "Sub"} -> 3 [] op = "Mul" -> 4

\* How tightly an expression holds together, from 0 to 6
Tightness(e) ==
    CASE e.exp \in {"If", "Let"} -> 0
      [] e.exp = "Prim2" -> Binds(e.op)
      [] e.exp = "Prim1" /\ e.op = "Not" -> 5
      [] OTHER -> 6

\* Lists with a comma after each element but, unless trailing, the last
RECURSIVE Listed(_, _)
Listed(items, trailing) ==
    IF items = <<>> THEN <<>>
    ELSE Head(items) \o (IF Len(items) > 1 \/ trailing THEN <<",">> ELSE <<>>)
         \o Listed(Tail(items), trailing)

\* Where tightness of at least k is asked for; numeral is the text of each number
RECURSIVE Printed(_, _, _, _)
Printed(e, k, numeral, trailing) ==
    LET sub(x, level) == Printed(x, level, numeral, trailing)
        all(es) == Listed([i \in DOMAIN es |-> sub(es[i], 0)], trailing)
        let(b) == <<b.var[1], "=">> \o sub(b.e, 0)
        bare ==
            CASE e.exp = "Num" -> <<numeral[e.n]>>
              [] e.exp = "Bool" -> <<IF e.b THEN "true" ELSE "false">>
              [] e.exp = "Var" -> e.x
              [] e.exp = "Prim1" /\ e.op = "Not" -> <<"!">> \o sub(e.e, 6)
              [] e.exp = "Prim1" /\ e.op # "Not" -> <<Written(e.op), "(">> \o sub(e.e, 0) \o <<")">>
              [] e.exp = "Prim2" ->
                    LET own == Binds(e.op)
                        left == IF own = 1 THEN own + 1 ELSE own
                        right == IF own = 1 THEN own ELSE own + 1
                    IN  sub(e.e1, left) \o <<Written(e.op)>> \o sub(e.e2, right)
              [] e.exp = "If" ->
                    <<"if">> \o sub(e.cond, 0) \o <<":">> \o sub(e.thn, 0)
                    \o <<"else", ":">> \o sub(e.els, 0)
              [] e.exp = "Let" ->
                    <<"let">> \o Listed([i \in DOMAIN e.bindings |-> let(e.bindings[i])], FALSE)
                    \o <<"in">> \o sub(e.body, 0)
              [] e.exp = "Call" -> e.f \o <<"(">> \o all(e.args) \o <<")">>
    IN  IF Tightness(e) < k THEN <<"(">> \o bare \o <<")">> ELSE bare

PrintedFunDecl(d, numeral, trailing) ==
    <<"def">> \o d.name \o <<"(">> \o Listed(d.params, trailing) \o <<")", ":">>
    \o Printed(d.body, 0, numeral, trailing) \o <<"end">>

RECURSIVE PrintedProg(_, _, _)
PrintedProg(p, numeral, trailing) ==
    IF p.funs = <<>> THEN Printed(p.main, 0, numeral, trailing)
    ELSE PrintedFunDecl(Head(p.funs), numeral, trailing)
         \o PrintedProg([p EXCEPT !.funs = Tail(@)], numeral, trailing)
=============================================================================
