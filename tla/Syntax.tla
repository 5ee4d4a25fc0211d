-------------------------------- MODULE Syntax --------------------------------
(***************************************************************************)
(* What src/src/parser.lalrpop says of a text: the trees that its rules    *)
(* give for the tokens w[i] .. w[j], found by looking for a place to cut   *)
(* instead of by shifting and reducing.  @L and @R are the start of w[i]   *)
(* and the end of w[j].                                                    *)
(***************************************************************************)
EXTENDS Snake, TLC

Spanned(w, i, j, tree) == tree @@ [ann |-> <<w[i].l, w[j].r>>]

Is(w, i, j, kind) == i <= j /\ w[i].kind = kind
At(w, i, j, kind) == {m \in i .. j : w[m].kind = kind}

\* Log, Cmp, PlusMinus and Times, in the order in which they bind
Operators == <<
    [t \in {"&&", "||"} |-> IF t = "&&" THEN "And" ELSE "Or"],
    [t \in {"<", "<=", ">", ">=", "==", "!="} |->
        CASE t = "<" -> "Lt" [] t = "<=" -> "Le" [] t = ">" -> "Gt" [] t = ">=" -> "Ge"
          [] t = "==" -> "Eq" [] t = "!=" -> "Neq"],
    [t \in {"+", "-"} |-> IF t = "+" THEN "Add" ELSE "Sub"],
    [t \in {"*"} |-> "Mul"] >>
RightAssoc == {1}

Prim1Words ==
    [t \in {"add1", "sub1", "print", "printStack", "isnum", "isbool"} |->
        CASE t = "add1" -> "Add1" [] t = "sub1" -> "Sub1" [] t = "print" -> "Print"
          [] t = "printStack" -> "PrintStack" [] t = "isnum" -> "IsNum" [] t = "isbool" -> "IsBool"]

\* Comma<Id>: names, each followed by a comma, but for the last, which may be
Ids(w, i, j) ==
    IF \A m \in i .. j : w[m].kind = IF (m - i) % 2 = 0 THEN "identifier" ELSE ","
    THEN {[n \in 1 .. (j - i + 2) \div 2 |-> <<w[i + 2 * n - 2].piece>>]}
    ELSE {}

RECURSIVE Exps(_, _, _, _)
RECURSIVE Args(_, _, _, _)
RECURSIVE Bindings(_, _, _, _)

IFs(w, num, i, j) ==
    IF Is(w, i, j, "if")
    THEN UNION {{Spanned(w, i, j, If(c, t, e)) :
                    c \in Exps(w, num, i + 1, m - 1), t \in Exps(w, num, m + 1, n - 1),
                    e \in IF Is(w, n + 1, j, ":") THEN Exps(w, num, n + 2, j) ELSE {}} :
                m \in At(w, i, j, ":"), n \in At(w, i, j, "else")}
    ELSE {}

LETs(w, num, i, j) ==
    IF Is(w, i, j, "let")
    THEN UNION {{Spanned(w, i, j, Let(bs, body)) :
                    bs \in Bindings(w, num, i + 1, m - 1), body \in Exps(w, num, m + 1, j)} :
                m \in At(w, i, j, "in")}
    ELSE {}

\* A leaf, a parenthesis, an operation on one operand or a call
BaseExps(w, num, i, j) ==
    IF i = j
    THEN CASE w[i].kind = "identifier" -> {Spanned(w, i, j, Var(<<w[i].piece>>))}
           [] w[i].kind = "numeral" -> {Spanned(w, i, j, Num(num[w[i].piece]))}
           [] w[i].kind \in {"true", "false"} -> {Spanned(w, i, j, Bool(w[i].kind = "true"))}
           [] OTHER -> {}
    ELSE CASE ~Is(w, j, j, ")") \/ i > j -> {}
           [] w[i].kind = "(" -> Exps(w, num, i + 1, j - 1)
           [] Is(w, i + 1, j, "(") /\ w[i].kind \in DOMAIN Prim1Words ->
                {Spanned(w, i, j, Prim1(Prim1Words[w[i].kind], e)) : e \in Exps(w, num, i + 2, j - 1)}
           [] Is(w, i + 1, j, "(") /\ w[i].kind = "identifier" ->
                {Spanned(w, i, j, Call(<<w[i].piece>>, es)) : es \in Args(w, num, i + 2, j - 1)}
           [] OTHER -> {}

NotExps(w, num, i, j) ==
    IF Is(w, i, j, "!")
    THEN {Spanned(w, i, j, Prim1("Not", e)) : e \in BaseExps(w, num, i + 1, j)}
    ELSE BaseExps(w, num, i, j)

\* LAssoc and RAssoc at one level of Operators, or the next level
RECURSIVE Level(_, _, _, _, _)
Level(w, num, k, i, j) ==
    IF k > Len(Operators) THEN NotExps(w, num, i, j)
    ELSE LET left == IF k \in RightAssoc THEN k + 1 ELSE k
             right == IF k \in RightAssoc THEN k ELSE k + 1
         IN  Level(w, num, k + 1, i, j)
             \cup UNION {{Spanned(w, i, j, Prim2(Operators[k][w[m].kind], e1, e2)) :
                            e1 \in Level(w, num, left, i, m - 1),
                            e2 \in Level(w, num, right, m + 1, j)} :
                         m \in {m \in i + 1 .. j - 1 : w[m].kind \in DOMAIN Operators[k]}}

Exps(w, num, i, j) ==
    IF i > j THEN {}
    ELSE IFs(w, num, i, j) \cup LETs(w, num, i, j) \cup Level(w, num, 1, i, j)

\* Comma<Exp>
Args(w, num, i, j) ==
    IF i > j THEN {<<>>}
    ELSE {<<e>> : e \in Exps(w, num, i, j)}
         \cup UNION {{<<e>> \o es : e \in Exps(w, num, i, m - 1), es \in Args(w, num, m + 1, j)} :
                     m \in At(w, i, j, ",")}

Bindings(w, num, i, j) ==
    IF Is(w, i, j, "identifier") /\ Is(w, i + 1, j, "=")
    THEN {<<Binding(<<w[i].piece>>, e)>> : e \in Exps(w, num, i + 2, j)}
         \cup UNION {{<<Binding(<<w[i].piece>>, e)>> \o bs :
                        e \in Exps(w, num, i + 2, m - 1), bs \in Bindings(w, num, m + 1, j)} :
                     m \in At(w, i, j, ",")}
    ELSE {}

FunDecls(w, num, i, j) ==
    IF /\ Is(w, i, j, "def") /\ Is(w, i + 1, j, "identifier") /\ Is(w, i + 2, j, "(")
       /\ Is(w, j, j, "end")
    THEN UNION {{Spanned(w, i, j, FunDecl(<<w[i + 1].piece>>, ps, body)) :
                    ps \in IF Is(w, m + 1, j, ":") THEN Ids(w, i + 3, m - 1) ELSE {},
                    body \in Exps(w, num, m + 2, j - 1)} :
                m \in At(w, i, j, ")")}
    ELSE {}

\* FunDecl*, then the main expression
RECURSIVE Parts(_, _, _)
Parts(w, num, i) ==
    {<<<<>>, e>> : e \in Exps(w, num, i, Len(w))}
    \cup UNION {{<<<<f>> \o rest[1], rest[2]>> :
                    f \in FunDecls(w, num, i, m), rest \in Parts(w, num, m + 1)} :
                m \in At(w, i, Len(w), "end")}

\* The programs that the tokens w are, num giving the value of each numeral
Programs(w, num) == {Spanned(w, 1, Len(w), Prog(p[1], p[2])) : p \in Parts(w, num, 1)}
=============================================================================
