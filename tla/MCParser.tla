------------------------------- MODULE MCParser -------------------------------
(* All short sequences of words, the programs that Printing writes, and a few  *)
(* texts in every layout.                                                      *)
EXTENDS Tables, ParserRun

CONSTANTS
    MaxTokens,                 \* words of the first kind of text
    MaxBlanks                  \* blanks before those of the third kind must be single

MCStartState == StartItems
MCTransitions == ShiftsAndGotos
MCReductions == ReducesBy
MCItems == AllItems

MCBlanks == {"space", "newline", "wide space"}
MCIdentifiers == {"x", "y", "f"}
MCNumerals == {"1", "-3", "100"}
MCDenotes == [n \in MCNumerals |-> CASE n = "1" -> 1 [] n = "-3" -> -3 [] n = "100" -> 100]

Pieces == Terminals \cup MCBlanks \cup MCIdentifiers \cup MCNumerals \cup {"#"}
Bytes ==
    [p \in Pieces |->
        CASE p = "wide space" -> 3 [] p \in {"space", "newline"} -> 1 [] OTHER -> Len(p)]
MCWidth == Bytes

AfterBlank(t) == t # <<>> /\ t[Len(t)] \in MCBlanks

-----------------------------------------------------------------------------
(* A space after every word but the last.                                     *)

Words ==
    {"def", "end", "if", "else", "let", "in", "=", ":", "(", ")", ",",
     "-", "*", "&&", "<", "!", "true", "print", "x", "1", "100", "#"}

\* So that every second piece is a space
Singly(t) == \A i \in DOMAIN t : i % 2 = 0 <=> t[i] = "space"

OfferedWords(t) ==
    CASE Len(t) >= 2 * MaxTokens - 1 \/ ~Singly(t) -> {}
      [] t # <<>> /\ ~AfterBlank(t) -> {"space"}
      [] OTHER -> Words

-----------------------------------------------------------------------------
(* Every operator and form over simple operands, twice nested, and programs   *)
(* of up to two functions.                                                    *)

X == Var(<<"x">>)
One == Num(1)
Binary(es1, es2) == {Prim2(op, e1, e2) : op \in {"And", "Lt", "Add", "Mul"}, e1 \in es1, e2 \in es2}
Forms(es) ==
    {Prim1("Not", e) : e \in es} \cup {Prim1("Print", e) : e \in es}
    \cup {If(e, X, e) : e \in es} \cup {If(X, e, X) : e \in es}
    \cup {Let(<<Binding(<<"x">>, e)>>, X) : e \in es}
    \cup {Let(<<Binding(<<"x">>, X), Binding(<<"y">>, One)>>, e) : e \in es}
    \cup {Call(<<"f">>, <<e, X>>) : e \in es} \cup {Call(<<"f">>, <<e>>) : e \in es}
Simple == {X, Bool(FALSE), Call(<<"f">>, <<>>)}
         \cup {Prim2(op, X, Num(-3)) : op \in Prim2Ops}
         \cup {Prim1(op, X) : op \in Prim1Ops}
Once == {X} \cup Binary({X}, {X}) \cup Forms({X})
Twice == Simple \cup Binary(Once, Once) \cup Forms(Once)

Functions ==
    {FunDecl(<<"f">>, ps, body) : ps \in {<<>>, <<<<"x">>>>, <<<<"x">>, <<"y">>>>},
                                  body \in {X, If(X, X, X), Prim2("Add", X, X)}}
MCTrees ==
    {Prog(<<>>, e) : e \in Twice}
    \cup {Prog(fs, X) : fs \in {<<f>> : f \in Functions} \cup {<<FunDecl(<<"f">>, <<>>, X), f>> : f \in Functions}}

\* A space after each word
Spaced(ts) == [i \in 1 .. 2 * Len(ts) |-> IF i % 2 = 1 THEN ts[(i + 1) \div 2] ELSE "space"]
Texts == {Spaced(ts) : ts \in Printings}

Prefixes == UNION {{SubSeq(t, 1, n) : n \in 0 .. Len(t)} : t \in Texts}
Continued == {<<SubSeq(t, 1, Len(t) - 1), t[Len(t)]>> : t \in Prefixes \ {<<>>}}

OfferedPrograms(t) == {p \in Pieces : <<t, p>> \in Continued}

-----------------------------------------------------------------------------
(* Layout: blanks of every kind between the words of a few programs and, where *)
(* the lexer needs none, none.                                                *)

Layouts == {<<"x">>, <<"x", "-", "1">>, <<"f", "(", ")">>, <<"!", "(", "x", ")">>, <<"#">>}

Symbolic == {"(", ")", "!"}

MayTouch(t, p) == t = <<>> \/ AfterBlank(t) \/ {t[Len(t)], p} \cap Symbolic # {}
OpensLayout(ws) == \E l \in Layouts : Len(ws) <= Len(l) /\ SubSeq(l, 1, Len(ws)) = ws

OfferedLayouts(t) ==
    LET ws == WordsOf(t)
    IN  IF ~OpensLayout(ws) THEN {}
        ELSE {p \in Pieces \ MCBlanks : MayTouch(t, p) /\ OpensLayout(Append(ws, p))}
             \cup (IF Len(t) - Len(ws) < MaxBlanks \/ (t # <<>> /\ ~AfterBlank(t)) THEN MCBlanks ELSE {})

-----------------------------------------------------------------------------

MCOffered(t) == OfferedWords(t) \cup OfferedPrograms(t) \cup OfferedLayouts(t)
=============================================================================
