------------------------------ MODULE ParserRun ------------------------------
(***************************************************************************)
(* What parse_file (src/src/runner.rs:143-152) promises its callers: the   *)
(* tree that the grammar gives to the text, and a FileInfo in which every  *)
(* span of that tree has a place.                                          *)
(***************************************************************************)
EXTENDS Derivations, Syntax, Printing, Positions, FiniteSets

CONSTANT Trees               \* programs whose texts are known

\* The tokens of the text, each where it stands
TokensOf ==
    LET at == Offsets(text, Width)
        token(k) == Token(Kind(text[k]), text[k], at[k], at[k + 1])
    IN  SelectSeq([k \in DOMAIN text |-> token(k)], LAMBDA t : t.piece \notin Blanks)

\* The numeral of a number, where each has one
NumeralOf ==
    [n \in {Denotes[p] : p \in Numerals} |-> CHOOSE p \in Numerals : Denotes[p] = n]

RECURSIVE ExpAnns(_)
ExpAnns(e) ==
    {e.ann} \cup
    CASE e.exp \in {"Num", "Bool", "Var"} -> {}
      [] e.exp = "Prim1" -> ExpAnns(e.e)
      [] e.exp = "Prim2" -> ExpAnns(e.e1) \cup ExpAnns(e.e2)
      [] e.exp = "If" -> ExpAnns(e.cond) \cup ExpAnns(e.thn) \cup ExpAnns(e.els)
      [] e.exp = "Let" -> ExpAnns(e.body)
             \cup UNION {ExpAnns(e.bindings[i].e) : i \in DOMAIN e.bindings}
      [] e.exp = "Call" -> UNION {ExpAnns(e.args[i]) : i \in DOMAIN e.args}

Anns(p) ==
    {p.ann} \cup ExpAnns(p.main)
    \cup UNION {{p.funs[i].ann} \cup ExpAnns(p.funs[i].body) : i \in DOMAIN p.funs}

-----------------------------------------------------------------------------

\* The tables decide: never a shift and a reduction, nor two reductions.
Deterministic ==
    Parsing => Cardinality(Applicable) + (IF Shiftable THEN 1 ELSE 0) <= 1

\* A text is accepted with a tree exactly if that is the one tree which the
\* rules of the grammar give it, with the span of every node; it is refused at
\* its end only if they give it none (parser.lalrpop, runner.rs:143-152).
ParsesByGrammar ==
    /\ outcome.t = "Ok" => Programs(TokensOf, Denotes) = {outcome.prog}
    /\ outcome.t = "UnrecognizedEOF" => TokensOf = <<>> \/ Programs(TokensOf, Denotes) = {}

\* What the Trees are written with, with or without the commas that may trail
Printings == {PrintedProg(p, NumeralOf, trailing) : p \in Trees, trailing \in BOOLEAN}

WordsOf(t) == SelectSeq(t, LAMBDA p : p \notin Blanks)

\* What a program is written with is read as that program, whatever stands between
\* the words: a text that Printing writes is accepted, and its tree is written as
\* the text was (parser.lalrpop).
ReadsBack ==
    outcome # Running /\ WordsOf(text) \in Printings =>
        /\ outcome.t = "Ok"
        /\ \E trailing \in BOOLEAN : PrintedProg(outcome.prog, NumeralOf, trailing) = WordsOf(text)

\* Every expression and function of an accepted program has a place in lines
\* and columns, without the panic of offset_to_line_col, and it is the place where
\* its first and its last token stand (lexer.rs:36-70).
PlacesRight ==
    outcome.t = "Ok" =>
        LET info == FileInfo(text, Width)
            at == Offsets(text, Width)
        IN  \A span \in Anns(outcome.prog) :
                \E j, k \in DOMAIN text :
                    /\ at[j] = span[1] /\ at[k + 1] = span[2]
                    /\ text[j] \notin Blanks /\ text[k] \notin Blanks
                    /\ Locatable(info, span)
                    /\ Span1ToSpan2(info, span) = PlaceOf(text, Width, j, k)

\* The parser answers: no reduction goes round in circles, and at the end of the
\* text it accepts or refuses (parser.rs:3332-3348).
Answers == <>(outcome # Running)

\* "Number literal {} doesn't fit into 63-bit integer" (compile.rs:108): a literal
\* that is out of range is reported by check_prog, which the parser lets it reach.
LiteralsReachCheck == outcome.t # "Panic"
=============================================================================
