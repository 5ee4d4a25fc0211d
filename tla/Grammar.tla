------------------------------- MODULE Grammar -------------------------------
(***************************************************************************)
(* The productions of the parser and what their reductions compute, as     *)
(* LALRPOP expanded them from src/src/parser.lalrpop: __reduce3 to         *)
(* __reduce79 in the module __parse__Prog of src/src/parser.rs, less those *)
(* of the symbols that no other production mentions any more (@L, @R, the  *)
(* starred and optional ones).                                             *)
(*                                                                         *)
(* The terminals r#"[+-]?[0-9]+"# and r#"[a-zA-Z][a-zA-Z0-9_]*"# are       *)
(* called numeral and identifier; every other terminal is its own text.    *)
(***************************************************************************)
EXTENDS Snake, TLC

Rule(lhs, rhs, does) == [lhs |-> lhs, rhs |-> rhs, does |-> does]

\* What a reduction does with the values of the symbols it pops
Pick(n) == <<"pick", n>>           \* passes one of them on
Const(c) == <<"const", c>>
None == <<"none">>                 \* the vectors
Single == <<"one">>
Push(n) == <<"push", n>>           \* pushes the value of symbol n to the first
Makes(what) == <<what>>            \* builds a node

Unit(lhs, rhs) == Rule(lhs, <<rhs>>, Pick(1))

-----------------------------------------------------------------------------

ExpCommaRules == <<
    Rule("(<Exp> \",\")+", <<"Exp", ",">>, Single),
    Rule("(<Exp> \",\")+", <<"(<Exp> \",\")+", "Exp", ",">>, Push(2)) >>

IdCommaRules == <<
    Rule("(<Id> \",\")+", <<"Id", ",">>, Single),
    Rule("(<Id> \",\")+", <<"(<Id> \",\")+", "Id", ",">>, Push(2)) >>

BaseExpRules == <<
    Rule("BaseExp", <<"Id">>, Makes("Var")),
    Rule("BaseExp", <<"Bool">>, Makes("Bool")),
    Rule("BaseExp", <<"Num">>, Makes("Num")),
    Rule("BaseExp", <<"Prim1", "(", "Exp", ")">>, Makes("Prim1")),
    Rule("BaseExp", <<"(", "Exp", ")">>, Pick(2)),
    Rule("BaseExp", <<"Id", "(", "Comma<Exp>", ")">>, Makes("Call")) >>

BinOpsRule == Unit("BinOps", "LogExp")

BindingsRules == <<
    Rule("Bindings", <<"Id", "=", "Exp">>, Makes("First binding")),
    Rule("Bindings", <<"Bindings", ",", "Id", "=", "Exp">>, Makes("Next binding")) >>

BoolRules == <<
    Rule("Bool", <<"true">>, Const(TRUE)),
    Rule("Bool", <<"false">>, Const(FALSE)) >>

CmpRules == <<
    Rule("Cmp", <<"<">>, Const("Lt")), Rule("Cmp", <<"<=">>, Const("Le")),
    Rule("Cmp", <<">">>, Const("Gt")), Rule("Cmp", <<">=">>, Const("Ge")),
    Rule("Cmp", <<"==">>, Const("Eq")), Rule("Cmp", <<"!=">>, Const("Neq")) >>

CmpExpRule == Unit("CmpExp", "LAssoc<Cmp, Sum>")

CommaExpRules == <<
    Rule("Comma<Exp>", <<"Exp">>, Single),
    Rule("Comma<Exp>", <<>>, None),
    Rule("Comma<Exp>", <<"(<Exp> \",\")+", "Exp">>, Push(2)),
    Unit("Comma<Exp>", "(<Exp> \",\")+") >>

CommaIdRules == <<
    Rule("Comma<Id>", <<"Id">>, Single),
    Rule("Comma<Id>", <<>>, None),
    Rule("Comma<Id>", <<"(<Id> \",\")+", "Id">>, Push(2)),
    Unit("Comma<Id>", "(<Id> \",\")+") >>

ExpRules == <<Unit("Exp", "IF"), Unit("Exp", "LET"), Unit("Exp", "BinOps")>>

FunDeclRule ==
    Rule("FunDecl", <<"def", "Id", "(", "Comma<Id>", ")", ":", "Exp", "end">>, Makes("FunDecl"))

FunDeclsRules == <<
    Rule("FunDecl+", <<"FunDecl">>, Single),
    Rule("FunDecl+", <<"FunDecl+", "FunDecl">>, Push(2)) >>

IFRule == Rule("IF", <<"if", "Exp", ":", "Exp", "else", ":", "Exp">>, Makes("If"))

IdRule == Unit("Id", "identifier")

LAssocRules == <<
    Rule("LAssoc<Cmp, Sum>", <<"LAssoc<Cmp, Sum>", "Cmp", "Sum">>, Makes("Prim2")),
    Unit("LAssoc<Cmp, Sum>", "Sum"),
    Rule("LAssoc<PlusMinus, Product>",
         <<"LAssoc<PlusMinus, Product>", "PlusMinus", "Product">>, Makes("Prim2")),
    Unit("LAssoc<PlusMinus, Product>", "Product"),
    Rule("LAssoc<Times, NotExp>",
         <<"LAssoc<Times, NotExp>", "Times", "NotExp">>, Makes("Prim2")),
    Unit("LAssoc<Times, NotExp>", "NotExp") >>

LETRule == Rule("LET", <<"let", "Bindings", "in", "Exp">>, Makes("Let"))

LogRules == <<Rule("Log", <<"&&">>, Const("And")), Rule("Log", <<"||">>, Const("Or"))>>

LogExpRule == Unit("LogExp", "RAssoc<Log, CmpExp>")

NotExpRules == <<
    Rule("NotExp", <<"!", "BaseExp">>, Makes("Not")),
    Unit("NotExp", "BaseExp") >>

NumRule == Rule("Num", <<"numeral">>, Makes("i64"))

PlusMinusRules == <<
    Rule("PlusMinus", <<"+">>, Const("Add")), Rule("PlusMinus", <<"-">>, Const("Sub")) >>

Prim1Rules == <<
    Rule("Prim1", <<"add1">>, Const("Add1")), Rule("Prim1", <<"sub1">>, Const("Sub1")),
    Rule("Prim1", <<"print">>, Const("Print")),
    Rule("Prim1", <<"printStack">>, Const("PrintStack")),
    Rule("Prim1", <<"isnum">>, Const("IsNum")), Rule("Prim1", <<"isbool">>, Const("IsBool")) >>

ProductRule == Unit("Product", "LAssoc<Times, NotExp>")

ProgRules == <<
    Rule("Prog", <<"Exp">>, Makes("Main")),
    Rule("Prog", <<"FunDecl+", "Exp">>, Makes("Prog")) >>

\* Bug: associates to the left
RAssocRulesToTheLeft == <<
    Rule("RAssoc<Log, CmpExp>", <<"RAssoc<Log, CmpExp>", "Log", "CmpExp">>, Makes("Prim2")),
    Unit("RAssoc<Log, CmpExp>", "CmpExp") >>

\* Bug: on either side
RAssocRulesBothWays == <<
    Rule("RAssoc<Log, CmpExp>",
         <<"RAssoc<Log, CmpExp>", "Log", "RAssoc<Log, CmpExp>">>, Makes("Prim2")),
    Unit("RAssoc<Log, CmpExp>", "CmpExp") >>

RAssocRules == <<
    Rule("RAssoc<Log, CmpExp>", <<"CmpExp", "Log", "RAssoc<Log, CmpExp>">>, Makes("Prim2")),
    Unit("RAssoc<Log, CmpExp>", "CmpExp") >>

SumRule == Unit("Sum", "LAssoc<PlusMinus, Product>")

TimesRule == Rule("Times", <<"*">>, Const("Mul"))

StartRule == Unit("__Prog", "Prog")

Rules ==
    ExpCommaRules \o IdCommaRules \o BaseExpRules \o BindingsRules \o BoolRules \o CmpRules
    \o CommaExpRules \o CommaIdRules \o ExpRules \o FunDeclsRules \o LAssocRules \o LogRules
    \o NotExpRules \o PlusMinusRules \o Prim1Rules \o ProgRules \o RAssocRules
    \o <<BinOpsRule, CmpExpRule, FunDeclRule, IFRule, IdRule, LETRule, LogExpRule, NumRule,
         ProductRule, SumRule, TimesRule, StartRule>>

EOF == "end of text"

Nonterminals == {Rules[i].lhs : i \in DOMAIN Rules}
Mentioned == UNION {{Rules[i].rhs[j] : j \in DOMAIN Rules[i].rhs} : i \in DOMAIN Rules}
Terminals == Mentioned \ Nonterminals

-----------------------------------------------------------------------------
(* The functions __action2 to __action120: the node that a reduction builds  *)
(* from the values v of the symbols it pops.                                *)

BaseExpNode(what, v) ==
    CASE what = "Var" -> Var(v[1])
      [] what = "Bool" -> Bool(v[1])
      [] what = "Num" -> Num(v[1])
      [] what = "Prim1" -> Prim1(v[1], v[3])
      [] what = "Call" -> Call(v[1], v[3])

NotExpNode(v) == Prim1("Not", v[2])

\* LAssoc and RAssoc: an operation between two operands
AssocNode(v) == Prim2(v[2], v[1], v[3])

IFNode(v) == If(v[2], v[4], v[7])

LETNode(v) == Let(v[2], v[4])

FunDeclNode(v) == FunDecl(v[2], v[4], v[7])

ProgNode(what, v) == IF what = "Main" THEN Prog(<<>>, v[1]) ELSE Prog(v[1], v[2])

\* Bug: the last binding first
BindingsValueReversed(what, v) ==
    IF what = "First binding"
    THEN <<Binding(v[1], v[3])>>
    ELSE <<Binding(v[3], v[5])>> \o v[1]

BindingsValue(what, v) ==
    IF what = "First binding"
    THEN <<Binding(v[1], v[3])>>
    ELSE Append(v[1], Binding(v[3], v[5]))

\* A node has the Span1 from the start of its first symbol to the end of its last
Node(tree, span) == tree @@ [ann |-> span]

\* Bug: pushes to the front
VecValueFront(does, v) ==
    CASE does[1] = "none" -> <<>>
      [] does[1] = "one" -> <<v[1]>>
      [] does[1] = "push" -> <<v[does[2]]>> \o v[1]

VecValue(does, v) ==
    CASE does[1] = "none" -> <<>>
      [] does[1] = "one" -> <<v[1]>>
      [] does[1] = "push" -> Append(v[1], v[does[2]])

Value(does, v, span) ==
    CASE does[1] = "pick" -> v[does[2]]
      [] does[1] = "const" -> does[2]
      [] does[1] = "i64" -> v[1]
      [] does[1] \in {"none", "one", "push"} -> VecValue(does, v)
      [] does[1] \in {"First binding", "Next binding"} -> BindingsValue(does[1], v)
      [] does[1] = "Not" -> Node(NotExpNode(v), span)
      [] does[1] = "Prim2" -> Node(AssocNode(v), span)
      [] does[1] = "If" -> Node(IFNode(v), span)
      [] does[1] = "Let" -> Node(LETNode(v), span)
      [] does[1] = "FunDecl" -> Node(FunDeclNode(v), span)
      [] does[1] \in {"Main", "Prog"} -> Node(ProgNode(does[1], v), span)
      [] OTHER -> Node(BaseExpNode(does[1], v), span)
=============================================================================
