----------------------------- MODULE Derivations -----------------------------
(***************************************************************************)
(* What a text means by the rules of src/src/parser.lalrpop, said without  *)
(* stacks and without recursion: which symbols stand where in the text.    *)
(*                                                                         *)
(* A derivation <<x, j, k>> says that the pieces j + 1 .. k of the text    *)
(* are the symbol x, with its value and its span in bytes.  A text has the *)
(* derivations that are in every relation D that keeps the rules.          *)
(***************************************************************************)
EXTENDS Parser

\* The parser begins in the start state, never comes back to it, and reduces the
\* rule of __Prog only from there and at the end of the text, which is no word
ASSUME StartAssumption ==
    /\ {EOF, NoToken.kind} \cap Terminals = {}
    /\ \A i \in DOMAIN Rules :
          Rules[i].lhs = "__Prog" =>
             /\ Len(Rules[i].rhs) = 1
             /\ \A s \in States : /\ <<i, 0>> \in Items[s] => s = StartState
                                  /\ \A t \in Terminals : i \notin Reductions[s][t]
    /\ \A s \in States : /\ EOF \notin DOMAIN Transitions[s]
                         /\ \A X \in DOMAIN Transitions[s] : Transitions[s][X] # StartState

-----------------------------------------------------------------------------
(* The rules.                                                               *)

\* at[k] is where the piece k of the text t ends, in bytes
Ends(at, t) == at[0] = 0 /\ \A k \in DOMAIN t : at[k] = at[k - 1] + Width[t[k]]

\* Nothing but blanks between the pieces j and k + 1
Blank(t, j, k) == \A m \in j + 1 .. k : t[m] \in Blanks

Word(piece, l, r) ==
    [sym |-> Kind(piece), value |-> TokenValue(Token(Kind(piece), piece, l, r)), l |-> l, r |-> r]

Built(rule, kids, l, r) ==
    [sym |-> rule.lhs,
     value |-> Value(rule.does, [i \in DOMAIN kids |-> kids[i].value], <<l, r>>),
     l |-> l, r |-> r]

\* A word is a terminal, after any blanks
SpellsWords(D, t, at) ==
    \A k \in DOMAIN t : \A j \in 0 .. k - 1 :
        t[k] \notin Blanks /\ Kind(t[k]) \in Terminals /\ Blank(t, j, k - 1) =>
            <<Word(t[k], at[k - 1], at[k]), j, k>> \in D

\* The symbols that a production names, one after the other, are the symbol that it
\* produces, unless they are the numeral of no 64-bit integer
Produces(D, rule) ==
    \A kids, b :
        /\ IsSeq(kids) /\ kids # <<>> /\ Len(kids) = Len(rule.rhs)
        /\ \A m \in DOMAIN kids : <<kids[m], b[m - 1], b[m]>> \in D /\ kids[m].sym = rule.rhs[m]
        /\ rule.does = <<"i64">> => FitsI64(kids[1].value)
        => <<Built(rule, kids, kids[1].l, Top(kids).r), b[0], b[Len(kids)]>> \in D

\* A production that names none is anywhere; its span is before or after a blank
ProducesNothing(D, t, at, rule) ==
    Len(rule.rhs) = 0 =>
        \A j \in 0 .. Len(t) : \A m \in j .. Len(t) :
            Blank(t, j, m) => <<Built(rule, <<>>, at[m], at[m]), j, j>> \in D

Derived(D, t, at) ==
    /\ SpellsWords(D, t, at)
    /\ \A i \in DOMAIN Rules : Produces(D, Rules[i]) /\ ProducesNothing(D, t, at, Rules[i])

\* The whole text, up to blanks at its end, is what the start rule names, with the
\* value prog
Derives(t, prog) ==
    \A D, at : Ends(at, t) /\ Derived(D, t, at) =>
        \E i \in DOMAIN Rules : \E x : \E k \in 0 .. Len(t) :
            /\ Rules[i].lhs = "__Prog" /\ x.sym = Rules[i].rhs[1] /\ x.value = prog
            /\ <<x, 0, k>> \in D /\ Blank(t, k, Len(t))

\* A text is accepted only with a tree that the rules of the grammar give it, with
\* its spans (parser.lalrpop, parser.rs:3332-3348).
AcceptedIsDerived == outcome.t = "Ok" => Derives(text, outcome.prog)

-----------------------------------------------------------------------------
(* The inductive invariant: the symbols on the stack are derivations of one  *)
(* stretch of the text after the other, c[i] being where the i-th ends, and  *)
(* after them come blanks and the token in hand.                             *)

Covers(D, at, t, syms, c) ==
    /\ c[0] = 0 /\ \A i \in 0 .. Len(syms) : c[i] \in 0 .. Len(t)
    /\ \A i \in DOMAIN syms :
          /\ <<syms[i], c[i - 1], c[i]>> \in D
          /\ \E m \in c[i] .. Len(t) : Blank(t, c[i], m) /\ syms[i].r = at[m]

\* What is left of the text after its piece j
InHand(at, t, token, j) ==
    \/ (token = NoToken \/ token.kind = EOF) /\ Blank(t, j, Len(t))
    \/ /\ j < Len(t) /\ Blank(t, j, Len(t) - 1)
       /\ t[Len(t)] \notin Blanks /\ Kind(t[Len(t)]) \in Terminals
       /\ token = Token(Kind(t[Len(t)]), t[Len(t)], at[Len(t) - 1], at[Len(t)])

TextCovered ==
    /\ IsSeq(text)
    /\ \A D, at : Ends(at, text) /\ Derived(D, text, at) =>
          /\ consumed = at[Len(text)]
          /\ \E c : Covers(D, at, text, symbols, c)
                    /\ InHand(at, text, lookahead, c[Len(symbols)])

DerivationIInv ==
    /\ IInv
    /\ outcome = Running => TextCovered
    /\ AcceptedIsDerived
=============================================================================
