-------------------------------- MODULE Parser --------------------------------
(***************************************************************************)
(* ProgParser::parse of src/src/parser.rs on a text that is read piece by  *)
(* piece and may end anywhere: lalrpop_util's lexer skips the blanks and   *)
(* makes each word a token, and its state machine shifts and reduces as    *)
(* the tables say.                                                         *)
(*                                                                         *)
(* A piece of the text is a blank or the whole text of a token; a text is  *)
(* one whose pieces the lexer would find, so that two words have a blank   *)
(* between them.                                                           *)
(***************************************************************************)
EXTENDS Grammar

CONSTANTS
    StartState,                        \* the tables, with the items that LALRPOP
    Transitions, Reductions, Items,    \* made each state from; see Tables
    Blanks, Identifiers, Numerals,     \* pieces
    Width,                             \* [pieces -> bytes]
    Denotes,                           \* [Numerals -> Int]
    Offered(_)                         \* the pieces that may follow a text

ASSUME WidthAssumption ==
    \A p \in Blanks \cup Identifiers \cup Numerals \cup Terminals : Width[p] \in Nat \ {0}

States == DOMAIN Transitions

\* An item <<i, d>> of a state says that the first d symbols of Rules[i] have been
\* read: a rule that may begin has somewhere to go when it is read, a transition
\* reads one symbol of each item, and a state reduces by rules read to their end.
ASSUME TablesAssumption ==
    /\ StartState \in States /\ \A it \in Items[StartState] : it[2] = 0
    /\ \A s \in States :
          /\ \A it \in Items[s] : LET rule == Rules[it[1]]
                                IN  /\ it \in (DOMAIN Rules) \X Nat
                                    /\ Len(rule.rhs) \in Nat /\ it[2] <= Len(rule.rhs)
                                    /\ it[2] = 0 => rule.lhs \in DOMAIN Transitions[s] \cup {"__Prog"}
          /\ \A X \in DOMAIN Transitions[s] :
                /\ Transitions[s][X] \in States
                /\ \A it \in Items[Transitions[s][X]] :
                      it[2] > 0 => /\ <<it[1], it[2] - 1>> \in Items[s]
                                   /\ Rules[it[1]].rhs[it[2]] = X
          /\ \A t \in Terminals \cup {EOF} :
                \A i \in Reductions[s][t] : <<i, Len(Rules[i].rhs)>> \in Items[s]

VARIABLES
    text,                              \* the pieces read
    consumed,                          \* Matcher::consumed, an offset in bytes
    lookahead,                         \* the token in hand, if any
    states, symbols,                   \* the two stacks
    outcome

lexer == <<text, consumed>>
stacks == <<states, symbols>>
vars == <<lexer, lookahead, stacks, outcome>>

Kind(piece) ==
    CASE piece \in Identifiers -> "identifier"
      [] piece \in Numerals -> "numeral"
      [] OTHER -> piece

Token(kind, piece, l, r) == [kind |-> kind, piece |-> piece, l |-> l, r |-> r]
NoToken == Token("none", "", 0, 0)

Running == [t |-> "Running"]
Ok(prog) == [t |-> "Ok", prog |-> prog]
Fails(why) == [t |-> why]

Init ==
    /\ text = <<>> /\ consumed = 0
    /\ lookahead = NoToken
    /\ states = <<StartState>> /\ symbols = <<>>
    /\ outcome = Running

-----------------------------------------------------------------------------
(* The lexer.                                                               *)

Scanning == outcome = Running /\ lookahead = NoToken

SkipBlank ==
    /\ Scanning
    /\ \E b \in Offered(text) \cap Blanks :
          text' = Append(text, b) /\ consumed' = consumed + Width[b]
    /\ UNCHANGED <<lookahead, stacks, outcome>>

NextToken ==
    /\ Scanning
    /\ \E p \in Offered(text) \ Blanks :
          /\ Kind(p) \in Terminals
          /\ text' = Append(text, p)
          /\ consumed' = consumed + Width[p]
          /\ lookahead' = Token(Kind(p), p, consumed, consumed')
    /\ UNCHANGED <<stacks, outcome>>

\* No regular expression matches
InvalidToken ==
    /\ Scanning
    /\ \E p \in Offered(text) \ Blanks : Kind(p) \notin Terminals /\ text' = Append(text, p)
    /\ outcome' = Fails("InvalidToken")
    /\ UNCHANGED <<consumed, lookahead, stacks>>

EndOfText ==
    /\ Scanning
    /\ lookahead' = Token(EOF, "", consumed, consumed)
    /\ UNCHANGED <<lexer, stacks, outcome>>

-----------------------------------------------------------------------------
(* The state machine.                                                       *)

Top(s) == s[Len(s)]
Parsing == outcome = Running /\ lookahead # NoToken

Shiftable == lookahead.kind \in DOMAIN Transitions[Top(states)]
Applicable == Reductions[Top(states)][lookahead.kind]

\* A token of a word has its text for a value
TokenValue(token) ==
    IF token.kind = "numeral" THEN Denotes[token.piece] ELSE <<token.piece>>

Shift ==
    /\ Parsing /\ Shiftable
    /\ states' = Append(states, Transitions[Top(states)][lookahead.kind])
    /\ symbols' = Append(symbols, [sym |-> lookahead.kind, value |-> TokenValue(lookahead),
                                   l |-> lookahead.l, r |-> lookahead.r])
    /\ lookahead' = NoToken
    /\ UNCHANGED <<lexer, outcome>>

\* The last n entries of a stack, and the others
Last(s, n) == SubSeq(s, Len(s) - n + 1, Len(s))
Without(s, n) == SubSeq(s, 1, Len(s) - n)

\* Bug: nothing stands where the next token ends
SpanFromTokenEnd(popped) ==
    IF popped # <<>> THEN <<popped[1].l, Top(popped).r>>
    ELSE IF lookahead.kind # EOF THEN <<lookahead.r, lookahead.r>>
    ELSE IF symbols # <<>> THEN <<Top(symbols).r, Top(symbols).r>>
    ELSE <<0, 0>>

\* The span of what is reduced; nothing stands where the next token starts
SpanFrom(popped) ==
    IF popped # <<>> THEN <<popped[1].l, Top(popped).r>>
    ELSE IF lookahead.kind # EOF THEN <<lookahead.l, lookahead.l>>
    ELSE IF symbols # <<>> THEN <<Top(symbols).r, Top(symbols).r>>
    ELSE <<0, 0>>

FitsI64(n) == n = Wrap(n)

Reduced(rule, popped) ==
    LET span == SpanFrom(popped)
    IN  [sym |-> rule.lhs,
         value |-> Value(rule.does, [i \in DOMAIN popped |-> popped[i].value], span),
         l |-> span[1], r |-> span[2]]

Reduce ==
    /\ Parsing
    /\ \E i \in Applicable :
          LET rule == Rules[i]
              n == Len(rule.rhs)
              popped == Last(symbols, n)
              under == Without(states, n)
          IN  /\ rule.lhs # "__Prog"
              /\ rule.does = <<"i64">> => FitsI64(popped[1].value)
              /\ symbols' = Append(Without(symbols, n), Reduced(rule, popped))
              /\ states' = Append(under, Transitions[Top(under)][rule.lhs])
    /\ UNCHANGED <<lexer, lookahead, outcome>>

\* i64::from_str(s).unwrap()
LiteralPanics ==
    /\ Parsing
    /\ \E i \in Applicable : Rules[i].does = <<"i64">> /\ ~FitsI64(Top(symbols).value)
    /\ outcome' = Fails("Panic")
    /\ UNCHANGED <<lexer, lookahead, stacks>>

\* Bug: looks for the rule before the last one
AcceptRuleBefore ==
    /\ Parsing
    /\ \E i \in Applicable : Rules[i].lhs = "Prog"
    /\ outcome' = Ok(Top(symbols).value)
    /\ UNCHANGED <<lexer, lookahead, stacks>>

Accept ==
    /\ Parsing
    /\ \E i \in Applicable : Rules[i].lhs = "__Prog"
    /\ outcome' = Ok(Top(symbols).value)
    /\ UNCHANGED <<lexer, lookahead, stacks>>

Unrecognized ==
    /\ Parsing /\ ~Shiftable /\ Applicable = {}
    /\ outcome' = Fails(IF lookahead.kind = EOF THEN "UnrecognizedEOF" ELSE "UnrecognizedToken")
    /\ UNCHANGED <<lexer, lookahead, stacks>>

Next ==
    \/ SkipBlank \/ NextToken \/ InvalidToken \/ EndOfText
    \/ Shift \/ Reduce \/ LiteralPanics \/ Accept \/ Unrecognized

Spec == Init /\ [][Next]_vars /\ WF_vars(Next)

-----------------------------------------------------------------------------
(* Properties.                                                              *)

\* The two stacks tell the same story: each state is where the one below goes
\* with the symbol between them, the symbols a rule pops have the types that the
\* __pop_Variant functions expect (parser.rs:3622-3822), and the spans on the
\* stack and of the token in hand follow one another in the text.
StacksAgree ==
    /\ Len(states) = Len(symbols) + 1 /\ states[1] = StartState
    /\ \A i \in DOMAIN symbols :
          /\ states[i + 1] = Transitions[states[i]][symbols[i].sym]
          /\ symbols[i].l <= symbols[i].r /\ symbols[i].r <= consumed
          /\ i > 1 => symbols[i - 1].r <= symbols[i].l
    /\ Parsing =>
          /\ \A i \in Applicable : LET rule == Rules[i] n == Len(rule.rhs)
                                   IN  /\ n <= Len(symbols)
                                       /\ \A j \in 1 .. n : Last(symbols, n)[j].sym = rule.rhs[j]
          /\ symbols # <<>> => Top(symbols).r <= lookahead.l

-----------------------------------------------------------------------------
(* The inductive invariant: an item of a state on the stack tells which     *)
(* symbols lie below it, and the spans lie in the text one after the other. *)

TokenOK(token) ==
    \/ token = NoToken
    \/ /\ token.kind \in Terminals \cup {EOF}
       /\ token.l \in Nat /\ token.r \in Nat /\ token.l <= token.r /\ token.r <= consumed

StacksMatch(sts, syms) ==
    /\ IsSeq(sts) /\ IsSeq(syms) /\ Len(sts) = Len(syms) + 1
    /\ sts[1] = StartState
    /\ \A i \in DOMAIN syms :
          /\ syms[i].sym \in DOMAIN Transitions[sts[i]]
          /\ sts[i + 1] = Transitions[sts[i]][syms[i].sym]
    /\ \A k \in DOMAIN sts : sts[k] \in States

\* An item <<i, d>> of the state k from the bottom has come up from the state where
\* the rule began, through the symbols read since
Behind(sts, syms, k, i, d) ==
    /\ d < k
    /\ \A j \in 0 .. d : <<i, j>> \in Items[sts[k - d + j]]
    /\ \A j \in 1 .. d : syms[k - 1 - d + j].sym = Rules[i].rhs[j]

ItemsBehind(sts, syms) ==
    \A k \in DOMAIN sts : \A it \in Items[sts[k]] : Behind(sts, syms, k, it[1], it[2])

\* limit is where the token in hand starts, or the text read ends
SpansInOrder(syms, limit) ==
    /\ \A i \in DOMAIN syms :
          /\ syms[i].l \in Nat /\ syms[i].r \in Nat
          /\ syms[i].l <= syms[i].r /\ syms[i].r <= limit
    /\ \A i, j \in DOMAIN syms : i < j => syms[i].r <= syms[j].l

Limit == IF lookahead = NoToken THEN consumed ELSE lookahead.l

IInv ==
    /\ consumed \in Nat
    /\ TokenOK(lookahead)
    /\ StacksMatch(states, symbols)
    /\ ItemsBehind(states, symbols)
    /\ SpansInOrder(symbols, Limit)
=============================================================================
