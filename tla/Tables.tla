-------------------------------- MODULE Tables --------------------------------
(***************************************************************************)
(* The tables __ACTION, __EOF_ACTION and __goto of src/src/parser.rs.      *)
(*                                                                         *)
(* LALRPOP computed them from the productions; for this grammar they are   *)
(* the SLR(1) automaton.  A state, a number from 0 to 99 in the code, is   *)
(* here the items it stands for: an item <<i, d>> says that the first d    *)
(* symbols of Rules[i] are on the stack.  Items with d = 0 follow from the *)
(* others and are left out of a state, but for the first.                  *)
(***************************************************************************)
EXTENDS Grammar, FiniteSets

AtEnd(item) == item[2] = Len(Rules[item[1]].rhs)
Expected(item) == Rules[item[1]].rhs[item[2] + 1]
Expecting(items) == {it \in items : ~AtEnd(it)}

StartItems == {<<i, 0>> : i \in {i \in DOMAIN Rules : Rules[i].lhs = "__Prog"}}

\* With a nonterminal, the beginnings of its productions are expected
RECURSIVE Closure(_)
Closure(items) ==
    LET wanted == {Expected(it) : it \in Expecting(items)}
        all == items \cup {<<i, 0>> : i \in {i \in DOMAIN Rules : Rules[i].lhs \in wanted}}
    IN  IF all = items THEN items ELSE Closure(all)

Advance(items, X) == {<<it[1], it[2] + 1>> : it \in {it \in Expecting(items) : Expected(it) = X}}

RECURSIVE ReachedFrom(_)
ReachedFrom(known) ==
    LET next == UNION {LET I == Closure(s) IN {Advance(I, Expected(it)) : it \in Expecting(I)} :
                       s \in known}
    IN  IF next \subseteq known THEN known ELSE ReachedFrom(known \cup next)

ItemSets == ReachedFrom({StartItems})

\* What may come next in each state
AllItems == [s \in ItemSets |-> Closure(s)]

\* Shifts and gotos: where each state goes with each symbol
ShiftsAndGotos ==
    [s \in ItemSets |->
        LET I == Closure(s)
        IN  [X \in {Expected(it) : it \in Expecting(I)} |-> Advance(I, X)]]

-----------------------------------------------------------------------------
(* Which tokens may follow a nonterminal.                                   *)

RECURSIVE Reach(_, _)
Reach(pairs, from) ==
    LET more == {p[2] : p \in {p \in pairs : p[1] \in from}}
    IN  IF more \subseteq from THEN from ELSE Reach(pairs, from \cup more)

Nullable(X) == \E i \in DOMAIN Rules : Rules[i].lhs = X /\ Rules[i].rhs = <<>>
NullableBetween(rhs, j, k) == \A m \in j + 1 .. k - 1 : Nullable(rhs[m])

\* <<rule, j, k>>: the symbols between places j and k of the rule may be empty
Gaps ==
    UNION {{<<i, j, k>> : j \in 0 .. Len(Rules[i].rhs), k \in 1 .. Len(Rules[i].rhs) + 1} :
           i \in DOMAIN Rules}
Bridges == {p \in Gaps : p[2] < p[3] /\ NullableBetween(Rules[p[1]].rhs, p[2], p[3])}

Begins ==
    {<<Rules[p[1]].lhs, Rules[p[1]].rhs[p[3]]>> :
     p \in {p \in Bridges : p[2] = 0 /\ p[3] <= Len(Rules[p[1]].rhs)}}
EndsIn ==
    {<<Rules[p[1]].rhs[p[2]], Rules[p[1]].lhs>> :
     p \in {p \in Bridges : p[2] > 0 /\ p[3] = Len(Rules[p[1]].rhs) + 1}}
Adjacent ==
    {<<Rules[p[1]].rhs[p[2]], Rules[p[1]].rhs[p[3]]>> :
     p \in {p \in Bridges : p[2] > 0 /\ p[3] <= Len(Rules[p[1]].rhs)}}

Follow ==
    [X \in Nonterminals |->
        LET enders == Reach(EndsIn, {X})
            next == UNION {Reach(Begins, {p[2]}) : p \in {p \in Adjacent : p[1] \in enders}}
        IN  (next \cap Terminals) \cup (IF "__Prog" \in enders THEN {EOF} ELSE {})]

\* The rules that each state reduces with, at each token
ReducesBy ==
    [s \in ItemSets |->
        LET done == {it[1] : it \in {it \in Closure(s) : AtEnd(it)}}
        IN  [t \in Terminals \cup {EOF} |-> {i \in done : t \in Follow[Rules[i].lhs]}]]
=============================================================================
