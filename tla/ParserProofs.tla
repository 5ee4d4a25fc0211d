----------------------------- MODULE ParserProofs -----------------------------
(***************************************************************************)
(* What holds of the parser for any tables that were made from the items   *)
(* of the grammar, any words and any text.  Of its two stacks: no          *)
(* reduction ever pops a symbol of another kind than its rule names, or    *)
(* finds no goto, and spans follow one another in the text.  Of its        *)
(* answer: what it accepts is derived by the productions from the words    *)
(* of the text.  And of its spans: lexer.rs finds a line and a column for  *)
(* each of them.                                                           *)
(***************************************************************************)
EXTENDS Derivations, Positions, Lemmas, FiniteSetTheorems

-----------------------------------------------------------------------------
(* The stacks.                                                              *)

\* What the tables say of a state and of where it goes.
LEMMA FromTables ==
    ASSUME NEW s \in States
    PROVE  /\ \A it \in Items[s] :
                 /\ it \in (DOMAIN Rules) \X Nat
                 /\ Len(Rules[it[1]].rhs) \in Nat /\ it[2] <= Len(Rules[it[1]].rhs)
                 /\ it[2] = 0 => Rules[it[1]].lhs \in DOMAIN Transitions[s] \cup {"__Prog"}
           /\ \A X \in DOMAIN Transitions[s] :
                 /\ Transitions[s][X] \in States
                 /\ \A it \in Items[Transitions[s][X]] :
                       it[2] > 0 => /\ <<it[1], it[2] - 1>> \in Items[s]
                                    /\ Rules[it[1]].rhs[it[2]] = X
           /\ \A t \in Terminals \cup {EOF} :
                 \A i \in Reductions[s][t] : <<i, Len(Rules[i].rhs)>> \in Items[s]
BY TablesAssumption, Zenon

\* A pair is its two parts.
LEMMA PairShape ==
    ASSUME NEW A, NEW B, NEW p \in A \X B
    PROVE  p = <<p[1], p[2]>> /\ p[2] \in B
OBVIOUS

\* An item is a rule and a number.
LEMMA ItemShape ==
    ASSUME NEW s \in States, NEW it \in Items[s]
    PROVE  it = <<it[1], it[2]>> /\ it[2] \in Nat
<1>1. it \in (DOMAIN Rules) \X Nat
  BY FromTables
<1> QED
  BY <1>1, PairShape, Zenon

\* Pushing a symbol, with the state that the top state goes to with it.
LEMMA PushKeepsMatch ==
    ASSUME NEW sts, NEW syms, NEW e, StacksMatch(sts, syms),
           e.sym \in DOMAIN Transitions[Top(sts)]
    PROVE  StacksMatch(Append(sts, Transitions[Top(sts)][e.sym]), Append(syms, e))
<1> DEFINE s == Transitions[Top(sts)][e.sym]
           sts2 == Append(sts, s)
           syms2 == Append(syms, e)
           n == Len(syms)
<1>1. /\ IsSeq(sts) /\ IsSeq(syms) /\ Len(sts) = n + 1 /\ sts[1] = StartState
      /\ n \in Nat /\ DOMAIN sts = 1 .. n + 1 /\ DOMAIN syms = 1 .. n
  BY IsSeqDomain DEF StacksMatch
<1>2. /\ IsSeq(sts2) /\ Len(sts2) = n + 2 /\ DOMAIN sts2 = 1 .. n + 2
      /\ \A i \in 1 .. n + 1 : sts2[i] = sts[i]
      /\ sts2[n + 2] = s
  <2> HIDE DEF s
  <2> QED
    BY <1>1, PushedVector
<1>3. /\ IsSeq(syms2) /\ Len(syms2) = n + 1 /\ DOMAIN syms2 = 1 .. n + 1
      /\ \A i \in 1 .. n : syms2[i] = syms[i]
      /\ syms2[n + 1] = e
  BY <1>1, PushedVector
<1>4. sts[n + 1] \in States /\ Top(sts) = sts[n + 1]
  BY <1>1 DEF StacksMatch, Top
<1>5. s \in States
  BY <1>4, FromTables
<1>6. ASSUME NEW i \in DOMAIN syms2
      PROVE  /\ syms2[i].sym \in DOMAIN Transitions[sts2[i]]
             /\ sts2[i + 1] = Transitions[sts2[i]][syms2[i].sym]
  <2>1. CASE i \in 1 .. n
    <3>1. i \in 1 .. n + 1 /\ i + 1 \in 1 .. n + 1
      BY <1>1, <2>1
    <3> QED
      BY <1>1, <1>2, <1>3, <2>1, <3>1 DEF StacksMatch
  <2>2. CASE i = n + 1
    <3>1. n + 1 \in 1 .. n + 1 /\ (n + 1) + 1 = n + 2
      BY <1>1
    <3> QED
      BY <1>2, <1>3, <1>4, <2>2, <3>1
  <2> QED
    BY <1>1, <1>3, <2>1, <2>2
<1>7. ASSUME NEW k \in DOMAIN sts2 PROVE sts2[k] \in States
  <2>1. k \in 1 .. n + 1 \/ k = n + 2
    BY <1>1, <1>2
  <2> QED
    BY <1>1, <1>2, <1>5, <2>1 DEF StacksMatch
<1>8. sts2[1] = StartState /\ Len(sts2) = Len(syms2) + 1
  <2>1. 1 \in 1 .. n + 1 /\ (n + 1) + 1 = n + 2
    BY <1>1
  <2> QED
    BY <1>1, <1>2, <1>3, <2>1
<1> HIDE DEF s, sts2, syms2
<1>9. StacksMatch(sts2, syms2)
  BY <1>2, <1>3, <1>6, <1>7, <1>8 DEF StacksMatch
<1> QED
  BY <1>9 DEF s, sts2, syms2

\* Where a state goes with a symbol.
LEMMA GotoItems ==
    ASSUME NEW s \in States, NEW X \in DOMAIN Transitions[s],
           NEW it \in Items[Transitions[s][X]], it[2] > 0
    PROVE  <<it[1], it[2] - 1>> \in Items[s] /\ Rules[it[1]].rhs[it[2]] = X
BY FromTables, Zenon

\* A rule that may begin has nothing behind it.
LEMMA BehindNothing ==
    ASSUME NEW sts, NEW syms, NEW k \in Nat, k > 0, NEW i, <<i, 0>> \in Items[sts[k]]
    PROVE  Behind(sts, syms, k, i, 0)
<1>1. k - 0 + 0 = k /\ (\A j \in 0 .. 0 : j = 0) /\ (\A j \in 1 .. 0 : FALSE)
  OBVIOUS
<1> QED
  BY <1>1 DEF Behind

\* What is behind an item when one more of its symbols has been read.
LEMMA BehindOneMore ==
    ASSUME NEW sts, NEW syms, NEW sts2, NEW syms2,
           NEW k \in Nat, NEW i, NEW d \in Nat, Behind(sts, syms, k, i, d),
           \A m \in 1 .. k : sts2[m] = sts[m],
           \A m \in 1 .. k - 1 : syms2[m] = syms[m],
           <<i, d + 1>> \in Items[sts2[k + 1]],
           Rules[i].rhs[d + 1] = syms2[k].sym
    PROVE  Behind(sts2, syms2, k + 1, i, d + 1)
<1>1. d < k /\ d + 1 < k + 1
  BY DEF Behind
<1>2. ASSUME NEW j \in 0 .. d + 1 PROVE <<i, j>> \in Items[sts2[k + 1 - (d + 1) + j]]
  <2>1. CASE j = d + 1
    <3>1. k + 1 - (d + 1) + j = k + 1
      BY <2>1
    <3> QED
      BY <2>1, <3>1
  <2>2. CASE j \in 0 .. d
    <3>1. k + 1 - (d + 1) + j = k - d + j /\ k - d + j \in 1 .. k
      BY <1>1, <2>2
    <3> QED
      BY <2>2, <3>1 DEF Behind
  <2> QED
    BY <2>1, <2>2
<1>3. ASSUME NEW j \in 1 .. d + 1 PROVE syms2[k + 1 - 1 - (d + 1) + j].sym = Rules[i].rhs[j]
  <2>1. CASE j = d + 1
    <3>1. k + 1 - 1 - (d + 1) + j = k
      BY <2>1
    <3> QED
      BY <2>1, <3>1
  <2>2. CASE j \in 1 .. d
    <3>1. k + 1 - 1 - (d + 1) + j = k - 1 - d + j /\ k - 1 - d + j \in 1 .. k - 1
      BY <1>1, <2>2
    <3> QED
      BY <2>2, <3>1 DEF Behind
  <2> QED
    BY <2>1, <2>2
<1> QED
  BY <1>1, <1>2, <1>3 DEF Behind

\* The items of the new state come from those of the one below it.
LEMMA PushKeepsItems ==
    ASSUME NEW sts, NEW syms, NEW e, StacksMatch(sts, syms), ItemsBehind(sts, syms),
           e.sym \in DOMAIN Transitions[Top(sts)]
    PROVE  ItemsBehind(Append(sts, Transitions[Top(sts)][e.sym]), Append(syms, e))
<1> DEFINE top == Transitions[Top(sts)][e.sym]
           sts2 == Append(sts, top)
           syms2 == Append(syms, e)
           n == Len(syms)
<1>1. /\ IsSeq(sts) /\ IsSeq(syms) /\ Len(sts) = n + 1
      /\ n \in Nat /\ DOMAIN sts = 1 .. n + 1 /\ DOMAIN syms = 1 .. n
  BY IsSeqDomain DEF StacksMatch
<1>2. /\ DOMAIN sts2 = 1 .. n + 2
      /\ \A i \in 1 .. n + 1 : sts2[i] = sts[i]
      /\ sts2[n + 2] = top
  <2> HIDE DEF top
  <2> QED
    BY <1>1, PushedVector
<1>3. /\ \A i \in 1 .. n : syms2[i] = syms[i]
      /\ syms2[n + 1] = e
  BY <1>1, PushedVector
<1>4. sts[n + 1] \in States /\ Top(sts) = sts[n + 1] /\ top \in States
  BY <1>1, FromTables DEF StacksMatch, Top
<1>5. ASSUME NEW it \in Items[top], it[2] > 0
      PROVE  <<it[1], it[2] - 1>> \in Items[sts[n + 1]] /\ Rules[it[1]].rhs[it[2]] = e.sym
  <2>1. e.sym \in DOMAIN Transitions[sts[n + 1]] /\ top = Transitions[sts[n + 1]][e.sym]
    BY <1>4, Zenon
  <2>2. sts[n + 1] \in States
    BY <1>4
  <2> HIDE DEF top, n
  <2> QED
    BY <1>5, <2>1, <2>2, GotoItems
<1> HIDE DEF top, sts2, syms2, n
<1>6. ASSUME NEW k \in 1 .. n + 1, NEW it \in Items[sts[k]]
      PROVE  it[2] \in Nat /\ Behind(sts, syms, k, it[1], it[2])
  <2>1. sts[k] \in States
    BY <1>1 DEF StacksMatch
  <2> QED
    BY <1>1, <2>1, ItemShape DEF ItemsBehind
<1>7. ASSUME NEW k \in 1 .. n + 1, NEW it \in Items[sts2[k]]
      PROVE  Behind(sts2, syms2, k, it[1], it[2])
  <2>1. it \in Items[sts[k]]
    BY <1>2
  <2>2. it[2] \in Nat /\ Behind(sts, syms, k, it[1], it[2])
    BY <1>6, <2>1
  <2>3. it[2] < k
    BY <2>2 DEF Behind
  <2>4. \A j \in 0 .. it[2] : k - it[2] + j \in 1 .. n + 1
    BY <1>1, <2>2, <2>3
  <2>5. \A j \in 1 .. it[2] : k - 1 - it[2] + j \in 1 .. n
    BY <1>1, <2>2, <2>3
  <2> QED
    BY <1>2, <1>3, <2>2, <2>4, <2>5 DEF Behind
<1>8. ASSUME NEW it \in Items[top]
      PROVE  Behind(sts2, syms2, n + 2, it[1], it[2])
  <2>1. it[2] \in Nat /\ it = <<it[1], it[2]>>
    BY <1>4, ItemShape
  <2>2. n + 2 \in Nat /\ n + 2 > 0
    BY <1>1
  <2>3. CASE it[2] = 0
    <3>1. <<it[1], 0>> \in Items[sts2[n + 2]]
      BY <1>2, <2>1, <2>3
    <3>2. Behind(sts2, syms2, n + 2, it[1], 0)
      BY <2>2, <3>1, BehindNothing
    <3> QED
      BY <2>3, <3>2
  <2>4. CASE it[2] > 0
    <3>1. <<it[1], it[2] - 1>> \in Items[sts[n + 1]] /\ Rules[it[1]].rhs[it[2]] = e.sym
      BY <1>5, <2>4
    <3>2. PICK dot \in Nat : it[2] = dot + 1
      <4>1. it[2] - 1 \in Nat /\ it[2] = (it[2] - 1) + 1
        BY <2>1, <2>4
      <4> QED
        BY <4>1
    <3>3. PICK i : i = it[1]
      OBVIOUS
    <3>4. <<i, dot>> \in Items[sts[n + 1]] /\ Rules[i].rhs[dot + 1] = syms2[n + 1].sym
      <4>1. it[2] - 1 = dot
        BY <3>2
      <4> QED
        BY <1>3, <3>1, <3>2, <3>3, <4>1
    <3>5. Behind(sts, syms, n + 1, i, dot)
      <4>1. n + 1 \in 1 .. n + 1 /\ <<i, dot>>[1] = i /\ <<i, dot>>[2] = dot
        BY <1>1
      <4> QED
        BY <1>6, <3>4, <4>1
    <3>6. <<i, dot + 1>> \in Items[sts2[(n + 1) + 1]]
      <4>1. (n + 1) + 1 = n + 2
        BY <1>1
      <4> QED
        BY <1>2, <2>1, <3>2, <3>3, <4>1
    <3>7. \A m \in 1 .. (n + 1) - 1 : syms2[m] = syms[m]
      BY <1>1, <1>3
    <3>8. Behind(sts2, syms2, (n + 1) + 1, i, dot + 1)
      <4>1. n + 1 \in Nat
        BY <1>1
      <4> QED
        BY <1>2, <3>2, <3>4, <3>5, <3>6, <3>7, <4>1, BehindOneMore
    <3>9. (n + 1) + 1 = n + 2
      BY <1>1
    <3> QED
      BY <3>2, <3>3, <3>8, <3>9
  <2> QED
    BY <2>1, <2>3, <2>4
<1>9. ItemsBehind(sts2, syms2)
  <2>1. SUFFICES ASSUME NEW k \in DOMAIN sts2, NEW it \in Items[sts2[k]]
                 PROVE  Behind(sts2, syms2, k, it[1], it[2])
    BY DEF ItemsBehind
  <2>2. k \in 1 .. n + 1 \/ k = n + 2
    BY <1>1, <1>2
  <2> QED
    BY <1>2, <1>7, <1>8, <2>2
<1> QED
  BY <1>9 DEF top, sts2, syms2

\* Popping the last n symbols and states.
LEMMA PopKeeps ==
    ASSUME NEW sts, NEW syms, StacksMatch(sts, syms), ItemsBehind(sts, syms),
           NEW n \in 0 .. Len(syms)
    PROVE  /\ StacksMatch(Without(sts, n), Without(syms, n))
           /\ ItemsBehind(Without(sts, n), Without(syms, n))
           /\ Top(Without(sts, n)) = sts[Len(sts) - n]
<1> DEFINE m == Len(syms) - n
           sts2 == SubSeq(sts, 1, m + 1)
           syms2 == SubSeq(syms, 1, m)
<1>1. /\ IsSeq(sts) /\ IsSeq(syms) /\ Len(sts) = Len(syms) + 1 /\ Len(syms) \in Nat
      /\ DOMAIN sts = 1 .. Len(syms) + 1 /\ DOMAIN syms = 1 .. Len(syms)
  BY IsSeqDomain DEF StacksMatch
<1>2. /\ m \in Nat /\ m \in 0 .. Len(syms) /\ m + 1 \in 0 .. Len(sts)
      /\ Len(sts) - n = m + 1
  BY <1>1
<1>3. Without(sts, n) = sts2 /\ Without(syms, n) = syms2
  BY <1>2 DEF Without
<1> HIDE DEF m
<1>4. /\ IsSeq(sts2) /\ Len(sts2) = m + 1 /\ DOMAIN sts2 = 1 .. m + 1
      /\ \A i \in 1 .. m + 1 : sts2[i] = sts[i]
  BY <1>1, <1>2, PrefixOfVector
<1>5. /\ IsSeq(syms2) /\ Len(syms2) = m /\ DOMAIN syms2 = 1 .. m
      /\ \A i \in 1 .. m : syms2[i] = syms[i]
  BY <1>1, <1>2, PrefixOfVector
<1> HIDE DEF sts2, syms2
<1>6. \A k \in 1 .. m + 1 : k \in DOMAIN sts
  BY <1>1, <1>2
<1>7. \A i \in 1 .. m : i \in DOMAIN syms /\ i \in 1 .. m + 1 /\ i + 1 \in 1 .. m + 1
  BY <1>1, <1>2
<1>8. StacksMatch(sts2, syms2)
  <2>1. 1 \in 1 .. m + 1
    BY <1>2
  <2> QED
    BY <1>4, <1>5, <1>6, <1>7, <2>1 DEF StacksMatch
<1>9. ItemsBehind(sts2, syms2)
  <2>1. SUFFICES ASSUME NEW k \in 1 .. m + 1, NEW it \in Items[sts2[k]]
                 PROVE  Behind(sts2, syms2, k, it[1], it[2])
    BY <1>4 DEF ItemsBehind
  <2>2. k \in DOMAIN sts /\ it \in Items[sts[k]] /\ sts[k] \in States
    BY <1>4, <1>6 DEF StacksMatch
  <2>3. it[2] \in Nat /\ Behind(sts, syms, k, it[1], it[2])
    BY <2>2, ItemShape DEF ItemsBehind
  <2> DEFINE dot == it[2]
  <2> HIDE DEF dot
  <2>4. dot \in Nat /\ Behind(sts, syms, k, it[1], dot)
    BY <2>3 DEF dot
  <2>5. \A j \in 0 .. dot : k - dot + j \in 1 .. m + 1
    BY <1>2, <2>4 DEF Behind
  <2>6. \A j \in 1 .. dot : k - 1 - dot + j \in 1 .. m
    BY <1>2, <2>4 DEF Behind
  <2>7. Behind(sts2, syms2, k, it[1], dot)
    BY <1>4, <1>5, <2>4, <2>5, <2>6 DEF Behind
  <2> QED
    BY <2>7 DEF dot
<1>10. Top(sts2) = sts[m + 1]
  BY <1>2, <1>4 DEF Top
<1> QED
  BY <1>2, <1>3, <1>8, <1>9, <1>10

\* What a rule that may be reduced finds on the stacks.
LEMMA ReducibleRule ==
    ASSUME StacksMatch(states, symbols), ItemsBehind(states, symbols),
           lookahead.kind \in Terminals \cup {EOF}, NEW i \in Applicable
    PROVE  LET rule == Rules[i]
               n == Len(rule.rhs)
           IN  /\ n \in 0 .. Len(symbols)
               /\ \A j \in 1 .. n : Last(symbols, n)[j].sym = rule.rhs[j]
               /\ rule.lhs \in DOMAIN Transitions[Top(Without(states, n))] \cup {"__Prog"}
<1> DEFINE rule == Rules[i]
           n == Len(rule.rhs)
           k == Len(states)
<1>1. /\ IsSeq(symbols) /\ k = Len(symbols) + 1 /\ Len(symbols) \in Nat
      /\ DOMAIN states = 1 .. k /\ k \in DOMAIN states
  BY IsSeqDomain DEF StacksMatch
<1>2. states[k] \in States /\ Top(states) = states[k]
  BY <1>1 DEF StacksMatch, Top
<1>3. <<i, n>> \in Items[states[k]]
  BY <1>2, FromTables DEF Applicable
<1>4. n \in Nat /\ <<i, n>>[1] = i /\ <<i, n>>[2] = n
  BY <1>2, <1>3, FromTables
<1> HIDE DEF n
<1>5. Behind(states, symbols, k, i, n)
  <2>1. Behind(states, symbols, k, <<i, n>>[1], <<i, n>>[2])
    BY <1>1, <1>3 DEF ItemsBehind
  <2> QED
    BY <1>4, <2>1
<1>6. n \in 0 .. Len(symbols)
  BY <1>1, <1>4, <1>5 DEF Behind
<1>7. ASSUME NEW j \in 1 .. n PROVE Last(symbols, n)[j].sym = rule.rhs[j]
  <2>1. Last(symbols, n)[j] = symbols[Len(symbols) - n + j]
    BY <1>1, <1>6, SuffixOfVector DEF Last
  <2>2. Len(symbols) - n + j = k - 1 - n + j
    BY <1>1, <1>4
  <2> QED
    BY <1>5, <2>1, <2>2 DEF Behind
<1>8. rule.lhs \in DOMAIN Transitions[Top(Without(states, n))] \cup {"__Prog"}
  <2> DEFINE m == k - n
  <2>1. Top(Without(states, n)) = states[m]
    BY <1>6, PopKeeps
  <2>2. m \in 1 .. k /\ k - n + 0 = m /\ 0 \in 0 .. n
    BY <1>1, <1>6
  <2>3. <<i, 0>> \in Items[states[m]]
    BY <1>5, <2>2 DEF Behind
  <2>4. states[m] \in States
    BY <1>1, <2>2 DEF StacksMatch
  <2> HIDE DEF m
  <2>5. <<i, 0>>[1] = i /\ <<i, 0>>[2] = 0
    OBVIOUS
  <2>6. Rules[i].lhs \in DOMAIN Transitions[states[m]] \cup {"__Prog"}
    BY <2>3, <2>4, <2>5, FromTables
  <2> QED
    BY <2>1, <2>6
<1> QED
  BY <1>6, <1>7, <1>8 DEF n

-----------------------------------------------------------------------------
(* The spans.                                                               *)

\* A symbol pushed after what lies below it.
LEMMA SpansPush ==
    ASSUME NEW syms, IsSeq(syms), NEW a \in Nat, NEW b \in Nat, a <= b,
           SpansInOrder(syms, a), NEW e,
           e.l \in Nat, e.r \in Nat, e.l <= e.r, e.r <= b,
           \A i \in DOMAIN syms : syms[i].r <= e.l
    PROVE  SpansInOrder(Append(syms, e), b)
<1> DEFINE syms2 == Append(syms, e)
           n == Len(syms)
<1>1. n \in Nat /\ DOMAIN syms = 1 .. n
  BY IsSeqDomain
<1>2. /\ DOMAIN syms2 = 1 .. n + 1
      /\ \A i \in 1 .. n : syms2[i] = syms[i]
      /\ syms2[n + 1] = e
  BY <1>1, PushedVector
<1> HIDE DEF syms2, n
<1>3. \A i \in 1 .. n + 1 : i \in 1 .. n \/ i = n + 1
  BY <1>1
<1>4. ASSUME NEW i \in DOMAIN syms2
      PROVE  /\ syms2[i].l \in Nat /\ syms2[i].r \in Nat
             /\ syms2[i].l <= syms2[i].r /\ syms2[i].r <= b
  <2>1. CASE i \in 1 .. n
    <3>1. /\ syms[i].l \in Nat /\ syms[i].r \in Nat
          /\ syms[i].l <= syms[i].r /\ syms[i].r <= a
      BY <1>1, <2>1 DEF SpansInOrder
    <3> QED
      BY <1>2, <2>1, <3>1
  <2>2. CASE i = n + 1
    BY <1>2, <2>2
  <2> QED
    BY <1>2, <1>3, <2>1, <2>2
<1>5. ASSUME NEW i \in DOMAIN syms2, NEW j \in DOMAIN syms2, i < j
      PROVE  syms2[i].r <= syms2[j].l
  <2>1. i \in 1 .. n
    BY <1>1, <1>2, <1>5
  <2>2. CASE j \in 1 .. n
    BY <1>1, <1>2, <1>5, <2>1, <2>2 DEF SpansInOrder
  <2>3. CASE j = n + 1
    BY <1>1, <1>2, <2>1, <2>3
  <2> QED
    BY <1>2, <1>3, <2>2, <2>3
<1>6. SpansInOrder(syms2, b)
  BY <1>4, <1>5 DEF SpansInOrder
<1> QED
  BY <1>6 DEF syms2

\* Popping leaves the symbols below where they were.
LEMMA SpansPop ==
    ASSUME NEW syms, IsSeq(syms), NEW a, SpansInOrder(syms, a), NEW n \in 0 .. Len(syms)
    PROVE  /\ SpansInOrder(Without(syms, n), a)
           /\ IsSeq(Without(syms, n))
           /\ DOMAIN Without(syms, n) = 1 .. Len(syms) - n
           /\ \A i \in 1 .. Len(syms) - n : i \in DOMAIN syms /\ Without(syms, n)[i] = syms[i]
<1> DEFINE m == Len(syms) - n
           syms2 == SubSeq(syms, 1, m)
<1>1. Len(syms) \in Nat /\ DOMAIN syms = 1 .. Len(syms) /\ m \in 0 .. Len(syms)
  BY IsSeqDomain
<1> HIDE DEF m
<1>2. /\ IsSeq(syms2) /\ DOMAIN syms2 = 1 .. m
      /\ \A i \in 1 .. m : syms2[i] = syms[i]
  BY <1>1, PrefixOfVector
<1> HIDE DEF syms2
<1>3. \A i \in 1 .. m : i \in DOMAIN syms
  BY <1>1
<1>4. SpansInOrder(syms2, a)
  BY <1>2, <1>3 DEF SpansInOrder
<1>5. Without(syms, n) = syms2
  BY DEF Without, syms2, m
<1> QED
  BY <1>2, <1>3, <1>4, <1>5 DEF m

\* What lies within a bound lies within a wider one.
LEMMA SpansWithin ==
    ASSUME NEW syms, NEW a \in Nat, NEW b \in Nat, a <= b, SpansInOrder(syms, a)
    PROVE  SpansInOrder(syms, b)
BY DEF SpansInOrder

\* What is reduced stands between what stays on the stack and the token in hand.
LEMMA ReducedSpan ==
    ASSUME NEW a \in Nat, SpansInOrder(symbols, a), IsSeq(symbols),
           lookahead.kind # EOF => lookahead.l = a,
           NEW n \in 0 .. Len(symbols)
    PROVE  LET span == SpanFrom(Last(symbols, n))
           IN  /\ span[1] \in Nat /\ span[2] \in Nat /\ span[1] <= span[2] /\ span[2] <= a
               /\ \A i \in 1 .. Len(symbols) - n : symbols[i].r <= span[1]
<1> DEFINE popped == Last(symbols, n)
           k == Len(symbols)
           Stands(l, r) == /\ l \in Nat /\ r \in Nat /\ l <= r /\ r <= a
                           /\ \A i \in 1 .. k - n : symbols[i].r <= l
           span == SpanFrom(popped)
<1>1. k \in Nat /\ DOMAIN symbols = 1 .. k /\ n \in Nat /\ n <= k
  BY IsSeqDomain
<1>2. /\ IsSeq(popped) /\ Len(popped) = n
      /\ \A i \in 1 .. n : popped[i] = symbols[k - n + i]
  BY SuffixOfVector DEF Last
<1>3. popped # <<>> <=> n >= 1
  BY <1>2, VectorNotEmpty
<1>4. symbols # <<>> <=> k >= 1
  BY VectorNotEmpty
<1>5. /\ \A i \in 1 .. k : /\ symbols[i].l \in Nat /\ symbols[i].r \in Nat
                           /\ symbols[i].l <= symbols[i].r /\ symbols[i].r <= a
      /\ \A i, j \in 1 .. k : i < j => symbols[i].r <= symbols[j].l
  BY <1>1 DEF SpansInOrder
<1> SUFFICES Stands(span[1], span[2])
  OBVIOUS
<1>6. CASE popped # <<>>
  <2>1. span = <<popped[1].l, popped[n].r>>
    BY <1>2, <1>6 DEF SpanFrom, Top
  <2>2. /\ n >= 1 /\ k - n + 1 \in 1 .. k /\ k - n + n = k /\ k \in 1 .. k
        /\ 1 \in 1 .. n /\ n \in 1 .. n
    BY <1>1, <1>3, <1>6
  <2>3. popped[1] = symbols[k - n + 1] /\ popped[n] = symbols[k]
    BY <1>2, <2>2
  <2> DEFINE first == k - n + 1
  <2>4. \A i \in 1 .. k - n : i \in 1 .. k /\ i < first
    BY <1>1
  <2>5. first \in 1 .. k /\ (first = k \/ first < k)
    BY <1>1, <2>2
  <2> HIDE DEF first, k, popped, span
  <2>6. /\ symbols[first].l \in Nat /\ symbols[first].r \in Nat
        /\ symbols[first].l <= symbols[first].r
        /\ symbols[k].l \in Nat /\ symbols[k].r \in Nat
        /\ symbols[k].l <= symbols[k].r /\ symbols[k].r <= a
    BY <1>5, <2>2, <2>5
  <2>7. first = k \/ symbols[first].r <= symbols[k].l
    BY <1>5, <2>2, <2>5
  <2>8. symbols[first].l <= symbols[k].r
    BY <2>6, <2>7
  <2>9. \A i \in 1 .. k - n : symbols[i].r <= symbols[first].l
    BY <1>5, <2>4, <2>5
  <2> QED
    BY <2>1, <2>3, <2>6, <2>8, <2>9 DEF first
<1>7. CASE popped = <<>> /\ lookahead.kind # EOF
  <2>1. span[1] = a /\ span[2] = a
    BY <1>7 DEF SpanFrom
  <2>2. \A i \in 1 .. k - n : i \in 1 .. k
    BY <1>1
  <2> HIDE DEF k, popped, span
  <2> QED
    BY <1>5, <2>1, <2>2
<1>8. CASE popped = <<>> /\ lookahead.kind = EOF /\ symbols # <<>>
  <2>1. span[1] = symbols[k].r /\ span[2] = symbols[k].r
    BY <1>8 DEF SpanFrom, Top
  <2>2. k >= 1
    BY <1>4, <1>8
  <2>3. k \in 1 .. k /\ \A i \in 1 .. k - n : i \in 1 .. k /\ (i = k \/ i < k)
    <3> HIDE DEF k
    <3> QED
      BY <1>1, <2>2
  <2> HIDE DEF k, popped, span
  <2> QED
    BY <1>5, <2>1, <2>3, SMTT(60)
<1>9. CASE popped = <<>> /\ lookahead.kind = EOF /\ symbols = <<>>
  <2>1. span[1] = 0 /\ span[2] = 0
    BY <1>9 DEF SpanFrom
  <2>2. \A i \in 1 .. k - n : FALSE
    BY <1>1, <1>4, <1>9
  <2> HIDE DEF k, popped, span
  <2> QED
    BY <2>1, <2>2
<1> QED
  BY <1>6, <1>7, <1>8, <1>9

-----------------------------------------------------------------------------
(* The invariant.                                                           *)

\* Where the token in hand starts, or the text read ends.
LEMMA LimitBounds ==
    ASSUME IInv
    PROVE  /\ Limit \in Nat /\ Limit <= consumed /\ consumed \in Nat
           /\ Parsing => /\ lookahead.kind \in Terminals \cup {EOF}
                         /\ lookahead.l \in Nat /\ lookahead.r \in Nat
                         /\ lookahead.l <= lookahead.r /\ lookahead.r <= consumed
                         /\ Limit = lookahead.l
BY DEF IInv, TokenOK, Limit, Parsing

\* At first the stack holds the start state alone, and no item of it has moved.
LEMMA InitIInv == Init => IInv
<1> SUFFICES ASSUME Init PROVE IInv
  OBVIOUS
<1>1. consumed = 0 /\ lookahead = NoToken /\ states = <<StartState>> /\ symbols = <<>>
  BY DEF Init
<1>2. StacksMatch(states, symbols)
  <2>1. IsSeq(<<StartState>>) /\ IsSeq(<<>>)
    <3>1. <<StartState>> \in Seq({StartState}) /\ <<>> \in Seq({})
      OBVIOUS
    <3> QED
      BY <3>1, SeqIsSeq
  <2> QED
    BY <1>1, <2>1, TablesAssumption DEF StacksMatch
<1>3. ItemsBehind(states, symbols)
  <2>1. SUFFICES ASSUME NEW it \in Items[StartState]
                 PROVE  Behind(states, symbols, 1, it[1], it[2])
    BY <1>1 DEF ItemsBehind
  <2>2. StartState \in States /\ it[2] = 0
    BY TablesAssumption
  <2>3. <<it[1], 0>> \in Items[StartState]
    BY <2>2, ItemShape
  <2>4. states[1] = StartState
    BY <1>1
  <2> QED
    BY <2>2, <2>3, <2>4, BehindNothing
<1>4. SpansInOrder(symbols, Limit) /\ TokenOK(lookahead) /\ consumed \in Nat
  BY <1>1 DEF SpansInOrder, TokenOK
<1> QED
  BY <1>2, <1>3, <1>4 DEF IInv

\* The lexer moves on through the text, and hands the tokens over in its order.
LEMMA LexerIInv ==
    ASSUME IInv, SkipBlank \/ NextToken \/ EndOfText
    PROVE  IInv'
<1>1. /\ Limit \in Nat /\ Limit <= consumed /\ consumed \in Nat /\ Limit = consumed
      /\ StacksMatch(states, symbols) /\ ItemsBehind(states, symbols)
      /\ SpansInOrder(symbols, Limit)
  BY LimitBounds DEF IInv, Limit, SkipBlank, NextToken, EndOfText, Scanning
<1>2. states' = states /\ symbols' = symbols
  BY DEF SkipBlank, NextToken, EndOfText, stacks
<1>3. CASE SkipBlank
  <2>1. PICK b \in Blanks : consumed' = consumed + Width[b]
    BY <1>3 DEF SkipBlank
  <2>2. consumed' \in Nat /\ consumed <= consumed' /\ lookahead' = NoToken
    BY <1>1, <1>3, <2>1, WidthAssumption DEF SkipBlank, Scanning
  <2>3. TokenOK(lookahead)' /\ Limit' = consumed'
    BY <2>2 DEF TokenOK, Limit
  <2>4. SpansInOrder(symbols, Limit')
    BY <1>1, <2>2, <2>3, SpansWithin
  <2> QED
    BY <1>1, <1>2, <2>2, <2>3, <2>4 DEF IInv, StacksMatch, ItemsBehind, Behind
<1>4. CASE NextToken
  <2>1. PICK p : /\ Kind(p) \in Terminals
                 /\ consumed' = consumed + Width[p]
                 /\ lookahead' = Token(Kind(p), p, consumed, consumed')
    BY <1>4 DEF NextToken
  <2>2. p \in Identifiers \cup Numerals \cup Terminals
    BY <2>1 DEF Kind
  <2>3. consumed' \in Nat /\ consumed <= consumed'
    BY <1>1, <2>1, <2>2, WidthAssumption
  <2>4. TokenOK(lookahead)' /\ Limit' \in Nat /\ consumed <= Limit'
    BY <1>1, <2>1, <2>3 DEF TokenOK, Token, Limit
  <2> QED
    BY <1>1, <1>2, <2>3, <2>4, SpansWithin DEF IInv, StacksMatch, ItemsBehind, Behind
<1>5. CASE EndOfText
  <2>1. lookahead' = Token(EOF, "", consumed, consumed) /\ consumed' = consumed
    BY <1>5 DEF EndOfText, lexer
  <2>2. TokenOK(lookahead)' /\ Limit' = consumed
    BY <1>1, <2>1 DEF TokenOK, Token, Limit
  <2> QED
    BY <1>1, <1>2, <2>1, <2>2 DEF IInv, StacksMatch, ItemsBehind, Behind
<1> QED
  BY <1>3, <1>4, <1>5

\* A token is shifted over a state that has a place for it, after what lies there.
LEMMA ShiftIInv ==
    ASSUME IInv, Shift
    PROVE  IInv'
<1> DEFINE e == [sym |-> lookahead.kind, value |-> TokenValue(lookahead),
                 l |-> lookahead.l, r |-> lookahead.r]
<1>1. /\ Limit \in Nat /\ Limit <= consumed /\ consumed \in Nat
      /\ lookahead.l \in Nat /\ lookahead.r \in Nat
      /\ lookahead.l <= lookahead.r /\ lookahead.r <= consumed
      /\ Limit = lookahead.l
  BY LimitBounds DEF Shift
<1>2. /\ StacksMatch(states, symbols) /\ ItemsBehind(states, symbols)
      /\ SpansInOrder(symbols, Limit) /\ IsSeq(symbols)
  BY DEF IInv, StacksMatch
<1>3. e.sym = lookahead.kind /\ e.l = lookahead.l /\ e.r = lookahead.r
  OBVIOUS
<1>4. e.sym \in DOMAIN Transitions[Top(states)]
  BY <1>3 DEF Shift, Shiftable
<1>5. /\ states' = Append(states, Transitions[Top(states)][e.sym])
      /\ symbols' = Append(symbols, e)
      /\ lookahead' = NoToken /\ consumed' = consumed
  BY <1>3 DEF Shift, lexer
<1> HIDE DEF e
<1>6. StacksMatch(states', symbols') /\ ItemsBehind(states', symbols')
  BY <1>2, <1>4, <1>5, PushKeepsMatch, PushKeepsItems
<1>7. \A i \in DOMAIN symbols : symbols[i].r <= e.l
  BY <1>1, <1>2, <1>3 DEF SpansInOrder
<1>8. SpansInOrder(symbols', consumed)
  BY <1>1, <1>2, <1>3, <1>5, <1>7, SpansPush
<1>9. TokenOK(lookahead)' /\ Limit' = consumed
  BY <1>5 DEF TokenOK, Limit
<1> QED
  BY <1>1, <1>5, <1>6, <1>8, <1>9 DEF IInv, StacksMatch, ItemsBehind, Behind

\* What is reduced takes the place of the symbols its rule names.
LEMMA ReduceIInv ==
    ASSUME IInv, Reduce
    PROVE  IInv'
<1>1. /\ Limit \in Nat /\ Limit <= consumed /\ consumed \in Nat
      /\ lookahead.kind \in Terminals \cup {EOF} /\ Limit = lookahead.l
  BY LimitBounds DEF Reduce
<1>2. /\ StacksMatch(states, symbols) /\ ItemsBehind(states, symbols)
      /\ SpansInOrder(symbols, Limit) /\ IsSeq(symbols)
  BY DEF IInv, StacksMatch
<1>3. PICK i \in Applicable :
         LET rule == Rules[i]
             n == Len(rule.rhs)
             popped == Last(symbols, n)
             under == Without(states, n)
         IN  /\ rule.lhs # "__Prog"
             /\ symbols' = Append(Without(symbols, n), Reduced(rule, popped))
             /\ states' = Append(under, Transitions[Top(under)][rule.lhs])
  BY DEF Reduce
<1> DEFINE rule == Rules[i]
           n == Len(rule.rhs)
           under == Without(states, n)
           rest == Without(symbols, n)
           span == SpanFrom(Last(symbols, n))
           e == Reduced(rule, Last(symbols, n))
<1>4. n \in 0 .. Len(symbols) /\ rule.lhs \in DOMAIN Transitions[Top(under)]
  BY <1>1, <1>2, <1>3, ReducibleRule
<1>5. e.sym = rule.lhs /\ e.l = span[1] /\ e.r = span[2]
  BY DEF Reduced
<1>6. states' = Append(under, Transitions[Top(under)][e.sym]) /\ symbols' = Append(rest, e)
  BY <1>3, <1>5
<1>7. consumed' = consumed /\ lookahead' = lookahead
  BY DEF Reduce, lexer
<1>8. /\ span[1] \in Nat /\ span[2] \in Nat /\ span[1] <= span[2] /\ span[2] <= Limit
      /\ \A j \in 1 .. Len(symbols) - n : symbols[j].r <= span[1]
  BY <1>1, <1>2, <1>4, ReducedSpan
<1>9. /\ SpansInOrder(rest, Limit) /\ IsSeq(rest)
      /\ \A j \in DOMAIN rest : j \in 1 .. Len(symbols) - n /\ rest[j] = symbols[j]
  BY <1>2, <1>4, SpansPop
<1>10. StacksMatch(under, rest) /\ ItemsBehind(under, rest)
  BY <1>2, <1>4, PopKeeps
<1> HIDE DEF e, span, rest, under, n, rule
<1>11. StacksMatch(states', symbols') /\ ItemsBehind(states', symbols')
  BY <1>4, <1>5, <1>6, <1>10, PushKeepsMatch, PushKeepsItems
<1>12. \A j \in DOMAIN rest : rest[j].r <= e.l
  BY <1>5, <1>8, <1>9
<1>13. SpansInOrder(symbols', Limit)
  BY <1>1, <1>5, <1>6, <1>8, <1>9, <1>12, SpansPush
<1> QED
  BY <1>1, <1>7, <1>11, <1>13 DEF IInv, TokenOK, Limit, StacksMatch, ItemsBehind, Behind

\* Every step keeps the invariant.
LEMMA NextIInv == IInv /\ [Next]_vars => IInv'
<1> SUFFICES ASSUME IInv, [Next]_vars PROVE IInv'
  OBVIOUS
<1>1. CASE SkipBlank \/ NextToken \/ EndOfText
  BY <1>1, LexerIInv
<1>2. CASE Shift
  BY <1>2, ShiftIInv
<1>3. CASE Reduce
  BY <1>3, ReduceIInv
<1>4. CASE UNCHANGED <<consumed, lookahead, states, symbols>>
  BY <1>4 DEF IInv, TokenOK, Limit, StacksMatch, ItemsBehind, Behind, SpansInOrder
<1>5. InvalidToken \/ LiteralPanics \/ Accept \/ Unrecognized \/ UNCHANGED vars
      => UNCHANGED <<consumed, lookahead, states, symbols>>
  BY DEF InvalidToken, LiteralPanics, Accept, Unrecognized, vars, lexer, stacks
<1> QED
  BY <1>1, <1>2, <1>3, <1>4, <1>5 DEF Next

\* The invariant says that the stacks agree.
LEMMA IInvStacks == IInv => StacksAgree
<1> SUFFICES ASSUME IInv PROVE StacksAgree
  OBVIOUS
<1>1. /\ Limit \in Nat /\ Limit <= consumed /\ consumed \in Nat
      /\ Parsing => lookahead.kind \in Terminals \cup {EOF} /\ Limit = lookahead.l
  BY LimitBounds
<1>2. /\ StacksMatch(states, symbols) /\ ItemsBehind(states, symbols)
      /\ SpansInOrder(symbols, Limit) /\ IsSeq(symbols)
      /\ Len(symbols) \in Nat /\ DOMAIN symbols = 1 .. Len(symbols)
  BY IsSeqDomain DEF IInv, StacksMatch
<1>3. Len(states) = Len(symbols) + 1 /\ states[1] = StartState
  BY <1>2 DEF StacksMatch
<1>4. ASSUME NEW i \in DOMAIN symbols
      PROVE  /\ states[i + 1] = Transitions[states[i]][symbols[i].sym]
             /\ symbols[i].l <= symbols[i].r /\ symbols[i].r <= consumed
             /\ i > 1 => symbols[i - 1].r <= symbols[i].l
  <2>1. states[i + 1] = Transitions[states[i]][symbols[i].sym]
    BY <1>2 DEF StacksMatch
  <2>2. symbols[i].l <= symbols[i].r /\ symbols[i].r <= consumed
    BY <1>1, <1>2 DEF SpansInOrder
  <2>3. i > 1 => i - 1 \in DOMAIN symbols /\ i - 1 < i
    BY <1>2
  <2> QED
    BY <1>2, <2>1, <2>2, <2>3 DEF SpansInOrder
<1>5. ASSUME Parsing, NEW i \in Applicable
      PROVE  LET rule == Rules[i] n == Len(rule.rhs)
             IN  /\ n <= Len(symbols)
                 /\ \A j \in 1 .. n : Last(symbols, n)[j].sym = rule.rhs[j]
  <2>1. /\ Len(Rules[i].rhs) \in 0 .. Len(symbols)
        /\ \A j \in 1 .. Len(Rules[i].rhs) :
              Last(symbols, Len(Rules[i].rhs))[j].sym = Rules[i].rhs[j]
    BY <1>1, <1>2, <1>5, ReducibleRule
  <2>2. Len(Rules[i].rhs) <= Len(symbols)
    BY <1>2, <2>1
  <2> QED
    BY <2>1, <2>2, Zenon
<1>6. ASSUME Parsing, symbols # <<>> PROVE Top(symbols).r <= lookahead.l
  <2>1. Len(symbols) \in DOMAIN symbols
    BY <1>2, <1>6, VectorNotEmpty
  <2> QED
    BY <1>1, <1>2, <1>6, <2>1 DEF SpansInOrder, Top
<1> QED
  BY <1>3, <1>4, <1>5, <1>6 DEF StacksAgree

\* The states on the stack and the symbols between them, the symbols that a rule
\* pops, and the spans of the symbols agree with each other at every moment,
\* whatever the words, the text and the tables made from the grammar's items.
THEOREM StacksAlwaysAgree == Spec => []StacksAgree
<1>1. Init => IInv
  BY InitIInv
<1>2. IInv /\ [Next]_vars => IInv'
  BY NextIInv
<1>3. IInv => StacksAgree
  BY IInvStacks
<1> QED
  BY <1>1, <1>2, <1>3, PTL DEF Spec

-----------------------------------------------------------------------------
(* The derivations.                                                         *)

\* A longer text has the pieces of the shorter one.
LEMMA LongerBlank ==
    ASSUME NEW t, IsSeq(t), NEW p, NEW j \in Nat, NEW k \in 0 .. Len(t)
    PROVE  Blank(Append(t, p), j, k) <=> Blank(t, j, k)
<1>1. \A m \in 1 .. Len(t) : Append(t, p)[m] = t[m]
  BY PushedVector
<1>2. Len(t) \in Nat
  BY IsSeqDomain
<1>3. \A m \in j + 1 .. k : m \in 1 .. Len(t)
  BY <1>2
<1> QED
  BY <1>1, <1>3 DEF Blank

\* What has the derivations of a longer text has those of the shorter one.
LEMMA ShorterDerived ==
    ASSUME NEW t, IsSeq(t), NEW p, NEW D, NEW at,
           Ends(at, Append(t, p)), Derived(D, Append(t, p), at)
    PROVE  /\ Ends(at, t) /\ Derived(D, t, at)
           /\ at[Len(t) + 1] = at[Len(t)] + Width[p]
<1> DEFINE n == Len(t)
           t2 == Append(t, p)
<1>1. /\ n \in Nat /\ DOMAIN t = 1 .. n /\ DOMAIN t2 = 1 .. n + 1 /\ Len(t2) = n + 1
      /\ \A m \in 1 .. n : t2[m] = t[m]
      /\ t2[n + 1] = p
  BY PushedVector, IsSeqDomain
<1> HIDE DEF n, t2
<1>2. \A k \in 1 .. n : k \in 1 .. n + 1
  BY <1>1
<1>3. Ends(at, t2)
  BY DEF t2
<1>4. Ends(at, t)
  BY <1>1, <1>2, <1>3 DEF Ends
<1>5. at[n + 1] = at[n] + Width[p]
  <2>1. n + 1 \in 1 .. n + 1 /\ (n + 1) - 1 = n
    BY <1>1
  <2> QED
    BY <1>1, <1>3, <2>1 DEF Ends
<1>6. SpellsWords(D, t, at)
  <2>1. SUFFICES ASSUME NEW k \in 1 .. n, NEW j \in 0 .. k - 1,
                        t[k] \notin Blanks, Kind(t[k]) \in Terminals, Blank(t, j, k - 1)
                 PROVE  <<Word(t[k], at[k - 1], at[k]), j, k>> \in D
    BY <1>1 DEF SpellsWords
  <2>2. j \in Nat /\ k - 1 \in 0 .. n /\ k \in 1 .. n + 1
    BY <1>1
  <2>3. Blank(t2, j, k - 1)
    BY <2>1, <2>2, LongerBlank DEF n, t2
  <2>4. SpellsWords(D, t2, at)
    BY DEF Derived, t2
  <2> QED
    BY <1>1, <2>1, <2>2, <2>3, <2>4 DEF SpellsWords
<1>7. ASSUME NEW i \in DOMAIN Rules PROVE ProducesNothing(D, t, at, Rules[i])
  <2>1. ProducesNothing(D, t2, at, Rules[i])
    BY DEF Derived, t2
  <2>2. SUFFICES ASSUME Len(Rules[i].rhs) = 0, NEW j \in 0 .. n, NEW m \in j .. n, Blank(t, j, m)
                 PROVE  <<Built(Rules[i], <<>>, at[m], at[m]), j, j>> \in D
    BY DEF ProducesNothing, n
  <2>3. j \in Nat /\ m \in 0 .. n /\ j \in 0 .. n + 1 /\ m \in j .. n + 1
    BY <1>1
  <2>4. Blank(t2, j, m)
    BY <2>2, <2>3, LongerBlank DEF n, t2
  <2> QED
    BY <1>1, <2>1, <2>2, <2>3, <2>4 DEF ProducesNothing
<1>8. \A i \in DOMAIN Rules : Produces(D, Rules[i])
  BY DEF Derived
<1> QED
  BY <1>4, <1>5, <1>6, <1>7, <1>8 DEF Derived, n

\* What is covered of a text is covered of a longer one.
LEMMA LongerCovered ==
    ASSUME NEW t, IsSeq(t), NEW p, NEW D, NEW at, NEW syms, IsSeq(syms), NEW c,
           Covers(D, at, t, syms, c)
    PROVE  Covers(D, at, Append(t, p), syms, c)
<1> DEFINE n == Len(t)
           t2 == Append(t, p)
           N == Len(syms)
<1>1. n \in Nat /\ Len(t2) = n + 1
  BY PushedVector, IsSeqDomain
<1>2. N \in Nat /\ DOMAIN syms = 1 .. N
  BY IsSeqDomain
<1> HIDE DEF n, t2, N
<1>3. c[0] = 0 /\ \A i \in 0 .. N : c[i] \in 0 .. n + 1
  BY <1>1 DEF Covers, n, N
<1>4. ASSUME NEW i \in 1 .. N
      PROVE  /\ <<syms[i], c[i - 1], c[i]>> \in D
             /\ \E m \in c[i] .. n + 1 : Blank(t2, c[i], m) /\ syms[i].r = at[m]
  <2>1. c[i] \in 0 .. n
    <3>1. i \in 0 .. N
      BY <1>2
    <3> QED
      BY <3>1 DEF Covers, n, N
  <2>2. PICK m \in c[i] .. n : Blank(t, c[i], m) /\ syms[i].r = at[m]
    BY <1>2 DEF Covers, n
  <2>3. c[i] \in Nat /\ m \in 0 .. n /\ m \in c[i] .. n + 1
    BY <1>1, <2>1
  <2>4. Blank(t2, c[i], m)
    BY <2>2, <2>3, LongerBlank DEF n, t2
  <2> QED
    BY <1>2, <2>2, <2>3, <2>4 DEF Covers
<1> QED
  BY <1>1, <1>2, <1>3, <1>4 DEF Covers, t2, N

\* The lexer passes over blanks, and finds the next word or the end.
LEMMA LexerCovered ==
    ASSUME IInv, TextCovered, SkipBlank \/ NextToken \/ EndOfText
    PROVE  TextCovered'
<1> DEFINE n == Len(text)
           N == Len(symbols)
<1>1. n \in Nat /\ IsSeq(text) /\ IsSeq(symbols) /\ symbols' = symbols /\ lookahead = NoToken
      /\ DOMAIN text = 1 .. n
  BY IsSeqDomain DEF TextCovered, IInv, StacksMatch, SkipBlank, NextToken, EndOfText, Scanning, stacks
<1>2. CASE EndOfText
  <2>1. text' = text /\ consumed' = consumed /\ lookahead'.kind = EOF
    BY <1>2 DEF EndOfText, Token, lexer
  <2>2. \A at, j : InHand(at, text, lookahead, j) => InHand(at, text, lookahead', j)
    <3>1. ASSUME NEW at, NEW j, InHand(at, text, lookahead, j)
          PROVE  InHand(at, text, lookahead', j)
      <4>1. Blank(text, j, n)
        BY <1>1, <3>1, StartAssumption DEF InHand, Token, NoToken
      <4> QED
        BY <2>1, <4>1 DEF InHand
    <3> QED
      BY <3>1
  <2> QED
    BY <1>1, <2>1, <2>2 DEF TextCovered
<1>3. ASSUME NEW p, text' = Append(text, p), consumed' = consumed + Width[p],
             \A at, j : Ends(at, text') /\ j \in 0 .. n /\ Blank(text', j, n)
                        /\ consumed = at[n] /\ consumed' = at[n + 1]
                        => InHand(at, text', lookahead', j)
      PROVE  TextCovered'
  <2>1. /\ IsSeq(text') /\ Len(text') = n + 1
    BY <1>1, <1>3, PushedVector
  <2>2. ASSUME NEW D, NEW at, Ends(at, text'), Derived(D, text', at)
        PROVE  /\ consumed' = at[n + 1]
               /\ \E c : Covers(D, at, text', symbols', c) /\ InHand(at, text', lookahead', c[N])
    <3>1. Ends(at, text) /\ Derived(D, text, at) /\ at[n + 1] = at[n] + Width[p]
      BY <1>1, <1>3, <2>2, ShorterDerived
    <3>2. consumed = at[n]
      BY <3>1 DEF TextCovered
    <3>3. PICK c : Covers(D, at, text, symbols, c) /\ InHand(at, text, lookahead, c[N])
      BY <3>1 DEF TextCovered
    <3>4. consumed' = at[n + 1]
      BY <1>3, <3>1, <3>2
    <3>5. N \in Nat /\ N \in 0 .. N
      BY <1>1, IsSeqDomain
    <3>6. c[N] \in 0 .. n
      BY <3>3, <3>5 DEF Covers
    <3>7. Blank(text, c[N], n)
      BY <1>1, <3>3, StartAssumption DEF InHand, Token, NoToken
    <3>8. Blank(text', c[N], n)
      <4>1. c[N] \in Nat /\ n \in 0 .. n
        BY <1>1, <3>6
      <4> QED
        BY <1>1, <1>3, <3>7, <4>1, LongerBlank
    <3>9. Covers(D, at, text', symbols', c)
      BY <1>1, <1>3, <3>3, LongerCovered
    <3> QED
      BY <1>3, <2>2, <3>2, <3>4, <3>6, <3>8, <3>9
  <2> QED
    BY <1>1, <2>1, <2>2 DEF TextCovered
<1>4. CASE SkipBlank
  <2>1. PICK b \in Blanks : text' = Append(text, b) /\ consumed' = consumed + Width[b]
    BY <1>4 DEF SkipBlank
  <2>2. text'[n + 1] = b /\ Len(text') = n + 1 /\ lookahead' = NoToken
    BY <1>1, <1>4, <2>1, PushedVector DEF SkipBlank
  <2>3. ASSUME NEW j \in 0 .. n, Blank(text', j, n)
        PROVE  Blank(text', j, n + 1)
    <3>1. \A m \in j + 1 .. n + 1 : m \in j + 1 .. n \/ m = n + 1
      BY <1>1
    <3> QED
      BY <2>1, <2>2, <2>3, <3>1 DEF Blank
  <2>4. \A at, j : j \in 0 .. n /\ Blank(text', j, n) => InHand(at, text', lookahead', j)
    BY <2>2, <2>3 DEF InHand
  <2> QED
    BY <1>3, <2>1, <2>4
<1>5. CASE NextToken
  <2>1. PICK p : /\ p \notin Blanks /\ Kind(p) \in Terminals
                 /\ text' = Append(text, p) /\ consumed' = consumed + Width[p]
                 /\ lookahead' = Token(Kind(p), p, consumed, consumed')
    BY <1>5 DEF NextToken
  <2>2. text'[n + 1] = p /\ Len(text') = n + 1 /\ (n + 1) - 1 = n
    BY <1>1, <2>1, PushedVector
  <2>3. ASSUME NEW at, NEW j \in 0 .. n, Blank(text', j, n),
               consumed = at[n], consumed' = at[n + 1]
        PROVE  InHand(at, text', lookahead', j)
    <3>1. j < n + 1
      BY <1>1
    <3> QED
      BY <2>1, <2>2, <2>3, <3>1 DEF InHand
  <2> QED
    BY <1>3, <2>1, <2>3
<1> QED
  BY <1>2, <1>4, <1>5

\* What has been covered, with one more symbol that reaches as far as c2.
LEMMA OneMoreCovered ==
    ASSUME NEW D, NEW at, NEW t, IsSeq(t), NEW syms, IsSeq(syms), NEW c,
           Covers(D, at, t, syms, c),
           NEW e, NEW c2 \in 0 .. Len(t), <<e, c[Len(syms)], c2>> \in D,
           \E m \in c2 .. Len(t) : Blank(t, c2, m) /\ e.r = at[m]
    PROVE  \E c3 : Covers(D, at, t, Append(syms, e), c3) /\ c3[Len(Append(syms, e))] = c2
<1> DEFINE N == Len(syms)
           c3 == [i \in 0 .. N + 1 |-> IF i = N + 1 THEN c2 ELSE c[i]]
           syms2 == Append(syms, e)
<1>1. /\ N \in Nat /\ DOMAIN syms = 1 .. N /\ Len(syms2) = N + 1 /\ DOMAIN syms2 = 1 .. N + 1
      /\ \A i \in 1 .. N : syms2[i] = syms[i]
      /\ syms2[N + 1] = e
  BY PushedVector, IsSeqDomain
<1>2. c3[N + 1] = c2 /\ \A i \in 0 .. N : c3[i] = c[i]
  BY <1>1
<1> HIDE DEF c3, syms2, N
<1>3. c3[0] = 0 /\ \A i \in 0 .. N + 1 : c3[i] \in 0 .. Len(t)
  <2>1. \A i \in 0 .. N + 1 : i \in 0 .. N \/ i = N + 1
    BY <1>1
  <2>2. 0 \in 0 .. N
    BY <1>1
  <2> QED
    BY <1>2, <2>1, <2>2 DEF Covers, N
<1>4. ASSUME NEW i \in 1 .. N + 1
      PROVE  /\ <<syms2[i], c3[i - 1], c3[i]>> \in D
             /\ \E m \in c3[i] .. Len(t) : Blank(t, c3[i], m) /\ syms2[i].r = at[m]
  <2>1. CASE i \in 1 .. N
    <3>1. i - 1 \in 0 .. N /\ i \in 0 .. N
      BY <1>1, <2>1
    <3>2. c3[i - 1] = c[i - 1] /\ c3[i] = c[i] /\ syms2[i] = syms[i]
      BY <1>1, <1>2, <2>1, <3>1
    <3>3. /\ <<syms[i], c[i - 1], c[i]>> \in D
          /\ \E m \in c[i] .. Len(t) : Blank(t, c[i], m) /\ syms[i].r = at[m]
      BY <1>1, <2>1 DEF Covers
    <3> QED
      BY <3>2, <3>3
  <2>2. CASE i = N + 1
    <3>1. (N + 1) - 1 = N /\ N \in 0 .. N
      BY <1>1
    <3>2. c3[i - 1] = c[N] /\ c3[i] = c2 /\ syms2[i] = e
      BY <1>1, <1>2, <2>2, <3>1
    <3> QED
      BY <3>2 DEF N
  <2> QED
    BY <1>1, <2>1, <2>2
<1>5. Covers(D, at, t, syms2, c3) /\ c3[Len(syms2)] = c2
  BY <1>1, <1>2, <1>3, <1>4 DEF Covers
<1> QED
  BY <1>5 DEF syms2

\* The token in hand is a derivation.
LEMMA ShiftCovered ==
    ASSUME IInv, TextCovered, Shift
    PROVE  TextCovered'
<1> DEFINE N == Len(symbols)
           n == Len(text)
           e == [sym |-> lookahead.kind, value |-> TokenValue(lookahead),
                 l |-> lookahead.l, r |-> lookahead.r]
<1>1. /\ IsSeq(text) /\ IsSeq(symbols) /\ n \in Nat /\ DOMAIN text = 1 .. n
      /\ N \in Nat
  BY IsSeqDomain DEF TextCovered, IInv, StacksMatch
<1>2. /\ text' = text /\ consumed' = consumed /\ lookahead' = NoToken
      /\ symbols' = Append(symbols, e) /\ lookahead # NoToken
  BY DEF Shift, Parsing, lexer
<1>3. lookahead.kind # EOF
  <2>1. Top(states) \in States
    <3>1. Len(states) \in DOMAIN states
      BY <1>1, IsSeqDomain DEF IInv, StacksMatch
    <3> QED
      BY <3>1 DEF IInv, StacksMatch, Top
  <2> QED
    BY <2>1, StartAssumption DEF Shift, Shiftable
<1>4. SUFFICES ASSUME NEW D, NEW at, Ends(at, text), Derived(D, text, at)
               PROVE  \E c : Covers(D, at, text, symbols', c)
                             /\ InHand(at, text, NoToken, c[Len(symbols')])
  BY <1>1, <1>2 DEF TextCovered
<1>5. consumed = at[n]
  BY <1>4 DEF TextCovered
<1>6. PICK c : Covers(D, at, text, symbols, c) /\ InHand(at, text, lookahead, c[N])
  BY <1>4 DEF TextCovered
<1>7. c[N] \in 0 .. n
  <2>1. N \in 0 .. N
    BY <1>1
  <2> QED
    BY <1>6, <2>1 DEF Covers
<1>8. /\ c[N] < n /\ Blank(text, c[N], n - 1)
      /\ text[n] \notin Blanks /\ Kind(text[n]) \in Terminals
      /\ lookahead = Token(Kind(text[n]), text[n], at[n - 1], at[n])
  BY <1>2, <1>3, <1>6 DEF InHand
<1>9. e = Word(text[n], at[n - 1], at[n])
  BY <1>8 DEF Word, Token
<1>10. <<e, c[N], n>> \in D
  <2>1. n \in DOMAIN text /\ c[N] \in 0 .. n - 1
    BY <1>1, <1>7, <1>8
  <2>2. SpellsWords(D, text, at)
    BY <1>4 DEF Derived
  <2> QED
    BY <1>8, <1>9, <2>1, <2>2 DEF SpellsWords
<1>11. e.r = at[n] /\ Blank(text, n, n) /\ n \in n .. n /\ n \in 0 .. n
  BY <1>1, <1>9 DEF Word, Blank
<1> HIDE DEF e
<1>12. PICK c3 : Covers(D, at, text, Append(symbols, e), c3) /\ c3[Len(Append(symbols, e))] = n
  BY <1>1, <1>6, <1>10, <1>11, OneMoreCovered DEF N
<1>13. InHand(at, text, NoToken, n)
  BY <1>11 DEF InHand
<1> QED
  BY <1>2, <1>12, <1>13

\* A reduction covers what the symbols that it pops covered, or nothing.
LEMMA ReducedDerived ==
    ASSUME IInv, NEW D, NEW at, Ends(at, text), Derived(D, text, at), IsSeq(text),
           NEW c, Covers(D, at, text, symbols, c), lookahead # NoToken,
           InHand(at, text, lookahead, c[Len(symbols)]),
           NEW i \in DOMAIN Rules, Len(Rules[i].rhs) \in 0 .. Len(symbols),
           \A j \in 1 .. Len(Rules[i].rhs) :
              Last(symbols, Len(Rules[i].rhs))[j].sym = Rules[i].rhs[j],
           Rules[i].does = <<"i64">> => FitsI64(Last(symbols, Len(Rules[i].rhs))[1].value)
    PROVE  LET n == Len(Rules[i].rhs)
               e == Reduced(Rules[i], Last(symbols, n))
               N == Len(symbols)
           IN  /\ <<e, c[N - n], c[N]>> \in D
               /\ \E m \in c[N] .. Len(text) : Blank(text, c[N], m) /\ e.r = at[m]
<1> DEFINE n == Len(Rules[i].rhs)
           N == Len(symbols)
           popped == Last(symbols, n)
           e == Reduced(Rules[i], popped)
           Z == Len(text)
<1>1. /\ IsSeq(symbols) /\ N \in Nat /\ DOMAIN symbols = 1 .. N /\ Z \in Nat
      /\ n \in Nat /\ n <= N
  BY IsSeqDomain DEF IInv, StacksMatch
<1>2. /\ IsSeq(popped) /\ Len(popped) = n /\ DOMAIN popped = 1 .. n
      /\ \A j \in 1 .. n : popped[j] = symbols[N - n + j]
  BY <1>1, SuffixOfVector DEF Last
<1>3. popped # <<>> <=> n >= 1
  BY <1>2, VectorNotEmpty
<1>4. \A j \in 0 .. N : c[j] \in 0 .. Z
  BY DEF Covers
<1>5. CASE n >= 1
  <2> DEFINE b == [j \in 0 .. n |-> c[N - n + j]]
  <2>1. SpanFrom(popped) = <<popped[1].l, Top(popped).r>>
    BY <1>3, <1>5 DEF SpanFrom
  <2>2. e = Built(Rules[i], popped, popped[1].l, Top(popped).r)
    BY <2>1 DEF Reduced, Built
  <2>3. ASSUME NEW m \in 1 .. n
        PROVE  <<popped[m], b[m - 1], b[m]>> \in D /\ popped[m].sym = Rules[i].rhs[m]
    <3>1. /\ m - 1 \in 0 .. n /\ m \in 0 .. n /\ N - n + m \in 1 .. N
          /\ N - n + (m - 1) = (N - n + m) - 1
      BY <1>1
    <3>2. b[m - 1] = c[(N - n + m) - 1] /\ b[m] = c[N - n + m]
      BY <3>1
    <3>3. <<symbols[N - n + m], c[(N - n + m) - 1], c[N - n + m]>> \in D
      BY <1>1, <3>1 DEF Covers
    <3> QED
      BY <1>2, <3>2, <3>3
  <2>4. b[0] = c[N - n] /\ b[n] = c[N]
    <3>1. 0 \in 0 .. n /\ n \in 0 .. n /\ N - n + 0 = N - n /\ N - n + n = N
      BY <1>1
    <3> QED
      BY <3>1
  <2> HIDE DEF b, popped
  <2>5. Produces(D, Rules[i])
    BY DEF Derived
  <2>6. Rules[i].does = <<"i64">> => FitsI64(popped[1].value)
    BY DEF popped
  <2>7. <<Built(Rules[i], popped, popped[1].l, Top(popped).r), b[0], b[Len(popped)]>> \in D
    BY <1>2, <1>3, <1>5, <2>3, <2>5, <2>6 DEF Produces
  <2>8. <<e, c[N - n], c[N]>> \in D
    BY <1>2, <2>2, <2>4, <2>7
  <2>9. e.r = symbols[N].r
    <3>1. n \in 1 .. n /\ N - n + n = N
      BY <1>1, <1>5
    <3>2. Top(popped) = symbols[N]
      BY <1>2, <3>1 DEF Top
    <3> QED
      BY <2>2, <3>2 DEF Built
  <2>10. N \in 1 .. N
    BY <1>1, <1>5
  <2> QED
    BY <1>1, <2>8, <2>9, <2>10 DEF Covers, popped
<1>6. CASE n = 0
  <2>1. popped = <<>> /\ N - n = N
    BY <1>1, <1>3, <1>6
  <2>2. N \in 0 .. N /\ c[N] \in 0 .. Z
    BY <1>1, <1>4
  <2>3. ASSUME NEW m \in c[N] .. Z, Blank(text, c[N], m), SpanFrom(<<>>) = <<at[m], at[m]>>
        PROVE  /\ <<e, c[N], c[N]>> \in D
               /\ \E mm \in c[N] .. Z : Blank(text, c[N], mm) /\ e.r = at[mm]
    <3>1. e = Built(Rules[i], <<>>, at[m], at[m])
      BY <2>1, <2>3 DEF Reduced, Built
    <3>2. ProducesNothing(D, text, at, Rules[i])
      BY DEF Derived
    <3>3. <<e, c[N], c[N]>> \in D
      BY <1>6, <2>2, <2>3, <3>1, <3>2 DEF ProducesNothing
    <3>4. e.r = at[m]
      BY <3>1 DEF Built
    <3> QED
      BY <2>3, <3>3, <3>4
  <2>4. CASE lookahead.kind # EOF
    <3>1. /\ c[N] < Z /\ Blank(text, c[N], Z - 1)
          /\ lookahead = Token(Kind(text[Z]), text[Z], at[Z - 1], at[Z])
      BY <2>4 DEF InHand
    <3>2. lookahead.l = at[Z - 1]
      BY <3>1 DEF Token
    <3>3. Z - 1 \in c[N] .. Z
      BY <1>1, <2>2, <3>1
    <3>4. SpanFrom(<<>>) = <<at[Z - 1], at[Z - 1]>>
      BY <2>4, <3>2 DEF SpanFrom
    <3> QED
      BY <2>1, <2>3, <3>1, <3>3, <3>4
  <2>5. CASE lookahead.kind = EOF /\ symbols # <<>>
    <3>1. N \in 1 .. N
      BY <1>1, <2>5, VectorNotEmpty
    <3>2. PICK m \in c[N] .. Z : Blank(text, c[N], m) /\ symbols[N].r = at[m]
      BY <1>1, <3>1 DEF Covers
    <3>3. SpanFrom(<<>>) = <<at[m], at[m]>>
      BY <2>5, <3>2 DEF SpanFrom, Top
    <3> QED
      BY <2>1, <2>3, <3>2, <3>3
  <2>6. CASE lookahead.kind = EOF /\ symbols = <<>>
    <3>1. N = 0
      BY <1>1, <2>6, VectorNotEmpty
    <3>2. c[N] = 0 /\ at[0] = 0 /\ 0 \in 0 .. Z
      BY <1>1, <3>1 DEF Covers, Ends
    <3>3. Blank(text, c[N], 0) /\ 0 \in c[N] .. Z
      BY <3>2 DEF Blank
    <3>4. SpanFrom(<<>>) = <<at[0], at[0]>>
      BY <2>6, <3>2 DEF SpanFrom
    <3> QED
      BY <2>1, <2>3, <3>3, <3>4
  <2> QED
    BY <2>4, <2>5, <2>6
<1> QED
  BY <1>1, <1>5, <1>6

\* What is left on the stack covers what it covered.
LEMMA FewerCovered ==
    ASSUME NEW D, NEW at, NEW t, NEW syms, IsSeq(syms), NEW c, Covers(D, at, t, syms, c),
           NEW n \in 0 .. Len(syms)
    PROVE  /\ IsSeq(Without(syms, n)) /\ Len(Without(syms, n)) = Len(syms) - n
           /\ Covers(D, at, t, Without(syms, n), c)
<1> DEFINE m == Len(syms) - n
           syms2 == SubSeq(syms, 1, m)
<1>1. Len(syms) \in Nat /\ DOMAIN syms = 1 .. Len(syms) /\ m \in 0 .. Len(syms)
  BY IsSeqDomain
<1> HIDE DEF m
<1>2. /\ IsSeq(syms2) /\ Len(syms2) = m /\ DOMAIN syms2 = 1 .. m
      /\ \A i \in 1 .. m : syms2[i] = syms[i]
  BY <1>1, PrefixOfVector
<1> HIDE DEF syms2
<1>3. /\ \A i \in 1 .. m : i \in DOMAIN syms
      /\ \A i \in 0 .. m : i \in 0 .. Len(syms)
  BY <1>1
<1>4. Covers(D, at, t, syms2, c)
  BY <1>2, <1>3 DEF Covers
<1>5. Without(syms, n) = syms2
  BY DEF Without, syms2, m
<1> QED
  BY <1>2, <1>4, <1>5 DEF m

\* What is reduced is a derivation of what the symbols covered that it replaces.
LEMMA ReduceCovered ==
    ASSUME IInv, TextCovered, Reduce
    PROVE  TextCovered'
<1>1. PICK i \in Applicable :
         LET rule == Rules[i]
             n == Len(rule.rhs)
             popped == Last(symbols, n)
         IN  /\ rule.does = <<"i64">> => FitsI64(popped[1].value)
             /\ symbols' = Append(Without(symbols, n), Reduced(rule, popped))
  BY DEF Reduce
<1> DEFINE n == Len(Rules[i].rhs)
           N == Len(symbols)
           rest == Without(symbols, n)
           e == Reduced(Rules[i], Last(symbols, n))
<1>2. /\ text' = text /\ consumed' = consumed /\ lookahead' = lookahead
      /\ lookahead # NoToken /\ lookahead.kind \in Terminals \cup {EOF}
  BY LimitBounds DEF Reduce, Parsing, lexer
<1>3. /\ StacksMatch(states, symbols) /\ ItemsBehind(states, symbols)
      /\ IsSeq(symbols) /\ IsSeq(text)
  BY DEF IInv, StacksMatch, TextCovered
<1>4. n \in 0 .. N /\ \A j \in 1 .. n : Last(symbols, n)[j].sym = Rules[i].rhs[j]
  BY <1>2, <1>3, ReducibleRule
<1>5. i \in DOMAIN Rules
  <2>1. Len(states) \in DOMAIN states
    BY <1>3, IsSeqDomain DEF StacksMatch
  <2>2. Top(states) \in States
    BY <1>3, <2>1 DEF StacksMatch, Top
  <2>3. <<i, n>> \in Items[Top(states)]
    BY <1>2, <2>2, FromTables DEF Applicable
  <2>4. <<i, n>> \in (DOMAIN Rules) \X Nat
    BY <2>2, <2>3, FromTables
  <2> HIDE DEF n
  <2> QED
    BY <2>4
<1>6. SUFFICES ASSUME NEW D, NEW at, Ends(at, text), Derived(D, text, at)
               PROVE  \E c : Covers(D, at, text, symbols', c)
                             /\ InHand(at, text, lookahead, c[Len(symbols')])
  BY <1>2, <1>3 DEF TextCovered
<1>7. PICK c : Covers(D, at, text, symbols, c) /\ InHand(at, text, lookahead, c[N])
  BY <1>6 DEF TextCovered
<1>8. /\ <<e, c[N - n], c[N]>> \in D
      /\ \E m \in c[N] .. Len(text) : Blank(text, c[N], m) /\ e.r = at[m]
  BY <1>1, <1>2, <1>3, <1>4, <1>5, <1>6, <1>7, ReducedDerived
<1>9. IsSeq(rest) /\ Len(rest) = N - n /\ Covers(D, at, text, rest, c)
  BY <1>3, <1>4, <1>7, FewerCovered
<1>10. c[N] \in 0 .. Len(text)
  <2>1. N \in 0 .. N
    BY <1>3, IsSeqDomain
  <2> QED
    BY <1>7, <2>1 DEF Covers
<1>11. symbols' = Append(rest, e)
  BY <1>1
<1> HIDE DEF e, rest, n
<1>12. PICK c3 : Covers(D, at, text, Append(rest, e), c3) /\ c3[Len(Append(rest, e))] = c[N]
  BY <1>3, <1>8, <1>9, <1>10, OneMoreCovered
<1> QED
  BY <1>7, <1>11, <1>12

\* When the start rule is reduced, one symbol covers the text.
LEMMA AcceptDerives ==
    ASSUME IInv, TextCovered, Accept
    PROVE  Derives(text, Top(symbols).value)
<1> DEFINE N == Len(symbols)
           k == Len(states)
<1>1. PICK i \in Applicable : Rules[i].lhs = "__Prog"
  BY DEF Accept
<1>2. /\ lookahead # NoToken /\ lookahead.kind \in Terminals \cup {EOF}
      /\ IsSeq(symbols) /\ IsSeq(text)
      /\ N \in Nat /\ DOMAIN symbols = 1 .. N /\ k = N + 1 /\ DOMAIN states = 1 .. k
      /\ \A j \in 1 .. k : states[j] \in States
  BY LimitBounds, IsSeqDomain DEF Accept, Parsing, IInv, StacksMatch, TextCovered
<1>3. k \in 1 .. k /\ Top(states) = states[k] /\ states[k] \in States
  BY <1>2 DEF Top
<1>4. <<i, Len(Rules[i].rhs)>> \in Items[states[k]]
  BY <1>2, <1>3, FromTables DEF Applicable
<1>5. i \in DOMAIN Rules
  <2> DEFINE n == Len(Rules[i].rhs)
  <2>1. <<i, n>> \in (DOMAIN Rules) \X Nat
    BY <1>3, <1>4, FromTables
  <2> HIDE DEF n
  <2> QED
    BY <2>1
<1>6. /\ Len(Rules[i].rhs) = 1
      /\ \A s \in States : /\ <<i, 0>> \in Items[s] => s = StartState
                           /\ \A t \in Terminals : i \notin Reductions[s][t]
  BY <1>1, <1>5, StartAssumption
<1>7. Behind(states, symbols, k, i, 1)
  <2>1. <<i, 1>> \in Items[states[k]]
    BY <1>4, <1>6
  <2>2. Behind(states, symbols, k, <<i, 1>>[1], <<i, 1>>[2])
    BY <1>2, <1>3, <2>1 DEF IInv, ItemsBehind
  <2> QED
    BY <2>2
<1>8. k >= 2 /\ <<i, 0>> \in Items[states[k - 1]] /\ symbols[k - 1].sym = Rules[i].rhs[1]
  <2>1. 1 < k /\ 0 \in 0 .. 1 /\ 1 \in 1 .. 1 /\ k - 1 + 0 = k - 1 /\ k - 1 - 1 + 1 = k - 1
    BY <1>2, <1>7 DEF Behind
  <2> QED
    BY <1>2, <1>7, <2>1 DEF Behind
<1>9. N = 1
  <2>1. SUFFICES ASSUME N # 1 PROVE FALSE
    OBVIOUS
  <2>2. /\ N >= 2 /\ k - 1 = N /\ N - 1 \in 1 .. N /\ (N - 1) + 1 = N
        /\ N \in 1 .. k /\ N - 1 \in 1 .. k
    BY <1>2, <1>8, <2>1
  <2>3. states[N] = StartState
    BY <1>2, <1>6, <1>8, <2>2
  <2>4. /\ symbols[N - 1].sym \in DOMAIN Transitions[states[N - 1]]
        /\ states[N] = Transitions[states[N - 1]][symbols[N - 1].sym]
    BY <1>2, <2>2 DEF IInv, StacksMatch
  <2>5. states[N - 1] \in States
    BY <1>2, <2>2
  <2> QED
    BY <2>3, <2>4, <2>5, StartAssumption
<1>10. symbols[1].sym = Rules[i].rhs[1] /\ Top(symbols) = symbols[1]
  BY <1>2, <1>8, <1>9 DEF Top
<1>11. lookahead.kind = EOF
  BY <1>2, <1>3, <1>6, Zenon DEF Applicable
<1>12. SUFFICES ASSUME NEW D, NEW at, Ends(at, text), Derived(D, text, at)
                PROVE  \E x : \E j \in 0 .. Len(text) :
                          /\ x.sym = Rules[i].rhs[1] /\ x.value = Top(symbols).value
                          /\ <<x, 0, j>> \in D /\ Blank(text, j, Len(text))
  BY <1>1, <1>5 DEF Derives
<1>13. PICK c : Covers(D, at, text, symbols, c) /\ InHand(at, text, lookahead, c[N])
  BY <1>12 DEF TextCovered
<1>14. c[0] = 0 /\ c[1] \in 0 .. Len(text) /\ <<symbols[1], c[1 - 1], c[1]>> \in D
  <2>1. 1 \in 0 .. N /\ 1 \in 1 .. N
    BY <1>9
  <2> QED
    BY <1>2, <1>13, <2>1 DEF Covers
<1>15. Blank(text, c[1], Len(text))
  BY <1>9, <1>11, <1>13, StartAssumption DEF InHand, Token
<1>16. <<symbols[1], 0, c[1]>> \in D
  <2>1. 1 - 1 = 0
    OBVIOUS
  <2> QED
    BY <1>14, <2>1
<1> QED
  BY <1>10, <1>14, <1>15, <1>16

\* At first nothing of the text is covered.
LEMMA InitCovered == Init => DerivationIInv
<1> SUFFICES ASSUME Init PROVE DerivationIInv
  OBVIOUS
<1>1. text = <<>> /\ consumed = 0 /\ lookahead = NoToken /\ symbols = <<>> /\ outcome.t = "Running"
  BY DEF Init, Running
<1>2. IsSeq(text) /\ Len(text) = 0 /\ Len(symbols) = 0 /\ DOMAIN symbols = {}
  <2>1. <<>> \in Seq({}) /\ Len(<<>>) = 0 /\ DOMAIN <<>> = {}
    OBVIOUS
  <2>2. IsSeq(<<>>)
    BY <2>1, SeqIsSeq
  <2>3. text = <<>> /\ symbols = <<>>
    BY <1>1
  <2> QED
    BY <2>1, <2>2, <2>3
<1>3. ASSUME NEW D, NEW at, Ends(at, text)
      PROVE  /\ consumed = at[Len(text)]
             /\ \E c : Covers(D, at, text, symbols, c)
                       /\ InHand(at, text, lookahead, c[Len(symbols)])
  <2> DEFINE c == [i \in {0} |-> 0]
  <2>1. c[0] = 0 /\ Blank(text, 0, 0)
    BY DEF Blank
  <2> HIDE DEF c
  <2>2. Covers(D, at, text, symbols, c)
    BY <1>2, <2>1 DEF Covers
  <2>3. InHand(at, text, lookahead, c[Len(symbols)])
    BY <1>1, <1>2, <2>1 DEF InHand
  <2> QED
    BY <1>1, <1>2, <1>3, <2>2, <2>3 DEF Ends
<1>4. TextCovered
  BY <1>2, <1>3 DEF TextCovered
<1> QED
  BY <1>1, <1>4, InitIInv DEF DerivationIInv, AcceptedIsDerived

\* Every step keeps it: accepting is the one that has to be right.
LEMMA NextCovered == DerivationIInv /\ [Next]_vars => DerivationIInv'
<1> SUFFICES ASSUME DerivationIInv, [Next]_vars PROVE DerivationIInv'
  OBVIOUS
<1>1. IInv'
  BY NextIInv DEF DerivationIInv
<1>2. CASE SkipBlank \/ NextToken \/ EndOfText \/ Shift \/ Reduce
  <2>1. outcome = Running /\ outcome' = outcome
    BY <1>2 DEF SkipBlank, NextToken, EndOfText, Shift, Reduce, Scanning, Parsing
  <2>2. TextCovered'
    BY <1>2, <2>1, LexerCovered, ShiftCovered, ReduceCovered DEF DerivationIInv
  <2> QED
    BY <1>1, <2>1, <2>2 DEF DerivationIInv, AcceptedIsDerived, Running
<1>3. CASE Accept
  <2>1. /\ text' = text /\ outcome = Running
        /\ outcome' = Ok(Top(symbols).value)
    BY <1>3 DEF Accept, Parsing, lexer
  <2>2. Derives(text, Top(symbols).value)
    BY <1>3, <2>1, AcceptDerives DEF DerivationIInv
  <2>3. outcome'.prog = Top(symbols).value /\ outcome' # Running
    BY <2>1 DEF Ok, Running
  <2> QED
    BY <1>1, <2>1, <2>2, <2>3 DEF DerivationIInv, AcceptedIsDerived
<1>4. CASE InvalidToken \/ LiteralPanics \/ Unrecognized
  <2>1. \E why \in {"InvalidToken", "Panic", "UnrecognizedEOF", "UnrecognizedToken"} :
           outcome' = Fails(why)
    BY <1>4 DEF InvalidToken, LiteralPanics, Unrecognized
  <2>2. outcome'.t # "Ok" /\ outcome' # Running
    BY <2>1 DEF Fails, Running
  <2> QED
    BY <1>1, <2>2 DEF DerivationIInv, AcceptedIsDerived
<1>5. CASE UNCHANGED vars
  BY <1>1, <1>5 DEF DerivationIInv, AcceptedIsDerived, TextCovered, vars, lexer, stacks
<1> QED
  BY <1>2, <1>3, <1>4, <1>5 DEF Next

\* What the parser accepts, it accepts with a tree that the rules of the grammar
\* give to the whole text, every node with its span; whatever the words, the text,
\* and the tables made from the grammar's items.
THEOREM AcceptsOnlyDerivations == Spec => []AcceptedIsDerived
<1>1. Init => DerivationIInv
  BY InitCovered
<1>2. DerivationIInv /\ [Next]_vars => DerivationIInv'
  BY NextCovered
<1>3. DerivationIInv => AcceptedIsDerived
  BY DEF DerivationIInv
<1> QED
  BY <1>1, <1>2, <1>3, PTL DEF Spec

-----------------------------------------------------------------------------
(* Lines and columns.                                                       *)

\* Each piece begins where the one before it ends.
LEMMA OffsetsOf ==
    ASSUME NEW t, NEW width, Wide(t, width)
    PROVE  LET at == Offsets(t, width)
               end == Len(t) + 1
           IN  /\ at \in [1 .. end -> Nat] /\ at[1] = 0
               /\ \A k \in 1 .. Len(t) : at[k + 1] = at[k] + width[t[k]]
<1> DEFINE end == Len(t) + 1
           at == Offsets(t, width)
           G == [p \in (2 .. end) \X Nat |-> p[2] + width[t[p[1] - 1]]]
           Is(f) == f = [k \in 1 .. end |-> IF k = 1 THEN 0 ELSE f[k - 1] + width[t[k - 1]]]
<1>1. Len(t) \in Nat /\ DOMAIN t = 1 .. Len(t) /\ end \in Nat
  BY IsSeqDomain DEF Wide
<1>2. \A k \in 2 .. end : k - 1 \in DOMAIN t /\ width[t[k - 1]] \in Nat
  BY <1>1 DEF Wide
<1>3. \A k \in 2 .. end : \A x \in Nat : G[<<k, x>>] = x + width[t[k - 1]] /\ G[<<k, x>>] \in Nat
  BY <1>2
<1> HIDE DEF G
<1>4. PICK f \in [1 .. end -> Nat] : Recurs(f, end, 0, G)
  <2>1. \A k \in 2 .. end : \A x \in Nat : G[<<k, x>>] \in Nat
    BY <1>3
  <2> HIDE DEF end
  <2>2. 0 \in Nat
    OBVIOUS
  <2> QED
    BY <1>1, <2>1, <2>2, RecursiveFunction
<1>5. \A k \in 1 .. end : f[k] = IF k = 1 THEN 0 ELSE f[k - 1] + width[t[k - 1]]
  <2> TAKE k \in 1 .. end
  <2>1. CASE k = 1
    BY <1>4, <2>1 DEF Recurs
  <2>2. CASE k # 1
    <3>1. k \in 2 .. end /\ k - 1 \in 1 .. end /\ f[k - 1] \in Nat
      BY <1>1, <2>2
    <3> QED
      BY <1>3, <1>4, <2>2, <3>1 DEF Recurs
  <2> QED
    BY <2>1, <2>2
<1>6. Is(f)
  BY <1>5
<1>7. at = CHOOSE f2 : Is(f2)
  BY Zenon DEF Offsets
<1>8. Is(at)
  BY <1>6, <1>7, Zenon
<1> HIDE DEF at
<1>9. at[1] = 0 /\ \A k \in 1 .. Len(t) : at[k + 1] = at[k] + width[t[k]]
  <2>1. \A k \in 1 .. end : at[k] = IF k = 1 THEN 0 ELSE at[k - 1] + width[t[k - 1]]
    BY <1>8
  <2>2. \A k \in 1 .. Len(t) : k + 1 \in 1 .. end /\ k + 1 # 1 /\ (k + 1) - 1 = k
    BY <1>1
  <2>3. ASSUME NEW k \in 1 .. Len(t) PROVE at[k + 1] = at[k] + width[t[k]]
    BY <2>1, <2>2
  <2>4. 1 \in 1 .. end
    BY <1>1
  <2> QED
    BY <2>1, <2>3, <2>4
<1>10. \A k \in 1 .. end : at[k] \in Nat
  <2> DEFINE T == {k \in 1 .. end : at[k] \in Nat}
  <2>1. 1 \in T
    BY <1>1, <1>9
  <2>2. \A k \in 1 .. end - 1 : k \in T => k + 1 \in T
    BY <1>1, <1>9 DEF Wide
  <2> HIDE DEF T, end
  <2>3. 1 .. end \subseteq T
    BY <1>1, <2>1, <2>2, UpTo
  <2> QED
    BY <2>3 DEF T
<1>11. at \in [1 .. end -> Nat]
  BY <1>8, <1>10
<1> QED
  BY <1>9, <1>11 DEF at

\* A newline is collected when it is passed.
LEMMA NewlinesOf ==
    ASSUME NEW t, NEW width, Wide(t, width)
    PROVE  LET at == Offsets(t, width)
               found == Newlines(t, width)
               end == Len(t) + 1
           IN  /\ found[1] = <<>> /\ \A k \in 1 .. end : found[k] \in Seq(Nat)
               /\ \A k \in 1 .. Len(t) :
                     found[k + 1] = IF t[k] = Newline THEN Append(found[k], at[k]) ELSE found[k]
<1> DEFINE end == Len(t) + 1
           at == Offsets(t, width)
           Step(k, x) == IF t[k - 1] = Newline THEN Append(x, at[k - 1]) ELSE x
           G == [p \in (2 .. end) \X Seq(Nat) |-> Step(p[1], p[2])]
           Is(f) == f = [k \in 1 .. end |-> IF k = 1 THEN <<>> ELSE Step(k, f[k - 1])]
<1>1. Len(t) \in Nat /\ DOMAIN t = 1 .. Len(t) /\ end \in Nat
  BY IsSeqDomain DEF Wide
<1>2. \A k \in 1 .. end : at[k] \in Nat
  BY OffsetsOf
<1> HIDE DEF at
<1>3. \A k \in 2 .. end : \A x \in Seq(Nat) : G[<<k, x>>] = Step(k, x) /\ Step(k, x) \in Seq(Nat)
  <2> TAKE k \in 2 .. end
  <2> TAKE x \in Seq(Nat)
  <2>1. k - 1 \in 1 .. end
    BY <1>1
  <2>2. Append(x, at[k - 1]) \in Seq(Nat)
    BY <1>2, <2>1, AppendProperties
  <2> QED
    BY <2>2
<1> HIDE DEF G
<1>4. PICK f \in [1 .. end -> Seq(Nat)] : Recurs(f, end, <<>>, G)
  <2>1. \A k \in 2 .. end : \A x \in Seq(Nat) : G[<<k, x>>] \in Seq(Nat)
    BY <1>3
  <2> HIDE DEF end, Step
  <2>2. <<>> \in Seq(Nat)
    BY EmptySeq
  <2> QED
    BY <1>1, <2>1, <2>2, RecursiveFunction
<1>5. \A k \in 1 .. end : f[k] = IF k = 1 THEN <<>> ELSE Step(k, f[k - 1])
  <2> TAKE k \in 1 .. end
  <2>1. CASE k = 1
    BY <1>4, <2>1 DEF Recurs
  <2>2. CASE k # 1
    <3>1. k \in 2 .. end /\ k - 1 \in 1 .. end /\ f[k - 1] \in Seq(Nat)
      BY <1>1, <2>2
    <3> HIDE DEF Step, end
    <3> QED
      BY <1>3, <1>4, <2>2, <3>1 DEF Recurs
  <2> QED
    BY <2>1, <2>2
<1> DEFINE found == Newlines(t, width)
<1>6. Is(found)
  <2>1. Is(f)
    BY <1>5
  <2>2. found = CHOOSE f2 : Is(f2)
    BY Zenon DEF Newlines, at
  <2> QED
    BY <2>1, <2>2, Zenon
<1> HIDE DEF found, Is, Step
<1>7. \A k \in 1 .. end : found[k] = IF k = 1 THEN <<>> ELSE Step(k, found[k - 1])
  BY <1>6 DEF Is
<1>8. found[1] = <<>>
  BY <1>1, <1>7
<1>9. ASSUME NEW k \in 1 .. Len(t) PROVE found[k + 1] = Step(k + 1, found[k])
  <2>1. k + 1 \in 1 .. end /\ k + 1 # 1 /\ (k + 1) - 1 = k
    BY <1>1
  <2> QED
    BY <1>7, <2>1
<1>10. \A k \in 1 .. end : found[k] \in Seq(Nat)
  <2> DEFINE T == {k \in 1 .. end : found[k] \in Seq(Nat)}
  <2>1. 1 \in T
    <3>1. found[1] \in Seq(Nat)
      BY <1>8, EmptySeq
    <3> QED
      BY <1>1, <3>1
  <2>2. ASSUME NEW k \in 1 .. end - 1, k \in T PROVE k + 1 \in T
    <3>1. k \in 1 .. Len(t) /\ k + 1 \in 2 .. end /\ k + 1 \in 1 .. end
      BY <1>1
    <3>2. found[k + 1] \in Seq(Nat)
      BY <1>3, <1>9, <2>2, <3>1
    <3> QED
      BY <3>1, <3>2
  <2> HIDE DEF T, end
  <2>3. 1 .. end \subseteq T
    BY <1>1, <2>1, <2>2, UpTo
  <2> QED
    BY <2>3 DEF T
<1>11. \A k \in 1 .. Len(t) :
         found[k + 1] = IF t[k] = Newline THEN Append(found[k], at[k]) ELSE found[k]
  <2> TAKE k \in 1 .. Len(t)
  <2>1. (k + 1) - 1 = k
    BY <1>1
  <2> QED
    BY <1>9, <2>1 DEF Step
<1> QED
  BY <1>8, <1>10, <1>11 DEF found, at

\* The column starts over after a newline.
LEMMA ColumnOfPiece ==
    ASSUME NEW t, NEW width, Wide(t, width), NEW n \in DOMAIN t
    PROVE  \E before \in [1 .. n -> Nat] :
              /\ ColumnOf(t, width, n) = before[n]
              /\ before[1] = 0
              /\ \A k \in 1 .. n - 1 :
                    before[k + 1] = IF t[k] = Newline THEN 0 ELSE before[k] + width[t[k]]
<1> DEFINE Step(k, x) == IF t[k - 1] = Newline THEN 0 ELSE x + width[t[k - 1]]
           G == [p \in (2 .. n) \X Nat |-> Step(p[1], p[2])]
           Is(f) == f = [k \in 1 .. n |-> IF k = 1 \/ t[k - 1] = Newline THEN 0
                                           ELSE f[k - 1] + width[t[k - 1]]]
           before == CHOOSE f : Is(f)
<1>1. Len(t) \in Nat /\ DOMAIN t = 1 .. Len(t) /\ n \in 1 .. Len(t) /\ n \in Nat
  BY IsSeqDomain DEF Wide
<1>2. \A k \in 2 .. n : \A x \in Nat : G[<<k, x>>] = Step(k, x) /\ Step(k, x) \in Nat
  BY <1>1 DEF Wide
<1> HIDE DEF G
<1>3. PICK f \in [1 .. n -> Nat] : Recurs(f, n, 0, G)
  <2>1. \A k \in 2 .. n : \A x \in Nat : G[<<k, x>>] \in Nat
    BY <1>2
  <2> HIDE DEF Step
  <2>2. 0 \in Nat
    OBVIOUS
  <2> QED
    BY <1>1, <2>1, <2>2, RecursiveFunction
<1>4. \A k \in 1 .. n : f[k] = IF k = 1 \/ t[k - 1] = Newline THEN 0 ELSE f[k - 1] + width[t[k - 1]]
  <2> TAKE k \in 1 .. n
  <2>1. CASE k = 1
    BY <1>3, <2>1 DEF Recurs
  <2>2. CASE k # 1
    <3>1. k \in 2 .. n /\ k - 1 \in 1 .. n /\ f[k - 1] \in Nat
      BY <1>1, <2>2
    <3>2. f[k] = Step(k, f[k - 1])
      <4> HIDE DEF Step
      <4> QED
        BY <1>2, <1>3, <2>2, <3>1 DEF Recurs
    <3> QED
      BY <2>2, <3>2
  <2> QED
    BY <2>1, <2>2
<1>5. Is(f)
  BY <1>4
<1>6. Is(before)
  BY <1>5, Zenon
<1>7. ColumnOf(t, width, n) = before[n]
  BY Zenon DEF ColumnOf
<1> HIDE DEF before
<1>8. \A k \in 1 .. n : before[k] = IF k = 1 \/ t[k - 1] = Newline THEN 0
                                   ELSE before[k - 1] + width[t[k - 1]]
  BY <1>6
<1>9. before[1] = 0
  BY <1>1, <1>8
<1>10. \A k \in 1 .. n - 1 : before[k + 1] = IF t[k] = Newline THEN 0 ELSE before[k] + width[t[k]]
  <2>1. \A k \in 1 .. n - 1 : k + 1 \in 1 .. n /\ k + 1 # 1 /\ (k + 1) - 1 = k
    BY <1>1
  <2> QED
    BY <1>8, <2>1
<1>11. \A k \in 1 .. n : before[k] \in Nat
  <2> DEFINE T == {k \in 1 .. n : before[k] \in Nat}
  <2>1. 1 \in T
    BY <1>1, <1>9
  <2>2. \A k \in 1 .. n - 1 : k \in T => k + 1 \in T
    BY <1>1, <1>10, SMTT(60) DEF Wide
  <2> HIDE DEF T
  <2>3. 1 .. n \subseteq T
    BY <1>1, <2>1, <2>2, UpTo
  <2> QED
    BY <2>3 DEF T
<1>12. before \in [1 .. n -> Nat]
  BY <1>6, <1>11
<1> QED
  BY <1>7, <1>9, <1>10, <1>12

\* Where the line begins that newlines have ended lines before
LineStart(newlines) == IF newlines = <<>> THEN 0 ELSE newlines[Len(newlines)] + 1

\* The newlines before a piece are as many as the lines that ended, and lie before it.
LEMMA NewlinesSoFar ==
    ASSUME NEW t, NEW width, Wide(t, width), NEW n \in 1 .. Len(t) + 1
    PROVE  LET nl == Newlines(t, width)[n]
           IN  /\ nl \in Seq(Nat) /\ Len(nl) = LineOf(t, n) - 1
               /\ \A i \in 1 .. Len(nl) : nl[i] + 1 <= Offsets(t, width)[n]
<1> DEFINE end == Len(t) + 1
           at == Offsets(t, width)
           found == Newlines(t, width)
           Passed(k) == {m \in 1 .. k - 1 : t[m] = Newline}
           Good(k) == /\ IsFiniteSet(Passed(k)) /\ Len(found[k]) = Cardinality(Passed(k))
                      /\ \A i \in 1 .. Len(found[k]) : found[k][i] + 1 <= at[k]
           T == {k \in 1 .. end : Good(k)}
<1>1. Len(t) \in Nat /\ DOMAIN t = 1 .. Len(t) /\ end \in Nat
  BY IsSeqDomain DEF Wide
<1>2. /\ at[1] = 0 /\ \A k \in 1 .. end : at[k] \in Nat
      /\ \A k \in 1 .. Len(t) : at[k + 1] = at[k] + width[t[k]]
  BY OffsetsOf
<1>3. /\ found[1] = <<>> /\ \A k \in 1 .. end : found[k] \in Seq(Nat)
      /\ \A k \in 1 .. Len(t) :
            found[k + 1] = IF t[k] = Newline THEN Append(found[k], at[k]) ELSE found[k]
  BY NewlinesOf
<1> HIDE DEF at, found
<1>4. 1 \in T
  <2>1. Passed(1) = {}
    OBVIOUS
  <2>2. Len(found[1]) = 0
    BY <1>3, EmptySeq
  <2>3. Good(1)
    BY <2>1, <2>2, FS_EmptySet
  <2> QED
    BY <1>1, <2>3
<1>5. ASSUME NEW k \in 1 .. end - 1, k \in T PROVE k + 1 \in T
  <2>1. /\ k \in 1 .. Len(t) /\ k + 1 \in 1 .. end /\ k \in 1 .. end
        /\ at[k] \in Nat /\ found[k] \in Seq(Nat) /\ Len(found[k]) \in Nat
    <3>1. k \in 1 .. Len(t) /\ k + 1 \in 1 .. end /\ k \in 1 .. end
      BY <1>1
    <3> QED
      BY <1>2, <1>3, <3>1, LenProperties
  <2>2. Good(k)
    BY <1>5
  <2>3. \A i \in 1 .. Len(found[k]) : found[k][i] \in Nat
    BY <2>1, ElementOfSeq
  <2>4. Good(k + 1)
    <3>1. CASE t[k] = Newline
      <4>1. Passed(k + 1) = Passed(k) \cup {k} /\ k \notin Passed(k)
        BY <2>1, <3>1
      <4>2. at[k + 1] = at[k] + 1
        BY <1>2, <2>1, <3>1 DEF Wide
      <4>3. found[k + 1] = Append(found[k], at[k])
        BY <1>3, <2>1, <3>1
      <4>4. /\ Len(found[k + 1]) = Len(found[k]) + 1
            /\ \A i \in 1 .. Len(found[k]) : found[k + 1][i] = found[k][i]
            /\ found[k + 1][Len(found[k]) + 1] = at[k]
        BY <2>1, <4>3, AppendProperties
      <4>5. IsFiniteSet(Passed(k + 1)) /\ Cardinality(Passed(k + 1)) = Cardinality(Passed(k)) + 1
        <5> HIDE DEF Passed
        <5> QED
          BY <2>2, <4>1, FS_AddElement
      <4> HIDE DEF Passed
      <4>6. ASSUME NEW i \in 1 .. Len(found[k + 1]) PROVE found[k + 1][i] + 1 <= at[k + 1]
        <5>1. CASE i = Len(found[k]) + 1
          BY <2>1, <4>2, <4>4, <5>1
        <5>2. CASE i # Len(found[k]) + 1
          <6>1. i \in 1 .. Len(found[k])
            BY <2>1, <4>4, <5>2
          <6>2. found[k][i] + 1 <= at[k] /\ found[k][i] \in Nat
            BY <2>2, <2>3, <6>1
          <6>3. found[k + 1][i] = found[k][i]
            BY <4>4, <6>1
          <6>4. \A x, y \in Nat : x + 1 <= y => x + 1 <= y + 1
            OBVIOUS
          <6> QED
            BY <2>1, <4>2, <6>2, <6>3, <6>4
        <5> QED
          BY <5>1, <5>2
      <4> QED
        BY <2>2, <4>4, <4>5, <4>6
    <3>2. CASE t[k] # Newline
      <4>1. Passed(k + 1) = Passed(k)
        BY <2>1, <3>2
      <4>2. at[k + 1] >= at[k] /\ at[k + 1] \in Nat
        <5>1. width[t[k]] \in Nat
          BY <1>1, <2>1 DEF Wide
        <5>2. at[k + 1] = at[k] + width[t[k]]
          BY <1>2, <2>1
        <5> QED
          BY <2>1, <5>1, <5>2
      <4>3. found[k + 1] = found[k]
        BY <1>3, <2>1, <3>2
      <4>4. \A i \in 1 .. Len(found[k]) : found[k][i] + 1 <= at[k + 1]
        <5> TAKE i \in 1 .. Len(found[k])
        <5>1. found[k][i] \in Nat /\ found[k][i] + 1 <= at[k]
          BY <2>2, <2>3
        <5>2. \A x, y, z \in Nat : x + 1 <= y /\ y <= z => x + 1 <= z
          OBVIOUS
        <5> QED
          BY <2>1, <4>2, <5>1, <5>2
      <4> HIDE DEF Passed
      <4> QED
        BY <2>2, <4>1, <4>3, <4>4
    <3> QED
      BY <3>1, <3>2
  <2> QED
    BY <2>1, <2>4
<1>6. Good(n)
  <2> HIDE DEF T, end
  <2>1. 1 .. end \subseteq T
    BY <1>1, <1>4, <1>5, UpTo
  <2> QED
    BY <2>1 DEF T, end
<1>7. Len(found[n]) = LineOf(t, n) - 1
  <2>1. Cardinality(Passed(n)) \in Nat
    BY <1>6, FS_CardinalityType
  <2>2. LineOf(t, n) = 1 + Cardinality(Passed(n))
    BY DEF LineOf
  <2> QED
    BY <1>6, <2>1, <2>2
<1> QED
  BY <1>3, <1>6, <1>7 DEF found, at

\* The column of a piece is its distance from where its line begins.
LEMMA ColumnFromLineStart ==
    ASSUME NEW t, NEW width, Wide(t, width), NEW n \in DOMAIN t
    PROVE  LET start == LineStart(Newlines(t, width)[n])
           IN  start \in Nat /\ ColumnOf(t, width, n) = Offsets(t, width)[n] - start
<1> DEFINE end == Len(t) + 1
           at == Offsets(t, width)
           found == Newlines(t, width)
           Start(k) == LineStart(found[k])
<1>1. Len(t) \in Nat /\ DOMAIN t = 1 .. Len(t) /\ n \in 1 .. Len(t) /\ n \in Nat
  BY IsSeqDomain DEF Wide
<1>2. /\ at[1] = 0 /\ \A k \in 1 .. end : at[k] \in Nat
      /\ \A k \in 1 .. Len(t) : at[k + 1] = at[k] + width[t[k]]
  BY OffsetsOf
<1>3. /\ found[1] = <<>> /\ \A k \in 1 .. end : found[k] \in Seq(Nat)
      /\ \A k \in 1 .. Len(t) :
            found[k + 1] = IF t[k] = Newline THEN Append(found[k], at[k]) ELSE found[k]
  BY NewlinesOf
<1>4. PICK before \in [1 .. n -> Nat] :
              /\ ColumnOf(t, width, n) = before[n]
              /\ before[1] = 0
              /\ \A k \in 1 .. n - 1 :
                    before[k + 1] = IF t[k] = Newline THEN 0 ELSE before[k] + width[t[k]]
  BY ColumnOfPiece
<1> HIDE DEF at, found
<1> DEFINE T == {k \in 1 .. n : Start(k) \in Nat /\ before[k] = at[k] - Start(k)}
<1>5. 1 \in T
  <2>1. Start(1) = 0
    BY <1>3 DEF LineStart
  <2> QED
    BY <1>1, <1>2, <1>4, <2>1
<1>6. ASSUME NEW k \in 1 .. n - 1, k \in T PROVE k + 1 \in T
  <2>1. k \in 1 .. Len(t) /\ k \in 1 .. end /\ k + 1 \in 1 .. n
    BY <1>1
  <2>2. at[k] \in Nat /\ found[k] \in Seq(Nat)
    BY <1>2, <1>3, <2>1
  <2>3. CASE t[k] = Newline
    <3>1. at[k + 1] = at[k] + 1
      BY <1>2, <2>1, <2>3 DEF Wide
    <3>2. found[k + 1] = Append(found[k], at[k])
      BY <1>3, <2>1, <2>3
    <3>3. Append(found[k], at[k]) # <<>> /\ Append(found[k], at[k])[Len(Append(found[k], at[k]))] = at[k]
      BY <2>2, AppendProperties
    <3>4. Start(k + 1) = at[k] + 1
      BY <3>2, <3>3 DEF LineStart
    <3>5. before[k + 1] = 0
      BY <1>4, <2>3
    <3> HIDE DEF Start
    <3> QED
      BY <2>1, <2>2, <3>1, <3>4, <3>5
  <2>4. CASE t[k] # Newline
    <3>1. at[k + 1] = at[k] + width[t[k]] /\ width[t[k]] \in Nat
      BY <1>1, <1>2, <2>1 DEF Wide
    <3>2. Start(k + 1) = Start(k)
      BY <1>3, <2>1, <2>4
    <3>3. before[k + 1] = before[k] + width[t[k]]
      BY <1>4, <2>4
    <3> HIDE DEF Start
    <3>4. Start(k) \in Nat /\ before[k] = at[k] - Start(k)
      BY <1>6
    <3> QED
      BY <2>1, <2>2, <3>1, <3>2, <3>3, <3>4
  <2> QED
    BY <2>3, <2>4
<1>7. n \in T
  <2> HIDE DEF T
  <2>1. 1 .. n \subseteq T
    BY <1>1, <1>5, <1>6, UpTo
  <2> QED
    BY <1>1, <2>1
<1> QED
  BY <1>4, <1>7 DEF at, found

\* What is collected later comes after what was collected first, and lies further on:
\* the line of a piece ends with the piece or behind it.
LEMMA NewlinesLater ==
    ASSUME NEW t, NEW width, Wide(t, width), NEW n \in DOMAIN t
    PROVE  LET nl == Newlines(t, width)[n]
               all == Newlines(t, width)[Len(t) + 1]
               past == Offsets(t, width)[n + 1]
           IN  /\ Len(nl) \in Nat /\ Len(all) \in Nat /\ Len(nl) <= Len(all)
               /\ \A i \in 1 .. Len(nl) : all[i] = nl[i]
               /\ Len(nl) < Len(all) => all[Len(nl) + 1] + 1 >= past
               /\ Offsets(t, width)[Len(t) + 1] >= past
<1> DEFINE end == Len(t) + 1
           at == Offsets(t, width)
           found == Newlines(t, width)
           nl == found[n]
           past == at[n + 1]
           Good(k) == /\ Len(nl) <= Len(found[k])
                      /\ \A i \in 1 .. Len(nl) : found[k][i] = nl[i]
                      /\ Len(nl) < Len(found[k]) => found[k][Len(nl) + 1] + 1 >= past
                      /\ at[k] >= past
           T == {k \in 1 .. end : k <= n \/ Good(k)}
<1>1. /\ Len(t) \in Nat /\ DOMAIN t = 1 .. Len(t) /\ end \in Nat
      /\ n \in 1 .. Len(t) /\ n \in Nat /\ n \in 1 .. end /\ n + 1 \in 1 .. end
  BY IsSeqDomain DEF Wide
<1>2. /\ \A k \in 1 .. end : at[k] \in Nat
      /\ \A k \in 1 .. Len(t) : at[k + 1] = at[k] + width[t[k]]
  BY OffsetsOf
<1>3. /\ \A k \in 1 .. end : found[k] \in Seq(Nat)
      /\ \A k \in 1 .. Len(t) :
            found[k + 1] = IF t[k] = Newline THEN Append(found[k], at[k]) ELSE found[k]
  BY NewlinesOf
<1> HIDE DEF at, found
<1>4. past \in Nat /\ nl \in Seq(Nat) /\ Len(nl) \in Nat
  BY <1>1, <1>2, <1>3, LenProperties
<1>5. 1 \in T
  BY <1>1
<1> HIDE DEF nl, past
<1>6. ASSUME NEW k \in 1 .. end - 1, k \in T PROVE k + 1 \in T
  <2>1. k \in 1 .. Len(t) /\ k + 1 \in 1 .. end /\ k \in 1 .. end
    BY <1>1
  <2>2. /\ at[k] \in Nat /\ at[k + 1] \in Nat /\ found[k] \in Seq(Nat) /\ Len(found[k]) \in Nat
        /\ width[t[k]] \in Nat /\ at[k + 1] = at[k] + width[t[k]]
    BY <1>1, <1>2, <1>3, <2>1, LenProperties DEF Wide
  <2>3. CASE k < n
    BY <1>1, <2>1, <2>3
  <2>4. CASE k >= n /\ t[k] = Newline
    <3>1. at[k + 1] = at[k] + 1
      BY <2>2, <2>4 DEF Wide
    <3>2. found[k + 1] = Append(found[k], at[k])
      BY <1>3, <2>1, <2>4
    <3>3. /\ Len(found[k + 1]) = Len(found[k]) + 1
          /\ \A i \in 1 .. Len(found[k]) : found[k + 1][i] = found[k][i]
          /\ found[k + 1][Len(found[k]) + 1] = at[k]
      BY <2>2, <3>2, AppendProperties
    <3>4. CASE k = n
      <4>1. found[k] = nl /\ past = at[k] + 1
        BY <3>1, <3>4 DEF nl, past
      <4>2. Good(k + 1)
        BY <1>4, <2>2, <3>1, <3>3, <4>1
      <4> QED
        BY <2>1, <4>2
    <3>5. CASE k # n
      <4>1. Good(k)
        BY <1>1, <1>6, <2>1, <2>4, <3>5
      <4>2. \A i \in 1 .. Len(nl) : found[k + 1][i] = nl[i]
        <5> TAKE i \in 1 .. Len(nl)
        <5>1. i \in 1 .. Len(found[k])
          BY <1>4, <2>2, <4>1
        <5> QED
          BY <3>3, <4>1, <5>1
      <4>3. found[k + 1][Len(nl) + 1] + 1 >= past
        <5>1. CASE Len(nl) = Len(found[k])
          BY <1>4, <2>2, <3>3, <4>1, <5>1, SMTT(60)
        <5>2. CASE Len(nl) # Len(found[k])
          <6>1. Len(nl) < Len(found[k]) /\ Len(nl) + 1 \in 1 .. Len(found[k])
            <7>1. Len(nl) \in Nat /\ Len(found[k]) \in Nat
              BY <1>4, <2>2, LenProperties
            <7>2. Len(nl) <= Len(found[k])
              BY <4>1
            <7> HIDE DEF nl
            <7> QED
              BY <5>2, <7>1, <7>2
          <6>2. found[k + 1][Len(nl) + 1] = found[k][Len(nl) + 1]
            BY <3>3, <6>1
          <6> QED
            BY <4>1, <6>1, <6>2
        <5> QED
          BY <5>1, <5>2
      <4>4. Len(nl) <= Len(found[k + 1]) /\ at[k + 1] >= past
        BY <1>4, <2>2, <3>1, <3>3, <4>1
      <4> QED
        BY <2>1, <4>2, <4>3, <4>4
    <3> QED
      BY <3>4, <3>5
  <2>5. CASE k >= n /\ t[k] # Newline
    <3>1. found[k + 1] = found[k]
      BY <1>3, <2>1, <2>5
    <3>2. CASE k = n
      <4>1. found[k] = nl /\ past = at[k + 1]
        BY <3>2 DEF nl, past
      <4>2. Good(k + 1)
        BY <1>4, <2>2, <3>1, <4>1
      <4> QED
        BY <2>1, <4>2
    <3>3. CASE k # n
      <4>1. Good(k)
        BY <1>1, <1>6, <2>1, <2>5, <3>3
      <4>2. at[k + 1] >= past
        BY <1>4, <2>2, <4>1
      <4> QED
        BY <2>1, <3>1, <4>1, <4>2
    <3> QED
      BY <3>2, <3>3
  <2> QED
    BY <1>1, <2>1, <2>3, <2>4, <2>5
<1>7. Good(end)
  <2> HIDE DEF T, Good
  <2>1. 1 .. end \subseteq T
    <3> HIDE DEF end
    <3> QED
      BY <1>1, <1>5, <1>6, UpTo
  <2> QED
    BY <1>1, <2>1 DEF T
<1>8. Len(found[end]) \in Nat
  BY <1>1, <1>3, LenProperties
<1> QED
  BY <1>4, <1>7, <1>8 DEF at, found, nl, past

\* Where the lines start and the last one ends.
LEMMA BoundsOfLines ==
    ASSUME NEW info, info.newlines \in Seq(Nat), info.len \in Nat
    PROVE  LET nl == info.newlines
               bounds == LineBounds(info)
           IN  /\ Len(nl) \in Nat /\ Len(bounds) = Len(nl) + 2
               /\ bounds[1] = 0 /\ bounds[Len(nl) + 2] = info.len
               /\ \A i \in 1 .. Len(nl) : bounds[i + 1] = nl[i] + 1
<1> DEFINE nl == info.newlines
           starts == [i \in DOMAIN nl |-> nl[i] + 1]
           first == <<0>> \o starts
<1>1. Len(nl) \in Nat /\ DOMAIN nl = 1 .. Len(nl) /\ nl \in [1 .. Len(nl) -> Nat]
  BY LenProperties
<1>2. starts \in Seq(Nat) /\ Len(starts) = Len(nl)
  <2>1. starts \in [1 .. Len(nl) -> Nat]
    BY <1>1
  <2> HIDE DEF starts
  <2>2. starts \in Seq(Nat)
    BY <1>1, <2>1, SeqDef
  <2>3. 1 .. Len(starts) = 1 .. Len(nl) /\ Len(starts) \in Nat
    BY <2>1, <2>2, LenProperties
  <2>4. \A a, b \in Nat : 1 .. a = 1 .. b => ~(a < b)
    <3> SUFFICES ASSUME NEW a \in Nat, NEW b \in Nat, 1 .. a = 1 .. b, a < b PROVE FALSE
      OBVIOUS
    <3>1. b \in 1 .. b /\ b \notin 1 .. a
      OBVIOUS
    <3> QED
      BY <3>1
  <2> QED
    BY <1>1, <2>2, <2>3, <2>4
<1>3. \A i \in 1 .. Len(nl) : starts[i] = nl[i] + 1
  BY <1>1
<1> HIDE DEF starts
<1>4. <<0>> \in Seq(Nat) /\ Len(<<0>>) = 1 /\ <<0>>[1] = 0 /\ <<info.len>> \in Seq(Nat)
      /\ Len(<<info.len>>) = 1 /\ <<info.len>>[1] = info.len
  OBVIOUS
<1>5. /\ first \in Seq(Nat) /\ Len(first) = Len(nl) + 1 /\ first[1] = 0
      /\ \A i \in 1 .. Len(nl) : first[i + 1] = nl[i] + 1
  <2>1. /\ first \in Seq(Nat) /\ Len(first) = Len(<<0>>) + Len(starts)
        /\ \A i \in 1 .. Len(<<0>>) + Len(starts) :
              first[i] = IF i <= Len(<<0>>) THEN <<0>>[i] ELSE starts[i - Len(<<0>>)]
    BY <1>2, <1>4, ConcatProperties
  <2> HIDE DEF first
  <2>2. \A i \in 1 .. Len(nl) : i + 1 \in 1 .. Len(nl) + 1 /\ ~(i + 1 <= 1) /\ (i + 1) - 1 = i
    BY <1>1
  <2>3. Len(first) = Len(nl) + 1 /\ first[1] = 0
    BY <1>1, <1>2, <1>4, <2>1
  <2>4. ASSUME NEW i \in 1 .. Len(nl) PROVE first[i + 1] = nl[i] + 1
    <3>1. first[i + 1] = starts[i]
      BY <1>1, <1>2, <1>4, <2>1, <2>2
    <3> QED
      BY <1>3, <3>1
  <2> QED
    BY <2>1, <2>3, <2>4
<1> HIDE DEF first
<1>6. LineBounds(info) = first \o <<info.len>>
  BY Zenon DEF LineBounds, first, starts, nl
<1> HIDE DEF nl
<1>7. /\ Len(LineBounds(info)) = Len(first) + 1
      /\ \A i \in 1 .. Len(first) + 1 :
            LineBounds(info)[i] = IF i <= Len(first) THEN first[i] ELSE <<info.len>>[i - Len(first)]
  BY <1>4, <1>5, <1>6, ConcatProperties
<1>8. ASSUME NEW i \in 1 .. Len(nl) PROVE LineBounds(info)[i + 1] = nl[i] + 1
  <2>1. i + 1 \in 1 .. Len(first) + 1 /\ i + 1 <= Len(first)
    BY <1>1, <1>5
  <2> QED
    BY <1>5, <1>7, <2>1
<1>9. LineBounds(info)[1] = 0
  BY <1>1, <1>5, <1>7
<1>10. LineBounds(info)[Len(nl) + 2] = info.len
  <2>1. /\ Len(nl) + 2 \in 1 .. Len(first) + 1 /\ ~(Len(nl) + 2 <= Len(first))
        /\ (Len(nl) + 2) - Len(first) = 1
    BY <1>1, <1>5
  <2> QED
    BY <1>4, <1>7, <2>1
<1>11. Len(LineBounds(info)) = Len(nl) + 2
  BY <1>1, <1>5, <1>7
<1> QED
  BY <1>1, <1>8, <1>9, <1>10, <1>11 DEF nl

\* A byte of a piece is in the line of the piece, and in no line before it.
LEMMA LineOfByte ==
    ASSUME NEW t, NEW width, Wide(t, width), NEW n \in DOMAIN t, NEW o \in Nat,
           Offsets(t, width)[n] <= o, o < Offsets(t, width)[n + 1]
    PROVE  LET bounds == LineBounds(FileInfo(t, width))
           IN  /\ HasLine(bounds, o)
               /\ OffsetToLineCol(bounds, o) =
                     [line |-> LineOf(t, n),
                      col |-> o - LineStart(Newlines(t, width)[n])]
<1> DEFINE end == Len(t) + 1
           at == Offsets(t, width)
           nl == Newlines(t, width)[n]
           all == Newlines(t, width)[end]
           bounds == LineBounds(FileInfo(t, width))
           here == LineOf(t, n)
<1>1. /\ Len(t) \in Nat /\ DOMAIN t = 1 .. Len(t)
      /\ n \in 1 .. end /\ n + 1 \in 1 .. end /\ end \in 1 .. end /\ n \in 1 .. Len(t)
  BY IsSeqDomain DEF Wide
<1>2. at[n] \in Nat /\ at[n + 1] \in Nat /\ at[end] \in Nat /\ all \in Seq(Nat)
  BY <1>1, OffsetsOf, NewlinesOf
<1>3. nl \in Seq(Nat) /\ Len(nl) = here - 1 /\ \A i \in 1 .. Len(nl) : nl[i] + 1 <= at[n]
  BY <1>1, NewlinesSoFar
<1>4. /\ Len(nl) \in Nat /\ Len(all) \in Nat /\ Len(nl) <= Len(all)
      /\ \A i \in 1 .. Len(nl) : all[i] = nl[i]
      /\ Len(nl) < Len(all) => all[Len(nl) + 1] + 1 >= at[n + 1]
      /\ at[end] >= at[n + 1]
  BY NewlinesLater
<1>5. FileInfo(t, width).newlines = all /\ FileInfo(t, width).len = at[end]
  BY DEF FileInfo
<1>6. /\ Len(bounds) = Len(all) + 2 /\ bounds[1] = 0 /\ bounds[Len(all) + 2] = at[end]
      /\ \A i \in 1 .. Len(all) : bounds[i + 1] = all[i] + 1
  BY <1>2, <1>5, BoundsOfLines
<1> HIDE DEF at, nl, all, bounds
<1>7. here = Len(nl) + 1 /\ here \in 1 .. Len(bounds) - 1
  <2>1. here \in Int
    <3>1. IsFiniteSet({m \in 1 .. n - 1 : t[m] = Newline})
      <4>1. IsFiniteSet(1 .. n - 1)
        BY <1>1, FS_Interval
      <4> QED
        BY <4>1, FS_Subset
    <3> QED
      BY <3>1, FS_CardinalityType DEF LineOf
  <2> HIDE DEF here
  <2> QED
    BY <1>3, <1>4, <1>6, <2>1
<1> HIDE DEF here
<1>8. \A i \in 1 .. Len(nl) : nl[i] \in Nat /\ bounds[i + 1] = nl[i] + 1 /\ bounds[i + 1] <= at[n]
  <2> TAKE i \in 1 .. Len(nl)
  <2>1. i \in 1 .. Len(all)
    BY <1>4
  <2>2. nl[i] \in Nat
    BY <1>3, ElementOfSeq
  <2> QED
    BY <1>3, <1>4, <1>6, <2>1, <2>2
<1>9. bounds[here] = LineStart(nl) /\ bounds[here] \in Nat /\ bounds[here] <= o
  <2>1. CASE nl = <<>>
    <3>1. here = 1
      BY <1>3, <1>7, <2>1, EmptySeq
    <3> QED
      BY <1>2, <1>6, <2>1, <3>1 DEF LineStart
  <2>2. CASE nl # <<>>
    <3>1. Len(nl) \in 1 .. Len(nl)
      BY <1>3, <2>2, EmptySeq
    <3>2. nl[Len(nl)] \in Nat /\ bounds[here] = nl[Len(nl)] + 1 /\ bounds[here] <= at[n]
      BY <1>7, <1>8, <3>1
    <3>3. at[n] <= o
      BY DEF at
    <3> QED
      BY <1>2, <2>2, <3>2, <3>3 DEF LineStart
  <2> QED
    BY <2>1, <2>2
<1>10. o < bounds[here + 1]
  <2>1. o < at[n + 1]
    BY DEF at
  <2>2. CASE Len(nl) < Len(all)
    <3>1. Len(nl) + 1 \in 1 .. Len(all)
      BY <1>4, <2>2
    <3>2. all[Len(nl) + 1] \in Nat
      BY <1>2, <3>1, ElementOfSeq
    <3>3. bounds[here + 1] = all[Len(nl) + 1] + 1
      BY <1>6, <1>7, <3>1
    <3> QED
      BY <1>2, <1>4, <2>1, <2>2, <3>2, <3>3
  <2>3. CASE Len(nl) = Len(all)
    <3>1. bounds[here + 1] = at[end]
      BY <1>4, <1>6, <1>7, <2>3
    <3> QED
      BY <1>2, <1>4, <2>1, <3>1
  <2> QED
    BY <1>4, <2>2, <2>3
<1>11. ASSUME NEW m \in 1 .. here - 1 PROVE ~(o < bounds[m + 1])
  <2>1. m \in 1 .. Len(nl)
    BY <1>4, <1>7
  <2>2. bounds[m + 1] <= at[n] /\ bounds[m + 1] \in Nat
    BY <1>8, <2>1
  <2>3. at[n] <= o
    BY DEF at
  <2> QED
    BY <1>2, <2>2, <2>3
<1> DEFINE In(m) == bounds[m] <= o /\ o < bounds[m + 1]
           First(m) == In(m) /\ \A k \in 1 .. m - 1 : ~In(k)
           line == CHOOSE m \in 1 .. Len(bounds) - 1 : First(m)
<1>12. In(here) /\ \A m \in 1 .. here - 1 : ~In(m)
  BY <1>9, <1>10, <1>11
<1>13. HasLine(bounds, o)
  BY <1>7, <1>12 DEF HasLine
<1>14. line = here
  <2> HIDE DEF In
  <2>1. First(here)
    BY <1>12
  <2>2. line \in 1 .. Len(bounds) - 1 /\ First(line)
    BY <1>7, <2>1
  <2> HIDE DEF line
  <2>3. here \in Nat /\ line \in Nat /\ here >= 1 /\ line >= 1
    BY <1>4, <1>6, <1>7, <2>2
  <2>4. ~(line < here)
    BY <1>12, <2>2, <2>3
  <2>5. ~(here < line)
    BY <1>12, <2>2, <2>3
  <2> QED
    BY <2>3, <2>4, <2>5
<1>15. OffsetToLineCol(bounds, o) = [line |-> line, col |-> o - bounds[line]]
  BY Zenon DEF OffsetToLineCol
<1> HIDE DEF line
<1> QED
  BY <1>9, <1>13, <1>14, <1>15 DEF bounds, here, nl

\* lexer.rs finds for the pieces from j to k of any text the lines and columns where
\* the first begins and the last ends, and never panics (lexer.rs:36-70).
THEOREM PiecesHavePlaces ==
    ASSUME NEW t, NEW width, Wide(t, width), NEW j \in DOMAIN t, NEW k \in DOMAIN t
    PROVE  LET info == FileInfo(t, width)
               at == Offsets(t, width)
               span == <<at[j], at[k + 1]>>
           IN  /\ Locatable(info, span)
               /\ Span1ToSpan2(info, span) = PlaceOf(t, width, j, k)
<1> DEFINE info == FileInfo(t, width)
           at == Offsets(t, width)
           span == <<at[j], at[k + 1]>>
           bounds == LineBounds(info)
           o == at[k + 1] - 1
<1>1. /\ Len(t) \in Nat /\ DOMAIN t = 1 .. Len(t)
      /\ width[t[j]] \in Nat \ {0} /\ width[t[k]] \in Nat \ {0}
  BY IsSeqDomain DEF Wide
<1>2. /\ at[j] \in Nat /\ at[k] \in Nat
      /\ at[j + 1] = at[j] + width[t[j]] /\ at[k + 1] = at[k] + width[t[k]]
  <2>1. /\ at \in [1 .. Len(t) + 1 -> Nat]
        /\ \A n \in 1 .. Len(t) : at[n + 1] = at[n] + width[t[n]]
    BY OffsetsOf
  <2>2. /\ j \in 1 .. Len(t) /\ j \in 1 .. Len(t) + 1
        /\ k \in 1 .. Len(t) /\ k \in 1 .. Len(t) + 1
    BY <1>1
  <2> HIDE DEF at
  <2> QED
    BY <2>1, <2>2
<1>3. at[j] < at[j + 1] /\ o \in Nat /\ at[k] <= o /\ o < at[k + 1]
  <2> HIDE DEF at
  <2> QED
    BY <1>1, <1>2, SMTT(60)
<1>4. /\ HasLine(bounds, at[j])
      /\ OffsetToLineCol(bounds, at[j]) =
            [line |-> LineOf(t, j), col |-> at[j] - LineStart(Newlines(t, width)[j])]
  BY <1>2, <1>3, LineOfByte
<1>5. /\ HasLine(bounds, o)
      /\ OffsetToLineCol(bounds, o) =
            [line |-> LineOf(t, k), col |-> o - LineStart(Newlines(t, width)[k])]
  BY <1>3, LineOfByte
<1>6. ColumnOf(t, width, j) = at[j] - LineStart(Newlines(t, width)[j])
  BY ColumnFromLineStart
<1>7. /\ ColumnOf(t, width, k) = at[k] - LineStart(Newlines(t, width)[k])
      /\ LineStart(Newlines(t, width)[k]) \in Nat
  BY ColumnFromLineStart
<1>8. span[1] = at[j] /\ span[2] - 1 = o
  OBVIOUS
<1>9. (o - LineStart(Newlines(t, width)[k])) + 1 = ColumnOf(t, width, k) + width[t[k]]
  <2> HIDE DEF at
  <2> QED
    BY <1>1, <1>2, <1>7, SMTT(60)
<1> HIDE DEF at, span, o
<1>10. Locatable(info, span)
  BY <1>4, <1>5, <1>8 DEF Locatable
<1> HIDE DEF info
<1>11. Span1ToSpan2(info, span) =
         [start_line |-> LineOf(t, j), start_col |-> ColumnOf(t, width, j),
          end_line |-> LineOf(t, k), end_col |-> ColumnOf(t, width, k) + width[t[k]]]
  BY <1>4, <1>5, <1>6, <1>8, <1>9 DEF Span1ToSpan2
<1> QED
  BY <1>10, <1>11 DEF PlaceOf, info, span, at

\* A text with one piece more has its other pieces where they were.
LEMMA LongerOffsets ==
    ASSUME NEW t, NEW width, NEW p, Wide(t, width), Wide(Append(t, p), width)
    PROVE  Offsets(Append(t, p), width)[Len(t) + 2] = Offsets(t, width)[Len(t) + 1] + width[p]
<1> DEFINE t2 == Append(t, p)
           n == Len(t)
           at == Offsets(t, width)
           at2 == Offsets(t2, width)
           T == {k \in 1 .. n + 1 : at2[k] = at[k]}
<1>1. /\ n \in Nat /\ Len(t2) = n + 1 /\ t2[n + 1] = p
      /\ \A k \in 1 .. n : t2[k] = t[k]
  BY IsSeqDomain, PushedVector DEF Wide
<1>2. at[1] = 0 /\ \A k \in 1 .. n : at[k + 1] = at[k] + width[t[k]]
  BY OffsetsOf
<1>3. at2[1] = 0 /\ \A k \in 1 .. Len(t2) : at2[k + 1] = at2[k] + width[t2[k]]
  BY OffsetsOf
<1> HIDE DEF at, at2, n, t2
<1>4. 1 \in T
  BY <1>1, <1>2, <1>3
<1>5. ASSUME NEW k \in 1 .. (n + 1) - 1, k \in T PROVE k + 1 \in T
  <2>1. k \in 1 .. n /\ k \in 1 .. Len(t2) /\ k + 1 \in 1 .. n + 1
    BY <1>1
  <2> QED
    BY <1>1, <1>2, <1>3, <1>5, <2>1
<1>6. n + 1 \in T
  <2> HIDE DEF T
  <2>1. n + 1 \in Nat
    BY <1>1
  <2>2. 1 .. n + 1 \subseteq T
    BY <1>4, <1>5, <2>1, UpTo
  <2> QED
    BY <1>1, <2>2
<1>7. at2[(n + 1) + 1] = at2[n + 1] + width[p]
  <2>1. n + 1 \in 1 .. Len(t2)
    BY <1>1
  <2> QED
    BY <1>1, <1>3, <2>1
<1>8. (n + 1) + 1 = n + 2
  BY <1>1
<1> QED
  BY <1>6, <1>7, <1>8 DEF at, at2, n, t2

\* Each byte of a text is a byte of some piece, and therefore has a line.
LEMMA EveryByteHasLine ==
    ASSUME NEW t, NEW width, Wide(t, width), NEW o \in Nat,
           o < Offsets(t, width)[Len(t) + 1]
    PROVE  HasLine(LineBounds(FileInfo(t, width)), o)
<1> DEFINE end == Len(t) + 1
           at == Offsets(t, width)
           Found == \E m \in DOMAIN t : at[m] <= o /\ o < at[m + 1]
           T == {k \in 1 .. end : o < at[k] => Found}
<1>1. end \in Nat /\ Len(t) \in Nat /\ DOMAIN t = 1 .. Len(t)
  BY IsSeqDomain DEF Wide
<1>2. at[1] = 0 /\ \A k \in 1 .. end : at[k] \in Nat
  BY OffsetsOf
<1> HIDE DEF at
<1>3. 1 \in T
  BY <1>1, <1>2
<1>4. ASSUME NEW k \in 1 .. end - 1, k \in T PROVE k + 1 \in T
  <2>1. k \in DOMAIN t /\ k + 1 \in 1 .. end /\ at[k] \in Nat
    BY <1>1, <1>2
  <2>2. CASE at[k] <= o
    BY <2>1, <2>2
  <2>3. CASE o < at[k]
    BY <1>4, <2>1, <2>3
  <2> QED
    BY <2>1, <2>2, <2>3
<1>5. Found
  <2> HIDE DEF T, end, Found
  <2>1. 1 .. end \subseteq T
    BY <1>1, <1>3, <1>4, UpTo
  <2>2. end \in 1 .. end
    BY <1>1 DEF end
  <2>3. o < at[end]
    BY DEF at, end
  <2> QED
    BY <2>1, <2>2, <2>3 DEF T
<1> QED
  BY <1>5, LineOfByte DEF at

\* The text that the parser has read, as long as there was no word that is none
TextWide ==
    outcome = Running \/ outcome.t = "Ok" =>
        Wide(text, Width) /\ consumed = Offsets(text, Width)[Len(text) + 1]

\* Reading a piece.
LEMMA ReadWide ==
    ASSUME Width[Newline] = 1, Wide(text, Width), consumed = Offsets(text, Width)[Len(text) + 1],
           NEW p, Width[p] \in Nat \ {0}, text' = Append(text, p), consumed' = consumed + Width[p]
    PROVE  Wide(text', Width) /\ consumed' = Offsets(text', Width)[Len(text') + 1]
<1>1. /\ IsSeq(text) /\ Len(text) \in Nat /\ DOMAIN text = 1 .. Len(text)
  BY IsSeqDomain DEF Wide
<1>2. /\ IsSeq(text') /\ Len(text') = Len(text) + 1 /\ DOMAIN text' = 1 .. Len(text) + 1
      /\ \A k \in 1 .. Len(text) : text'[k] = text[k]
      /\ text'[Len(text) + 1] = p
  BY <1>1, PushedVector
<1>3. ASSUME NEW k \in DOMAIN text' PROVE Width[text'[k]] \in Nat \ {0}
  <2>1. k \in 1 .. Len(text) \/ k = Len(text) + 1
    BY <1>1, <1>2
  <2> QED
    BY <1>1, <1>2, <2>1 DEF Wide
<1>4. Wide(text', Width)
  BY <1>2, <1>3 DEF Wide
<1>5. Wide(Append(text, p), Width)
  BY <1>4
<1>6. Offsets(Append(text, p), Width)[Len(text) + 2] = consumed + Width[p]
  BY <1>5, LongerOffsets
<1>7. (Len(text) + 1) + 1 = Len(text) + 2
  BY <1>1
<1> QED
  BY <1>2, <1>4, <1>6, <1>7

\* In an accepted text and in the part of one that is read, each span on the stack
\* that is not empty has its lines and columns (lexer.rs:47-70).
SpansHaveLines ==
    outcome = Running \/ outcome.t = "Ok" =>
        \A i \in DOMAIN symbols :
            symbols[i].l < symbols[i].r =>
                Locatable(FileInfo(text, Width), <<symbols[i].l, symbols[i].r>>)

\* No symbol that the parser makes, from whatever text and with whatever tables, has
\* a span that would make offset_to_line_col panic (lexer.rs:62-70).
THEOREM SpansAlwaysHaveLines == Width[Newline] = 1 => (Spec => []SpansHaveLines)
<1> SUFFICES ASSUME Width[Newline] = 1 PROVE Spec => []SpansHaveLines
  OBVIOUS
<1>1. Init => TextWide
  <2> SUFFICES ASSUME Init PROVE TextWide
    OBVIOUS
  <2>1. text = <<>> /\ consumed = 0
    BY DEF Init
  <2>2. IsSeq(<<>>) /\ Len(<<>>) = 0 /\ DOMAIN <<>> = {}
    <3>1. <<>> \in Seq({}) /\ Len(<<>>) = 0 /\ DOMAIN <<>> = {}
      OBVIOUS
    <3>2. IsSeq(<<>>)
      BY <3>1, SeqIsSeq
    <3> QED
      BY <3>1, <3>2
  <2>3. Wide(text, Width)
    BY <2>1, <2>2 DEF Wide
  <2>4. Offsets(text, Width)[1] = 0
    BY <2>3, OffsetsOf
  <2> QED
    BY <2>1, <2>2, <2>3, <2>4 DEF TextWide
<1>2. TextWide /\ [Next]_vars => TextWide'
  <2> SUFFICES ASSUME TextWide, [Next]_vars PROVE TextWide'
    OBVIOUS
  <2>1. CASE SkipBlank
    <3>1. PICK b \in Blanks : text' = Append(text, b) /\ consumed' = consumed + Width[b]
      BY <2>1 DEF SkipBlank
    <3>2. Width[b] \in Nat \ {0}
      BY WidthAssumption
    <3>3. outcome = Running
      BY <2>1 DEF SkipBlank, Scanning
    <3> QED
      BY <3>1, <3>2, <3>3, ReadWide DEF TextWide
  <2>2. CASE NextToken
    <3>1. PICK p : Kind(p) \in Terminals /\ text' = Append(text, p) /\ consumed' = consumed + Width[p]
      BY <2>2 DEF NextToken
    <3>2. Width[p] \in Nat \ {0}
      BY <3>1, WidthAssumption DEF Kind
    <3>3. outcome = Running
      BY <2>2 DEF NextToken, Scanning
    <3> QED
      BY <3>1, <3>2, <3>3, ReadWide DEF TextWide
  <2>3. CASE InvalidToken
    BY <2>3 DEF InvalidToken, TextWide, Fails, Running
  <2>4. CASE EndOfText \/ Shift \/ Reduce \/ LiteralPanics \/ Accept \/ Unrecognized \/ UNCHANGED vars
    <3>1. text' = text /\ consumed' = consumed /\ (outcome = Running \/ outcome' = outcome)
      BY <2>4 DEF EndOfText, Shift, Reduce, LiteralPanics, Accept, Unrecognized, Scanning, Parsing,
                  lexer, vars
    <3> QED
      BY <3>1 DEF TextWide
  <2> QED
    BY <2>1, <2>2, <2>3, <2>4 DEF Next
<1>3. IInv /\ TextWide => SpansHaveLines
  <2> SUFFICES ASSUME IInv, TextWide, outcome = Running \/ outcome.t = "Ok",
                      NEW i \in DOMAIN symbols, symbols[i].l < symbols[i].r
               PROVE  Locatable(FileInfo(text, Width), <<symbols[i].l, symbols[i].r>>)
    BY DEF SpansHaveLines
  <2> DEFINE l == symbols[i].l
             r == symbols[i].r
  <2>1. l \in Nat /\ r \in Nat /\ r <= consumed /\ consumed \in Nat
    BY IInvStacks DEF IInv, SpansInOrder, StacksAgree
  <2>2. Wide(text, Width) /\ consumed = Offsets(text, Width)[Len(text) + 1]
    BY DEF TextWide
  <2>3. l < r
    OBVIOUS
  <2> HIDE DEF l, r
  <2>4. l < consumed /\ r - 1 \in Nat /\ r - 1 < consumed
    BY <2>1, <2>3
  <2>5. HasLine(LineBounds(FileInfo(text, Width)), l)
    BY <2>1, <2>2, <2>4, EveryByteHasLine
  <2>6. HasLine(LineBounds(FileInfo(text, Width)), r - 1)
    BY <2>2, <2>4, EveryByteHasLine
  <2>7. Locatable(FileInfo(text, Width), <<l, r>>)
    BY <2>5, <2>6 DEF Locatable
  <2> QED
    BY <2>7 DEF l, r
<1>4. Init => IInv
  BY InitIInv
<1>5. IInv /\ [Next]_vars => IInv'
  BY NextIInv
<1> QED
  BY <1>1, <1>2, <1>3, <1>4, <1>5, PTL DEF Spec
=============================================================================
