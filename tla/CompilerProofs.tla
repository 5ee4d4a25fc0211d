---------------------------- MODULE CompilerProofs ----------------------------
(***************************************************************************)
(* What check_prog lets through, and what register allocation keeps.       *)
(*                                                                         *)
(* check_prog accepts exactly the programs that are well formed, by        *)
(* induction on the rank of their parts.                                   *)
(*                                                                         *)
(* Register allocation loses nothing: with its variables in the places of  *)
(* any allocation for its conflict graphs, a sequential program comes to   *)
(* nothing but what the direct-style interpreter allows.  The evaluations  *)
(* in places that are right keep all the rules of evaluating in places, so *)
(* the least relation that keeps them has no others.  What liveness and    *)
(* conflicts find out is enough for that: by induction on the rank of the  *)
(* expressions, nothing is live that cannot be read, and every variable    *)
(* bound becomes a vertex.                                                 *)
(***************************************************************************)
EXTENDS PlacedRules, InterpProofs, CheckRules, FiniteSetTheorems

-----------------------------------------------------------------------------
(* Answers.                                                                 *)

AllOk(results) == \A i \in DOMAIN results : results[i] = Ok

\* The ? operator lets nothing pass but Ok.
LEMMA FirstErrorIsOk ==
    ASSUME NEW s, IsSeq(s)
    PROVE  FirstError(s) = Ok <=> AllOk(s)
<1> DEFINE bad == {i \in DOMAIN s : s[i] # Ok}
<1>1. DOMAIN s = 1 .. Len(s) /\ Len(s) \in Nat
  BY IsSeqDomain
<1>2. CASE bad = {}
  BY <1>2 DEF FirstError, AllOk
<1>3. CASE bad # {}
  <2>1. bad \subseteq Nat
    BY <1>1
  <2>2. \E i \in bad : \A j \in bad : i <= j
    BY <1>3, <2>1, LeastElement
  <2> DEFINE least == CHOOSE i \in bad : \A j \in bad : i <= j
  <2>3. least \in bad
    BY <2>2
  <2>4. FirstError(s) = s[least]
    BY <1>3 DEF FirstError
  <2> HIDE DEF least
  <2> QED
    BY <2>3, <2>4 DEF AllOk
<1> QED
  BY <1>2, <1>3

\* Two vectors, one after the other.
LEMMA ConcatVectors ==
    ASSUME NEW s, NEW t, IsSeq(s), IsSeq(t)
    PROVE  /\ IsSeq(s \o t) /\ Len(s \o t) = Len(s) + Len(t)
           /\ DOMAIN (s \o t) = 1 .. Len(s) + Len(t)
           /\ \A i \in 1 .. Len(s) : (s \o t)[i] = s[i]
           /\ \A i \in 1 .. Len(t) : (s \o t)[Len(s) + i] = t[i]
<1> DEFINE R == {s[i] : i \in DOMAIN s} \cup {t[i] : i \in DOMAIN t}
<1>1. s \in Seq({s[i] : i \in DOMAIN s}) /\ t \in Seq({t[i] : i \in DOMAIN t})
  BY DEF IsSeq
<1>2. s \in Seq(R) /\ t \in Seq(R)
  BY <1>1, SeqMonotonic
<1>3. Len(s) \in Nat /\ Len(t) \in Nat
  BY IsSeqDomain
<1> HIDE DEF R
<1>4. /\ s \o t \in Seq(R) /\ Len(s \o t) = Len(s) + Len(t)
      /\ \A i \in 1 .. Len(s) + Len(t) :
            (s \o t)[i] = IF i <= Len(s) THEN s[i] ELSE t[i - Len(s)]
  BY <1>2, ConcatProperties
<1>5. IsSeq(s \o t) /\ DOMAIN (s \o t) = 1 .. Len(s) + Len(t)
  BY <1>4, SeqIsSeq, LenProperties
<1>6. \A i \in 1 .. Len(s) : (s \o t)[i] = s[i]
  BY <1>3, <1>4
<1>7. ASSUME NEW i \in 1 .. Len(t) PROVE (s \o t)[Len(s) + i] = t[i]
  <2>1. Len(s) + i \in 1 .. Len(s) + Len(t) /\ ~(Len(s) + i <= Len(s)) /\ (Len(s) + i) - Len(s) = i
    BY <1>3
  <2> QED
    BY <1>4, <2>1
<1> QED
  BY <1>4, <1>5, <1>6, <1>7

\* All of them are Ok when those of both are.
LEMMA ConcatIsOk ==
    ASSUME NEW s, NEW t, IsSeq(s), IsSeq(t)
    PROVE  AllOk(s \o t) <=> AllOk(s) /\ AllOk(t)
<1>1. /\ DOMAIN (s \o t) = 1 .. Len(s) + Len(t)
      /\ \A i \in 1 .. Len(s) : (s \o t)[i] = s[i]
      /\ \A i \in 1 .. Len(t) : (s \o t)[Len(s) + i] = t[i]
  BY ConcatVectors
<1>2. /\ DOMAIN s = 1 .. Len(s) /\ Len(s) \in Nat
      /\ DOMAIN t = 1 .. Len(t) /\ Len(t) \in Nat
  BY IsSeqDomain
<1>3. ASSUME AllOk(s \o t) PROVE AllOk(s)
  BY <1>1, <1>2, <1>3 DEF AllOk
<1>4. ASSUME AllOk(s \o t), NEW i \in 1 .. Len(t) PROVE t[i] = Ok
  <2>1. Len(s) + i \in 1 .. Len(s) + Len(t)
    BY <1>2
  <2> QED
    BY <1>1, <1>4, <2>1 DEF AllOk
<1>5. ASSUME AllOk(s), AllOk(t), NEW i \in 1 .. Len(s) + Len(t) PROVE (s \o t)[i] = Ok
  <2>1. CASE i <= Len(s)
    BY <1>1, <1>2, <1>5, <2>1 DEF AllOk
  <2>2. CASE ~(i <= Len(s))
    <3> DEFINE k == i - Len(s)
    <3>1. k \in 1 .. Len(t) /\ Len(s) + k = i
      BY <1>2, <2>2
    <3> HIDE DEF k
    <3> QED
      BY <1>1, <1>2, <1>5, <3>1 DEF AllOk
  <2> QED
    BY <2>1, <2>2
<1> QED
  BY <1>1, <1>2, <1>3, <1>4, <1>5 DEF AllOk

\* A vector made from another, and one of a single element.
LEMMA MadeVector ==
    ASSUME NEW s, IsSeq(s), NEW f, DOMAIN f = DOMAIN s, f = [i \in DOMAIN s |-> f[i]]
    PROVE  IsSeq(f) /\ Len(f) = Len(s)
<1>1. DOMAIN s = 1 .. Len(s) /\ Len(s) \in Nat
  BY IsSeqDomain
<1>2. f \in [1 .. Len(s) -> {f[i] : i \in DOMAIN f}]
  BY <1>1
<1>3. f \in Seq({f[i] : i \in DOMAIN f})
  BY <1>1, <1>2, SeqDef
<1> QED
  BY <1>1, <1>3, LenProperties DEF IsSeq

LEMMA SingleVector ==
    ASSUME NEW a
    PROVE  /\ IsSeq(<<a>>) /\ Len(<<a>>) = 1 /\ DOMAIN <<a>> = {1} /\ <<a>>[1] = a
           /\ AllOk(<<a>>) <=> a = Ok
<1>1. <<a>> \in Seq({a}) /\ Len(<<a>>) = 1 /\ DOMAIN <<a>> = {1} /\ <<a>>[1] = a
  OBVIOUS
<1> QED
  BY <1>1, SeqIsSeq DEF AllOk

\* An answer, some answers and one more.
LEMMA ThreeAreOk ==
    ASSUME NEW a, NEW s, IsSeq(s), NEW b
    PROVE  FirstError(<<a>> \o s \o <<b>>) = Ok <=> a = Ok /\ AllOk(s) /\ b = Ok
<1>1. IsSeq(<<a>>) /\ IsSeq(<<b>>) /\ (AllOk(<<a>>) <=> a = Ok) /\ (AllOk(<<b>>) <=> b = Ok)
  BY SingleVector
<1>2. IsSeq(<<a>> \o s) /\ (AllOk(<<a>> \o s) <=> a = Ok /\ AllOk(s))
  BY <1>1, ConcatVectors, ConcatIsOk
<1>3. IsSeq((<<a>> \o s) \o <<b>>)
      /\ (AllOk((<<a>> \o s) \o <<b>>) <=> AllOk(<<a>> \o s) /\ b = Ok)
  BY <1>1, <1>2, ConcatVectors, ConcatIsOk
<1> QED
  BY <1>2, <1>3, FirstErrorIsOk

-----------------------------------------------------------------------------
(* Names that must differ.                                                 *)

AllDiffer(names) == \A i, j \in DOMAIN names : names[i] = names[j] => i = j

\* The code finds a duplicate whenever there is one.
LEMMA NoDuplicateIsOk ==
    ASSUME NEW names, IsSeq(names), NEW kind \in {"DuplicateBinding", "DuplicateArgName"}
    PROVE  NoDuplicate(names, kind) = Ok <=> AllDiffer(names)
<1> DEFINE dup == {i \in DOMAIN names : \E j \in 1 .. (i - 1) : names[j] = names[i]}
<1>1. DOMAIN names = 1 .. Len(names) /\ Len(names) \in Nat
  BY IsSeqDomain
<1>2. ASSUME NEW name PROVE CompileErr(kind, name) # Ok
  <2>1. CompileErr(kind, name).err = kind /\ Ok.err = "None"
    BY DEF CompileErr, Ok
  <2> QED
    BY <2>1
<1>3. AllDiffer(names) <=> dup = {}
  <2>1. ASSUME AllDiffer(names), NEW i \in dup PROVE FALSE
    <3>1. PICK j \in 1 .. (i - 1) : names[j] = names[i]
      BY <2>1
    <3> QED
      BY <1>1, <2>1, <3>1 DEF AllDiffer
  <2>2. ASSUME dup = {}, NEW i \in DOMAIN names, NEW j \in DOMAIN names, names[i] = names[j]
        PROVE  i = j
    <3>1. CASE i < j
      <4>1. i \in 1 .. (j - 1)
        BY <1>1, <3>1
      <4> QED
        BY <2>2, <4>1
    <3>2. CASE j < i
      <4>1. j \in 1 .. (i - 1)
        BY <1>1, <3>2
      <4> QED
        BY <2>2, <4>1
    <3> QED
      BY <1>1, <3>1, <3>2
  <2> QED
    BY <2>1, <2>2 DEF AllDiffer
<1>4. CASE dup = {}
  BY <1>3, <1>4 DEF NoDuplicate, FirstDuplicate
<1>5. CASE dup # {}
  <2> DEFINE least == CHOOSE i \in dup : \A j \in dup : i <= j
  <2>1. \E i \in dup : \A j \in dup : i <= j
    <3>1. dup \subseteq Nat
      BY <1>1
    <3> HIDE DEF dup
    <3> QED
      BY <1>5, <3>1, LeastElement
  <2>2. least \in dup
    BY <2>1
  <2>3. FirstDuplicate(names) = least
    BY <1>5 DEF FirstDuplicate
  <2>4. least # 0
    <3>1. \A i \in dup : i # 0
      BY <1>1
    <3> HIDE DEF dup, least
    <3> QED
      BY <2>2, <3>1
  <2>5. NoDuplicate(names, kind) = CompileErr(kind, names[least])
    BY <2>3, <2>4 DEF NoDuplicate
  <2> HIDE DEF least
  <2> QED
    BY <1>2, <1>3, <1>5, <2>5
<1> QED
  BY <1>4, <1>5

\* Counting the names finds a duplicate as well.
LEMMA CountedNames ==
    ASSUME NEW s, IsSeq(s), NEW f, DOMAIN f = DOMAIN s, f = [i \in DOMAIN s |-> f[i]]
    PROVE  Cardinality({f[i] : i \in DOMAIN s}) = Len(s) <=> AllDiffer(f)
<1> DEFINE T == {f[i] : i \in DOMAIN s}
<1>1. DOMAIN s = 1 .. Len(s) /\ Len(s) \in Nat
  BY IsSeqDomain
<1>2. IsFiniteSet(1 .. Len(s)) /\ Cardinality(1 .. Len(s)) = Len(s)
  <2>1. /\ IsFiniteSet(1 .. Len(s))
        /\ Cardinality(1 .. Len(s)) = IF 1 > Len(s) THEN 0 ELSE Len(s) - 1 + 1
    <3>1. 1 \in Int /\ Len(s) \in Int
      BY <1>1
    <3> HIDE DEF T
    <3> QED
      BY <3>1, FS_Interval, Zenon
  <2> QED
    BY <1>1, <2>1
<1>3. f \in Surjection(1 .. Len(s), T)
  BY <1>1 DEF Surjection
<1>4. Cardinality(T) = Cardinality(1 .. Len(s)) <=> f \in Injection(1 .. Len(s), T)
  BY <1>2, <1>3, FS_Surjection
<1>5. f \in Injection(1 .. Len(s), T) <=> AllDiffer(f)
  <2>1. f \in [1 .. Len(s) -> T]
    BY <1>1
  <2> QED
    BY <1>1, <2>1 DEF Injection, IsInjective, AllDiffer
<1> QED
  BY <1>2, <1>4, <1>5

-----------------------------------------------------------------------------
(* Occurrences, read from above.                                           *)

\* Where scope has the variables and funs the functions, every occurrence is
\* resolved
Fit(occs, scope, funs) ==
    \A o \in occs :
        \/ o.occ = "var" /\ o.name \in scope
        \/ o.occ = "call" /\ o.name \notin scope /\ o.name \in DOMAIN funs /\ funs[o.name] = o.arity

AreOccurrences(occs) == \A o \in occs : o.occ \in {"var", "call", "unresolved"}

\* To bind a variable in what is left over from below is to know it from above.
LEMMA UnbindFits ==
    ASSUME NEW occs, NEW x, NEW scope, NEW funs, AreOccurrences(occs)
    PROVE  /\ AreOccurrences(Unbind(occs, x))
           /\ Fit(Unbind(occs, x), scope, funs) <=> Fit(occs, scope \cup {x}, funs)
<1>1. Unresolved(x).occ = "unresolved"
  BY DEF Unresolved
<1>2. \A o \in Unbind(occs, x) :
         \/ o \in occs /\ (o.name # x \/ o.occ = "unresolved")
         \/ o = Unresolved(x) /\ \E q \in occs : q.name = x /\ q.occ = "call"
  BY DEF Unbind
<1>3. \A o \in occs : o.name # x \/ o.occ = "unresolved" => o \in Unbind(occs, x)
  BY DEF Unbind
<1>4. \A q \in occs : q.name = x /\ q.occ = "call" => Unresolved(x) \in Unbind(occs, x)
  BY DEF Unbind
<1>5. AreOccurrences(Unbind(occs, x))
  BY <1>1, <1>2 DEF AreOccurrences
<1>6. ASSUME Fit(occs, scope \cup {x}, funs) PROVE Fit(Unbind(occs, x), scope, funs)
  BY <1>2, <1>6 DEF Fit
<1>7. ASSUME Fit(Unbind(occs, x), scope, funs) PROVE Fit(occs, scope \cup {x}, funs)
  <2> SUFFICES ASSUME NEW o \in occs
               PROVE  \/ o.occ = "var" /\ o.name \in scope \cup {x}
                      \/ o.occ = "call" /\ o.name \notin scope \cup {x} /\ o.name \in DOMAIN funs
                         /\ funs[o.name] = o.arity
    BY DEF Fit
  <2>1. CASE o.name # x \/ o.occ = "unresolved"
    BY <1>3, <1>7, <2>1 DEF Fit
  <2>2. CASE o.name = x /\ o.occ = "var"
    BY <2>2
  <2>3. CASE o.name = x /\ o.occ = "call"
    BY <1>1, <1>4, <1>7, <2>3 DEF Fit
  <2> QED
    BY <2>1, <2>2, <2>3 DEF AreOccurrences
<1> QED
  BY <1>5, <1>6, <1>7

-----------------------------------------------------------------------------
(* One expression, when its parts are as they should be.                   *)

\* What an expression that is no let adds to its parts
OwnOk(e, scope, funs) ==
    /\ e.exp = "Num" => ~OutOfBounds(e.n)
    /\ e.exp = "Var" => e.x \in scope
    /\ e.exp = "Call" => e.f \notin scope /\ e.f \in DOMAIN funs /\ funs[e.f] = Len(e.args)

LEMMA VarIsOk ==
    ASSUME NEW x, NEW args, NEW lcl, NEW funs
    PROVE  CheckVar(x, args, lcl, funs) = Ok <=> x \in args \cup lcl
<1>1. ASSUME NEW kind \in {"FunctionUsedAsValue", "UnboundVariable"}
      PROVE  CompileErr(kind, x) # Ok
  <2>1. CompileErr(kind, x).err = kind /\ Ok.err = "None"
    BY DEF CompileErr, Ok
  <2> QED
    BY <2>1
<1>2. CompileErr("FunctionUsedAsValue", x) # Ok /\ CompileErr("UnboundVariable", x) # Ok
  BY <1>1
<1> QED
  BY <1>2 DEF CheckVar

LEMMA CalleeIsOk ==
    ASSUME NEW f, NEW n, NEW args, NEW lcl, NEW funs
    PROVE  CheckCallee(f, n, args, lcl, funs) = Ok
           <=> f \notin args \cup lcl /\ f \in DOMAIN funs /\ funs[f] = n
<1>1. ASSUME NEW kind \in {"ValueUsedAsFunction", "UndefinedFunction", "FunctionCalledWrongArity"}
      PROVE  CompileErr(kind, f) # Ok
  <2>1. CompileErr(kind, f).err = kind /\ Ok.err = "None"
    BY DEF CompileErr, Ok
  <2> QED
    BY <2>1
<1>2. /\ CompileErr("ValueUsedAsFunction", f) # Ok
      /\ CompileErr("UndefinedFunction", f) # Ok
      /\ CompileErr("FunctionCalledWrongArity", f) # Ok
  BY <1>1
<1> QED
  BY <1>2 DEF CheckCallee

LEMMA NumIsOk ==
    ASSUME NEW n \in Int
    PROVE  /\ CheckNum(n) = Ok <=> ~OutOfBounds(n)
           /\ n \in MinInt .. MaxInt <=> ~OutOfBounds(n)
<1>1. CompileErr("Overflow", n) # Ok
  <2>1. CompileErr("Overflow", n).err = "Overflow" /\ Ok.err = "None"
    BY DEF CompileErr, Ok
  <2> QED
    BY <2>1
<1>2. CheckNum(n) = Ok <=> ~OutOfBounds(n)
  BY <1>1 DEF CheckNum
<1>3. MinInt \in Int /\ MaxInt \in Int
  BY MaxIntAssumption DEF MinInt
<1>4. n \in MinInt .. MaxInt <=> ~OutOfBounds(n)
  BY <1>3 DEF OutOfBounds
<1> QED
  BY <1>2, <1>4

\* check_exp answers Ok when it has nothing against the expression itself and
\* answers Ok on the parts.
LEMMA ArmIsOk ==
    ASSUME NEW e, Shaped(e), e.exp # "Let",
           NEW args, NEW lcl, NEW funs, NEW answer, NEW o,
           o = AnswerFrom(answer, e, args, lcl, funs)
    PROVE  o = Ok <=> /\ OwnOk(e, args \cup lcl, funs)
                      /\ \A i \in DOMAIN Children(e) : answer[<<Children(e)[i], args, lcl, funs>>] = Ok
<1>1. CASE e.exp = "Num"
  <2>1. Children(e) = <<>> /\ o = CheckNum(e.n) /\ e.n \in Int
    BY <1>1 DEF Children, AnswerFrom, CheckArm, Shaped
  <2>2. DOMAIN <<>> = {}
    OBVIOUS
  <2> QED
    BY <1>1, <2>1, <2>2, NumIsOk DEF OwnOk
<1>2. CASE e.exp = "Bool"
  <2>1. Children(e) = <<>> /\ o = Ok
    BY <1>2 DEF Children, AnswerFrom, CheckArm
  <2>2. DOMAIN <<>> = {}
    OBVIOUS
  <2> QED
    BY <1>2, <2>1, <2>2 DEF OwnOk
<1>3. CASE e.exp = "Var"
  <2>1. Children(e) = <<>> /\ o = CheckVar(e.x, args, lcl, funs)
    BY <1>3 DEF Children, AnswerFrom, CheckArm
  <2>2. DOMAIN <<>> = {}
    OBVIOUS
  <2> QED
    BY <1>3, <2>1, <2>2, VarIsOk DEF OwnOk
<1>4. CASE e.exp = "Prim1"
  <2>1. Children(e) = <<e.e>> /\ o = answer[<<e.e, args, lcl, funs>>]
    BY <1>4 DEF Children, AnswerFrom, CheckArm
  <2> QED
    BY <1>4, <2>1 DEF OwnOk
<1>5. CASE e.exp = "Prim2"
  <2> DEFINE s == <<answer[<<e.e1, args, lcl, funs>>], answer[<<e.e2, args, lcl, funs>>]>>
  <2>1. Children(e) = <<e.e1, e.e2>> /\ o = FirstError(s)
    BY <1>5 DEF Children, AnswerFrom, CheckArm
  <2>2. s \in Seq({s[1], s[2]}) /\ DOMAIN s = {1, 2}
    OBVIOUS
  <2>3. o = Ok <=> AllOk(s)
    BY <2>1, <2>2, SeqIsSeq, FirstErrorIsOk
  <2> QED
    BY <1>5, <2>1, <2>2, <2>3 DEF OwnOk, AllOk
<1>6. CASE e.exp = "If"
  <2> DEFINE s == <<answer[<<e.cond, args, lcl, funs>>], answer[<<e.thn, args, lcl, funs>>],
                    answer[<<e.els, args, lcl, funs>>]>>
  <2>1. Children(e) = <<e.cond, e.thn, e.els>> /\ o = FirstError(s)
    BY <1>6 DEF Children, AnswerFrom, CheckArm
  <2>2. s \in Seq({s[1], s[2], s[3]}) /\ DOMAIN s = {1, 2, 3}
    OBVIOUS
  <2>3. o = Ok <=> AllOk(s)
    BY <2>1, <2>2, SeqIsSeq, FirstErrorIsOk
  <2> QED
    BY <1>6, <2>1, <2>2, <2>3 DEF OwnOk, AllOk
<1>7. CASE e.exp = "Call"
  <2> DEFINE callee == CheckCallee(e.f, Len(e.args), args, lcl, funs)
             s == [i \in DOMAIN e.args |-> answer[<<e.args[i], args, lcl, funs>>]]
  <2>1. Children(e) = e.args /\ o = FirstError(<<callee>> \o s) /\ IsSeq(e.args)
    BY <1>7 DEF Children, AnswerFrom, CheckArm, Shaped
  <2>2. IsSeq(s)
    BY <2>1, MadeVector
  <2>3. IsSeq(<<callee>>) /\ (AllOk(<<callee>>) <=> callee = Ok)
    BY SingleVector
  <2>4. o = Ok <=> callee = Ok /\ AllOk(s)
    <3> HIDE DEF s, callee
    <3>1. IsSeq(<<callee>> \o s)
      BY <2>2, <2>3, ConcatVectors
    <3> QED
      BY <2>1, <2>2, <2>3, <3>1, ConcatIsOk, FirstErrorIsOk
  <2>5. callee = Ok <=> OwnOk(e, args \cup lcl, funs)
    BY <1>7, CalleeIsOk DEF OwnOk
  <2> QED
    BY <2>1, <2>4, <2>5 DEF AllOk
<1> QED
  BY <1>1, <1>2, <1>3, <1>4, <1>5, <1>6, <1>7 DEF Shaped

\* answer and the reference agree on an expression
Agree(answer, occ, fine, e, args, lcl, funs) ==
    answer[<<e, args, lcl, funs>>] = Ok <=> fine[e] /\ Fit(occ[e], args \cup lcl, funs)

\* An expression that is no let.
LEMMA OtherAgrees ==
    ASSUME NEW e, Shaped(e), e.exp # "Let", NEW args, NEW lcl, NEW funs,
           NEW answer, NEW occ, NEW fine,
           answer[<<e, args, lcl, funs>>] = AnswerFrom(answer, e, args, lcl, funs),
           occ[e] = OccurrencesFrom(occ, e), fine[e] <=> WellFormedFrom(fine, e),
           \A i \in DOMAIN Children(e) : Agree(answer, occ, fine, Children(e)[i], args, lcl, funs)
    PROVE  Agree(answer, occ, fine, e, args, lcl, funs)
<1> DEFINE own == IF e.exp = "Var" THEN {VarOcc(e.x)}
                  ELSE IF e.exp = "Call" THEN {CallOcc(e.f, Len(e.args))} ELSE {}
           scope == args \cup lcl
<1>1. answer[<<e, args, lcl, funs>>] = Ok
         <=> /\ OwnOk(e, scope, funs)
             /\ \A i \in DOMAIN Children(e) : answer[<<Children(e)[i], args, lcl, funs>>] = Ok
  BY ArmIsOk, SMTT(60)
<1>2. fine[e] <=> /\ e.exp = "Num" => e.n \in MinInt .. MaxInt
                  /\ \A i \in DOMAIN Children(e) : fine[Children(e)[i]]
  BY DEF WellFormedFrom, WellFormedArm
<1>3. e.exp = "Num" => e.n \in Int
  BY DEF Shaped
<1>4. e.exp = "Num" => (e.n \in MinInt .. MaxInt <=> ~OutOfBounds(e.n))
  BY <1>3, NumIsOk
<1>5. occ[e] = own \cup UNION {occ[Children(e)[i]] : i \in DOMAIN Children(e)}
  <2>1. CASE e.exp = "Var"
    <3>1. occ[e] = {VarOcc(e.x)} /\ Children(e) = <<>>
      BY <2>1 DEF OccurrencesFrom, OccurrencesArm, Children
    <3>2. DOMAIN <<>> = {}
      OBVIOUS
    <3> QED
      BY <2>1, <3>1, <3>2
  <2>2. CASE e.exp # "Var"
    BY <2>2 DEF OccurrencesFrom, OccurrencesArm
  <2> QED
    BY <2>1, <2>2
<1>6. Fit(own, scope, funs) <=> (e.exp = "Var" => e.x \in scope)
                                /\ (e.exp = "Call" => e.f \notin scope /\ e.f \in DOMAIN funs
                                                       /\ funs[e.f] = Len(e.args))
  <2>1. CASE e.exp = "Var"
    <3>1. VarOcc(e.x).occ = "var" /\ VarOcc(e.x).name = e.x
      BY DEF VarOcc
    <3> QED
      BY <2>1, <3>1 DEF Fit
  <2>2. CASE e.exp = "Call"
    <3>1. LET o == CallOcc(e.f, Len(e.args))
          IN  o.occ = "call" /\ o.name = e.f /\ o.arity = Len(e.args)
      BY DEF CallOcc
    <3> QED
      BY <2>2, <3>1 DEF Fit
  <2>3. CASE e.exp # "Var" /\ e.exp # "Call"
    BY <2>3 DEF Fit
  <2> QED
    BY <2>1, <2>2, <2>3
<1>7. Fit(occ[e], scope, funs)
         <=> /\ Fit(own, scope, funs)
             /\ \A i \in DOMAIN Children(e) : Fit(occ[Children(e)[i]], scope, funs)
  <2> HIDE DEF own, scope
  <2> QED
    BY <1>5 DEF Fit
<1>8. OwnOk(e, scope, funs) <=> (e.exp = "Num" => e.n \in MinInt .. MaxInt) /\ Fit(own, scope, funs)
  <2> HIDE DEF own, scope
  <2> QED
    BY <1>4, <1>6 DEF OwnOk
<1>9. \A i \in DOMAIN Children(e) :
         answer[<<Children(e)[i], args, lcl, funs>>] = Ok
            <=> fine[Children(e)[i]] /\ Fit(occ[Children(e)[i]], scope, funs)
  BY DEF Agree
<1> HIDE DEF own, scope
<1>10. answer[<<e, args, lcl, funs>>] = Ok <=> fine[e] /\ Fit(occ[e], scope, funs)
  BY <1>1, <1>2, <1>7, <1>8, <1>9
<1> QED
  BY <1>10 DEF Agree, scope

-----------------------------------------------------------------------------
(* Let, one binding at a time.                                             *)

\* What check_exp asks about the bindings and the body, in any order.
LetOk(answer, bs, body, args, lcl, funs) ==
    /\ AllDiffer(BindingNames(bs))
    /\ \A i \in DOMAIN bs : answer[<<bs[i].e, args, lcl \cup BoundBefore(bs, i), funs>>] = Ok
    /\ answer[<<body, args, lcl \cup BoundBefore(bs, Len(bs) + 1), funs>>] = Ok

LEMMA LetIsOk ==
    ASSUME NEW e, e.exp = "Let", IsSeq(e.bindings), NEW args, NEW lcl, NEW funs, NEW answer
    PROVE  AnswerFrom(answer, e, args, lcl, funs) = Ok
           <=> LetOk(answer, e.bindings, e.body, args, lcl, funs)
<1> DEFINE bs == e.bindings
           a == NoDuplicate(BindingNames(bs), "DuplicateBinding")
           s == [i \in DOMAIN bs |->
                    answer[<<bs[i].e, args, lcl \cup BoundBefore(bs, i), funs>>]]
           b == answer[<<e.body, args, lcl \cup BoundBefore(bs, Len(bs) + 1), funs>>]
<1>1. AnswerFrom(answer, e, args, lcl, funs) = FirstError(<<a>> \o s \o <<b>>)
  BY DEF AnswerFrom, CheckArm, CheckLet
<1>2. IsSeq(s)
  BY MadeVector
<1>3. IsSeq(BindingNames(bs))
  BY MadeVector DEF BindingNames
<1>4. a = Ok <=> AllDiffer(BindingNames(bs))
  BY <1>3, NoDuplicateIsOk
<1>5. AllOk(s) <=> \A i \in DOMAIN bs :
                     answer[<<bs[i].e, args, lcl \cup BoundBefore(bs, i), funs>>] = Ok
  BY DEF AllOk
<1> HIDE DEF a, s, b
<1>6. FirstError(<<a>> \o s \o <<b>>) = Ok <=> a = Ok /\ AllOk(s) /\ b = Ok
  BY <1>2, ThreeAreOk
<1> QED
  BY <1>1, <1>4, <1>5, <1>6 DEF b, LetOk

\* The children of a let.
LEMMA LetChildren ==
    ASSUME NEW e, e.exp = "Let", IsSeq(e.bindings), NEW P
    PROVE  (\A i \in DOMAIN Children(e) : P[Children(e)[i]])
           <=> (\A i \in DOMAIN e.bindings : P[e.bindings[i].e]) /\ P[e.body]
<1> DEFINE s == [i \in DOMAIN e.bindings |-> e.bindings[i].e]
           n == Len(e.bindings)
<1>1. DOMAIN e.bindings = 1 .. n /\ n \in Nat
  BY IsSeqDomain
<1>2. IsSeq(s) /\ Len(s) = n
  BY MadeVector
<1>3. IsSeq(<<e.body>>) /\ Len(<<e.body>>) = 1 /\ <<e.body>>[1] = e.body
  BY SingleVector
<1>4. Children(e) = s \o <<e.body>>
  BY DEF Children
<1> HIDE DEF s, n
<1>5. /\ DOMAIN (s \o <<e.body>>) = 1 .. n + 1
      /\ \A i \in 1 .. n : (s \o <<e.body>>)[i] = s[i]
      /\ (s \o <<e.body>>)[n + 1] = e.body
  BY <1>1, <1>2, <1>3, ConcatVectors
<1>6. \A i \in 1 .. n : s[i] = e.bindings[i].e
  BY <1>1 DEF s
<1>7. \A i : i \in 1 .. n + 1 <=> i \in 1 .. n \/ i = n + 1
  BY <1>1
<1>8. (\A i \in DOMAIN Children(e) : P[Children(e)[i]])
         <=> (\A i \in 1 .. n : P[Children(e)[i]]) /\ P[Children(e)[n + 1]]
  BY <1>4, <1>5, <1>7
<1>9. \A i \in 1 .. n : Children(e)[i] = e.bindings[i].e
  BY <1>4, <1>5, <1>6
<1>10. Children(e)[n + 1] = e.body
  BY <1>4, <1>5
<1> QED
  BY <1>1, <1>8, <1>9, <1>10

\* The first and those after it.
LEMMA FirstAndOthers ==
    ASSUME NEW n \in Nat
    PROVE  \A k : k \in 1 .. n + 1 <=> k = 1 \/ \E i \in 1 .. n : k = i + 1
<1>1. ASSUME NEW k \in 1 .. n + 1, k # 1 PROVE \E i \in 1 .. n : k = i + 1
  <2>1. k - 1 \in 1 .. n /\ k = (k - 1) + 1
    BY <1>1
  <2> QED
    BY <2>1
<1>2. 1 \in 1 .. n + 1
  OBVIOUS
<1>3. \A i \in 1 .. n : i + 1 \in 1 .. n + 1
  OBVIOUS
<1> QED
  BY <1>1, <1>2, <1>3

\* A let with a first binding: what it needs is what that binding needs, and what
\* the let after it needs where its variable is known.
Unfolds(answer, occ, fine, e, args, lcl, funs, rest, lcl2) ==
    LET b == e.bindings[1]
        differ == AllDiffer(BindingNames(e.bindings))
    IN  /\ answer[<<e, args, lcl, funs>>] = Ok
              <=> /\ differ
                  /\ answer[<<b.e, args, lcl, funs>>] = Ok
                  /\ answer[<<rest, args, lcl2, funs>>] = Ok
        /\ fine[e] <=> differ /\ fine[b.e] /\ fine[rest]
        /\ occ[e] = occ[b.e] \cup Unbind(occ[rest], b.var)

LEMMA LetUnfolds ==
    ASSUME NEW e, e.exp = "Let", IsSeq(e.bindings), e.bindings # <<>>,
           NEW args, NEW lcl, NEW funs, NEW answer, NEW occ, NEW fine,
           answer[<<e, args, lcl, funs>>] = AnswerFrom(answer, e, args, lcl, funs),
           occ[e] = OccurrencesFrom(occ, e), fine[e] <=> WellFormedFrom(fine, e),
           NEW rest, rest = AfterFirst(e), NEW lcl2, lcl2 = lcl \cup {e.bindings[1].var},
           answer[<<rest, args, lcl2, funs>>] = AnswerFrom(answer, rest, args, lcl2, funs),
           fine[rest] <=> WellFormedFrom(fine, rest)
    PROVE  Unfolds(answer, occ, fine, e, args, lcl, funs, rest, lcl2)
<1> DEFINE bs == e.bindings
           ts == Tail(e.bindings)
           n == Len(ts)
           b == bs[1]
           differ == AllDiffer(BindingNames(bs))
<1>1. /\ IsSeq(ts) /\ Len(bs) = n + 1 /\ n \in Nat /\ DOMAIN bs = 1 .. n + 1 /\ DOMAIN ts = 1 .. n
      /\ \A i \in 1 .. n : ts[i] = bs[i + 1]
  BY TailOfVector, IsSeqDomain
<1>2. rest.exp = "Let" /\ rest.bindings = ts /\ rest.body = e.body
  BY DEF AfterFirst, Let
<1>3. \A k : k \in 1 .. n + 1 <=> k = 1 \/ \E i \in 1 .. n : k = i + 1
  BY <1>1, FirstAndOthers
<1>4. \A i \in 1 .. n + 1 : lcl2 \cup BoundBefore(ts, i) = lcl \cup BoundBefore(bs, i + 1)
  <2> TAKE i \in 1 .. n + 1
  <2>1. \A k : k \in 1 .. (i + 1) - 1 <=> k = 1 \/ \E m \in 1 .. i - 1 : k = m + 1
    <3>1. i - 1 \in Nat /\ (i - 1) + 1 = (i + 1) - 1
      BY <1>1
    <3> QED
      BY <3>1, FirstAndOthers
  <2>2. \A m \in 1 .. i - 1 : m \in 1 .. n
    BY <1>1
  <2>3. BoundBefore(ts, i) = {bs[m + 1].var : m \in 1 .. i - 1}
    BY <1>1, <2>2 DEF BoundBefore
  <2>4. BoundBefore(bs, i + 1) = {b.var} \cup {bs[m + 1].var : m \in 1 .. i - 1}
    BY <2>1 DEF BoundBefore
  <2> QED
    BY <2>3, <2>4
<1>5. BoundBefore(bs, 1) = {}
  BY DEF BoundBefore
<1> DEFINE OkAt(i) == answer[<<bs[i].e, args, lcl \cup BoundBefore(bs, i), funs>>] = Ok
           OkBody == answer[<<e.body, args, lcl \cup BoundBefore(bs, (n + 1) + 1), funs>>] = Ok
<1>6. answer[<<e, args, lcl, funs>>] = Ok <=> differ /\ (\A i \in 1 .. n + 1 : OkAt(i)) /\ OkBody
  <2>1. answer[<<e, args, lcl, funs>>] = Ok <=> LetOk(answer, bs, e.body, args, lcl, funs)
    BY LetIsOk
  <2> QED
    BY <1>1, <2>1 DEF LetOk
<1>7. OkAt(1) <=> answer[<<b.e, args, lcl, funs>>] = Ok
  <2>1. lcl \cup BoundBefore(bs, 1) = lcl
    BY <1>5
  <2> QED
    BY <2>1
<1>8. answer[<<rest, args, lcl2, funs>>] = Ok
         <=> /\ AllDiffer(BindingNames(ts))
             /\ \A i \in 1 .. n : OkAt(i + 1)
             /\ OkBody
  <2>1. answer[<<rest, args, lcl2, funs>>] = Ok
          <=> /\ AllDiffer(BindingNames(ts))
              /\ \A i \in 1 .. n :
                    answer[<<ts[i].e, args, lcl2 \cup BoundBefore(ts, i), funs>>] = Ok
              /\ answer[<<e.body, args, lcl2 \cup BoundBefore(ts, n + 1), funs>>] = Ok
    <3>1. AnswerFrom(answer, rest, args, lcl2, funs) = Ok
            <=> LetOk(answer, rest.bindings, rest.body, args, lcl2, funs)
      BY <1>1, <1>2, LetIsOk
    <3>2. answer[<<rest, args, lcl2, funs>>] = Ok <=> LetOk(answer, ts, e.body, args, lcl2, funs)
      BY <1>2, <3>1
    <3>3. DOMAIN ts = 1 .. n
      BY <1>1
    <3> HIDE DEF ts, bs
    <3> QED
      BY <3>2, <3>3, Zenon DEF LetOk
  <2>2. \A i \in 1 .. n : lcl2 \cup BoundBefore(ts, i) = lcl \cup BoundBefore(bs, i + 1)
    <3>1. \A i \in 1 .. n : i \in 1 .. n + 1
      BY <1>1
    <3> HIDE DEF n, bs, ts
    <3> QED
      BY <1>4, <3>1
  <2>3. lcl2 \cup BoundBefore(ts, n + 1) = lcl \cup BoundBefore(bs, (n + 1) + 1)
    BY <1>1, <1>4
  <2>4. \A i \in 1 .. n : ts[i].e = bs[i + 1].e
    BY <1>1
  <2> QED
    BY <2>1, <2>2, <2>3, <2>4
<1>9. differ => AllDiffer(BindingNames(ts))
  <2> SUFFICES ASSUME differ, NEW i \in 1 .. n, NEW j \in 1 .. n, ts[i].var = ts[j].var
               PROVE  i = j
    BY <1>1 DEF AllDiffer, BindingNames
  <2>1. bs[i + 1].var = bs[j + 1].var /\ i + 1 \in 1 .. n + 1 /\ j + 1 \in 1 .. n + 1
    BY <1>1
  <2>2. i + 1 = j + 1
    BY <1>1, <2>1 DEF AllDiffer, BindingNames
  <2> QED
    BY <2>2
<1>10. (\A i \in 1 .. n + 1 : OkAt(i)) <=> OkAt(1) /\ \A i \in 1 .. n : OkAt(i + 1)
  <2> HIDE DEF OkAt
  <2> QED
    BY <1>3
<1>11. answer[<<e, args, lcl, funs>>] = Ok
         <=> /\ differ
             /\ answer[<<b.e, args, lcl, funs>>] = Ok
             /\ answer[<<rest, args, lcl2, funs>>] = Ok
  <2> HIDE DEF differ, OkAt, OkBody
  <2> QED
    BY <1>6, <1>7, <1>8, <1>9, <1>10
<1>12. fine[e] <=> differ /\ fine[b.e] /\ fine[rest]
  <2>1. fine[e] <=> differ /\ (\A i \in 1 .. n + 1 : fine[bs[i].e]) /\ fine[e.body]
    <3>1. Cardinality({BindingNames(bs)[i] : i \in DOMAIN bs}) = Len(bs) <=> differ
      BY CountedNames DEF BindingNames
    <3>2. {BindingNames(bs)[i] : i \in DOMAIN bs} = {bs[i].var : i \in DOMAIN bs}
      BY DEF BindingNames
    <3>3. fine[e] <=> /\ Cardinality({bs[i].var : i \in DOMAIN bs}) = Len(bs)
                      /\ \A i \in DOMAIN Children(e) : fine[Children(e)[i]]
      BY DEF WellFormedFrom, WellFormedArm
    <3> QED
      BY <1>1, <3>1, <3>2, <3>3, LetChildren
  <2>2. fine[rest] <=> AllDiffer(BindingNames(ts)) /\ (\A i \in 1 .. n : fine[ts[i].e]) /\ fine[e.body]
    <3>1. Cardinality({BindingNames(ts)[i] : i \in DOMAIN ts}) = n <=> AllDiffer(BindingNames(ts))
      BY <1>1, CountedNames DEF BindingNames
    <3>2. {BindingNames(ts)[i] : i \in DOMAIN ts} = {ts[i].var : i \in DOMAIN ts}
      BY DEF BindingNames
    <3>3. fine[rest] <=> /\ Cardinality({ts[i].var : i \in DOMAIN ts}) = n
                         /\ \A i \in DOMAIN Children(rest) : fine[Children(rest)[i]]
      BY <1>2, ZenonT(60) DEF WellFormedFrom, WellFormedArm
    <3>4. (\A i \in DOMAIN Children(rest) : fine[Children(rest)[i]])
             <=> (\A i \in DOMAIN rest.bindings : fine[rest.bindings[i].e]) /\ fine[rest.body]
      BY <1>1, <1>2, LetChildren
    <3>5. (\A i \in DOMAIN rest.bindings : fine[rest.bindings[i].e]) <=> \A i \in 1 .. n : fine[ts[i].e]
      BY <1>1, <1>2
    <3> QED
      BY <1>2, <3>1, <3>2, <3>3, <3>4, <3>5, Zenon
  <2>3. \A i \in 1 .. n : ts[i].e = bs[i + 1].e
    BY <1>1
  <2>4. (\A i \in 1 .. n + 1 : fine[bs[i].e]) <=> fine[b.e] /\ \A i \in 1 .. n : fine[bs[i + 1].e]
    BY <1>3
  <2> HIDE DEF differ
  <2> QED
    BY <1>9, <2>1, <2>2, <2>3, <2>4
<1>13. occ[e] = occ[b.e] \cup Unbind(occ[rest], b.var)
  <2>1. Head(bs) = b
    OBVIOUS
  <2> QED
    BY <2>1 DEF OccurrencesFrom, OccurrencesArm, AfterFirst
<1> QED
  BY <1>11, <1>12, <1>13 DEF Unfolds

\* A let without bindings is its body.
LEMMA EmptyLetAgrees ==
    ASSUME NEW e, e.exp = "Let", e.bindings = <<>>,
           NEW args, NEW lcl, NEW funs, NEW answer, NEW occ, NEW fine,
           answer[<<e, args, lcl, funs>>] = AnswerFrom(answer, e, args, lcl, funs),
           occ[e] = OccurrencesFrom(occ, e), fine[e] <=> WellFormedFrom(fine, e),
           Agree(answer, occ, fine, e.body, args, lcl, funs)
    PROVE  Agree(answer, occ, fine, e, args, lcl, funs) /\ occ[e] = occ[e.body]
<1>1. <<>> \in Seq({}) /\ Len(<<>>) = 0 /\ DOMAIN <<>> = {}
  OBVIOUS
<1>2. IsSeq(e.bindings) /\ Len(e.bindings) = 0 /\ DOMAIN e.bindings = {}
  <2>1. IsSeq(<<>>)
    BY <1>1, SeqIsSeq
  <2> QED
    BY <1>1, <2>1
<1>3. lcl \cup BoundBefore(e.bindings, Len(e.bindings) + 1) = lcl
  BY <1>2 DEF BoundBefore
<1>4. AllDiffer(BindingNames(e.bindings))
  BY <1>2 DEF AllDiffer, BindingNames
<1>5. answer[<<e, args, lcl, funs>>] = Ok <=> answer[<<e.body, args, lcl, funs>>] = Ok
  <2>1. answer[<<e, args, lcl, funs>>] = Ok
          <=> LetOk(answer, e.bindings, e.body, args, lcl, funs)
    BY <1>2, LetIsOk
  <2> QED
    BY <1>2, <1>3, <1>4, <2>1 DEF LetOk
<1>6. fine[e] <=> fine[e.body]
  <2>1. {e.bindings[i].var : i \in DOMAIN e.bindings} = {}
    BY <1>2
  <2>2. Cardinality({e.bindings[i].var : i \in DOMAIN e.bindings}) = Len(e.bindings)
    BY <1>2, <2>1, FS_EmptySet
  <2>3. fine[e] <=> \A i \in DOMAIN Children(e) : fine[Children(e)[i]]
    BY <2>2 DEF WellFormedFrom, WellFormedArm
  <2> QED
    BY <1>2, <2>3, LetChildren
<1>7. occ[e] = occ[e.body]
  <2>1. occ[e] = UNION {occ[Children(e)[i]] : i \in DOMAIN Children(e)}
    BY DEF OccurrencesFrom, OccurrencesArm
  <2>2. Children(e) = <<e.body>>
    <3>1. [i \in DOMAIN e.bindings |-> e.bindings[i].e] = <<>>
      <4> DEFINE s == [i \in DOMAIN e.bindings |-> e.bindings[i].e]
      <4>1. IsSeq(s) /\ Len(s) = 0
        BY <1>2, MadeVector
      <4> HIDE DEF s
      <4>2. s = <<>>
        BY <4>1, VectorNotEmpty, IsSeqDomain
      <4> QED
        BY <4>2 DEF s
    <3>2. <<>> \o <<e.body>> = <<e.body>>
      <4>1. <<e.body>> \in Seq({e.body})
        OBVIOUS
      <4> QED
        BY <4>1, ConcatEmptySeq
    <3> QED
      BY <3>1, <3>2 DEF Children
  <2> QED
    BY <2>1, <2>2
<1> QED
  BY <1>5, <1>6, <1>7 DEF Agree

-----------------------------------------------------------------------------
(* All expressions, by induction on their rank.                            *)

\* What holds of an expression when it holds of all that have a lower rank holds
\* of all.
LEMMA RankInduction ==
    ASSUME NEW T, NEW rank, NEW P, \A e \in T : rank[e] \in Nat,
           \A e \in T : (\A x \in T : rank[x] < rank[e] => x \in P) => e \in P
    PROVE  T \subseteq P
<1> DEFINE R == {rank[e] : e \in T \ P}
<1> SUFFICES ASSUME T \ P # {} PROVE FALSE
  OBVIOUS
<1>1. \E x \in R : \A y \in R : x <= y
  <2>1. R \subseteq Nat /\ R # {}
    OBVIOUS
  <2> HIDE DEF R
  <2> QED
    BY <2>1, LeastElement
<1>2. PICK e \in T \ P : \A y \in R : rank[e] <= y
  BY <1>1
<1>3. ASSUME NEW x \in T, rank[x] < rank[e] PROVE x \in P
  <2>1. x \notin P => rank[e] <= rank[x]
    BY <1>2
  <2>2. rank[x] \in Nat /\ rank[e] \in Nat
    OBVIOUS
  <2> QED
    BY <1>3, <2>1, <2>2
<1> QED
  BY <1>2, <1>3

\* The parts of an expression that are its children, and those of a let.
LEMMA PartsFound ==
    ASSUME NEW e
    PROVE  /\ \A i \in DOMAIN Children(e) : Children(e)[i] \in PartsOf(e)
           /\ e.exp = "Let" /\ e.bindings # <<>> => AfterFirst(e) \in PartsOf(e)
           /\ e.exp = "Let" /\ IsSeq(e.bindings) =>
                 /\ \A i \in DOMAIN e.bindings : e.bindings[i].e \in PartsOf(e)
                 /\ e.body \in PartsOf(e)
<1>1. \A i \in DOMAIN Children(e) : Children(e)[i] \in PartsOf(e)
  BY DEF PartsOf
<1>2. e.exp = "Let" /\ e.bindings # <<>> => AfterFirst(e) \in PartsOf(e)
  BY DEF PartsOf
<1>3. ASSUME e.exp = "Let", IsSeq(e.bindings)
      PROVE  (\A i \in DOMAIN e.bindings : e.bindings[i].e \in PartsOf(e)) /\ e.body \in PartsOf(e)
  <2> DEFINE Q == PartsOf(e) \cup {e.body} \cup {e.bindings[i].e : i \in DOMAIN e.bindings}
             P == [x \in Q |-> x \in PartsOf(e)]
  <2>1. \A i \in DOMAIN Children(e) : P[Children(e)[i]]
    BY <1>1
  <2>2. (\A i \in DOMAIN e.bindings : P[e.bindings[i].e]) /\ P[e.body]
    <3> HIDE DEF P
    <3> QED
      BY <1>3, <2>1, LetChildren
  <2>3. e.body \in Q /\ \A i \in DOMAIN e.bindings : e.bindings[i].e \in Q
    OBVIOUS
  <2>4. \A x \in Q : P[x] <=> x \in PartsOf(e)
    OBVIOUS
  <2> HIDE DEF P, Q
  <2> QED
    BY <2>2, <2>3, <2>4
<1> QED
  BY <1>1, <1>2, <1>3

LEMMA OnlyOccurrences ==
    ASSUME NEW T, NEW occ, NEW fine, NEW rank, Known(T, occ, fine, rank)
    PROVE  \A e \in T : AreOccurrences(occ[e])
<1> DEFINE P == {e \in T : AreOccurrences(occ[e])}
<1>1. ASSUME NEW e \in T, \A x \in T : rank[x] < rank[e] => x \in P PROVE e \in P
  <2>1. \A x \in PartsOf(e) : AreOccurrences(occ[x])
    BY <1>1 DEF Known
  <2>2. occ[e] = OccurrencesFrom(occ, e)
    BY DEF Known
  <2>3. CASE e.exp = "Var"
    <3>1. occ[e] = {VarOcc(e.x)} /\ VarOcc(e.x).occ = "var"
      BY <2>2, <2>3 DEF OccurrencesFrom, OccurrencesArm, VarOcc
    <3> QED
      BY <3>1 DEF AreOccurrences
  <2>4. CASE e.exp = "Let" /\ e.bindings # <<>>
    <3>1. occ[e] = occ[Head(e.bindings).e] \cup Unbind(occ[AfterFirst(e)], Head(e.bindings).var)
      BY <2>2, <2>4 DEF OccurrencesFrom, OccurrencesArm, AfterFirst
    <3>2. IsSeq(e.bindings)
      BY <2>4 DEF Known, Shaped
    <3>3. Head(e.bindings) = e.bindings[1] /\ 1 \in DOMAIN e.bindings
      BY <2>4, <3>2, TailOfVector, IsSeqDomain
    <3>4. AreOccurrences(occ[Head(e.bindings).e])
      BY <2>1, <2>4, <3>2, <3>3, PartsFound
    <3>5. AreOccurrences(occ[AfterFirst(e)])
      BY <2>1, <2>4, PartsFound
    <3>6. AreOccurrences(Unbind(occ[AfterFirst(e)], Head(e.bindings).var))
      BY <3>5, UnbindFits
    <3> QED
      BY <3>1, <3>4, <3>6 DEF AreOccurrences
  <2>5. CASE e.exp # "Var" /\ ~(e.exp = "Let" /\ e.bindings # <<>>)
    <3>1. occ[e] = (IF e.exp = "Call" THEN {CallOcc(e.f, Len(e.args))} ELSE {})
                   \cup UNION {occ[Children(e)[i]] : i \in DOMAIN Children(e)}
      BY <2>2, <2>5 DEF OccurrencesFrom, OccurrencesArm
    <3>2. CallOcc(e.f, Len(e.args)).occ = "call"
      BY DEF CallOcc
    <3>3. \A i \in DOMAIN Children(e) : AreOccurrences(occ[Children(e)[i]])
      BY <2>1, PartsFound
    <3> QED
      BY <3>1, <3>2, <3>3 DEF AreOccurrences
  <2> QED
    BY <2>3, <2>4, <2>5
<1>2. \A e \in T : rank[e] \in Nat
  BY DEF Known
<1> HIDE DEF P
<1>3. T \subseteq P
  BY <1>1, <1>2, RankInduction
<1> QED
  BY <1>3 DEF P

\* check_exp accepts an expression exactly when it is well formed and all that occurs
\* in it is resolved where it stands.
LEMMA CheckExpAgrees ==
    ASSUME NEW T, NEW occ, NEW fine, NEW rank, Known(T, occ, fine, rank),
           NEW J, NEW answer, Answered(J, answer)
    PROVE  \A e \in T : \A args, lcl, funs :
              <<e, args, lcl, funs>> \in J => Agree(answer, occ, fine, e, args, lcl, funs)
<1> DEFINE P == {e \in T : \A args, lcl, funs :
                    <<e, args, lcl, funs>> \in J => Agree(answer, occ, fine, e, args, lcl, funs)}
<1>1. ASSUME NEW e \in T, \A x \in T : rank[x] < rank[e] => x \in P PROVE e \in P
  <2> SUFFICES ASSUME NEW args, NEW lcl, NEW funs, <<e, args, lcl, funs>> \in J
               PROVE  Agree(answer, occ, fine, e, args, lcl, funs)
    OBVIOUS
  <2>1. ASSUME NEW x \in PartsOf(e), NEW l, <<x, args, l, funs>> \in J
        PROVE  Agree(answer, occ, fine, x, args, l, funs)
    <3>1. x \in T /\ rank[x] < rank[e]
      BY DEF Known
    <3> QED
      BY <1>1, <2>1, <3>1
  <2>2. /\ answer[<<e, args, lcl, funs>>] = AnswerFrom(answer, e, args, lcl, funs)
        /\ \A q \in Questions(e, lcl) : <<q[1], args, q[2], funs>> \in J
    BY DEF Answered
  <2>3. Shaped(e) /\ occ[e] = OccurrencesFrom(occ, e) /\ (fine[e] <=> WellFormedFrom(fine, e))
    BY DEF Known
  <2>4. CASE e.exp # "Let"
    <3>1. ASSUME NEW i \in DOMAIN Children(e)
          PROVE  Agree(answer, occ, fine, Children(e)[i], args, lcl, funs)
      <4>1. <<Children(e)[i], lcl>> \in Questions(e, lcl)
        BY <2>4 DEF Questions
      <4>2. <<Children(e)[i], args, lcl, funs>> \in J
        BY <2>2, <4>1
      <4>3. Children(e)[i] \in PartsOf(e)
        BY PartsFound
      <4> QED
        BY <2>1, <4>2, <4>3
    <3> QED
      BY <2>2, <2>3, <2>4, <3>1, OtherAgrees
  <2>5. CASE e.exp = "Let" /\ e.bindings = <<>>
    <3>1. IsSeq(e.bindings) /\ Len(<<>>) = 0
      BY <2>3, <2>5 DEF Shaped
    <3>2. lcl \cup BoundBefore(e.bindings, Len(e.bindings) + 1) = lcl
      BY <2>5, <3>1 DEF BoundBefore
    <3>3. <<e.body, lcl>> \in Questions(e, lcl)
      BY <2>5, <3>2 DEF Questions
    <3>4. <<e.body, args, lcl, funs>> \in J
      BY <2>2, <3>3
    <3>5. e.body \in PartsOf(e)
      BY <2>5, <3>1, PartsFound
    <3> QED
      BY <2>1, <2>2, <2>3, <2>5, <3>4, <3>5, EmptyLetAgrees
  <2>6. CASE e.exp = "Let" /\ e.bindings # <<>>
    <3> DEFINE rest == AfterFirst(e)
               b == e.bindings[1]
               lcl2 == lcl \cup {b.var}
               scope == args \cup lcl
    <3>1. IsSeq(e.bindings)
      BY <2>3, <2>6 DEF Shaped
    <3>2. 1 \in DOMAIN e.bindings
      BY <2>6, <3>1, VectorNotEmpty, IsSeqDomain
    <3>3. rest \in PartsOf(e) /\ b.e \in PartsOf(e)
      BY <2>6, <3>1, <3>2, PartsFound
    <3>4. <<rest, lcl2>> \in Questions(e, lcl)
      BY <2>6 DEF Questions
    <3>5. <<b.e, lcl>> \in Questions(e, lcl)
      <4>1. lcl \cup BoundBefore(e.bindings, 1) = lcl
        BY DEF BoundBefore
      <4> QED
        BY <2>6, <3>2, <4>1 DEF Questions
    <3>6. <<rest, args, lcl2, funs>> \in J /\ <<b.e, args, lcl, funs>> \in J
      BY <2>2, <3>4, <3>5
    <3>7. Agree(answer, occ, fine, rest, args, lcl2, funs) /\ Agree(answer, occ, fine, b.e, args, lcl, funs)
      BY <2>1, <3>3, <3>6
    <3>8. rest \in T /\ (fine[rest] <=> WellFormedFrom(fine, rest)) /\ AreOccurrences(occ[rest])
      BY <3>3, OnlyOccurrences DEF Known
    <3>9. answer[<<rest, args, lcl2, funs>>] = AnswerFrom(answer, rest, args, lcl2, funs)
      BY <3>6 DEF Answered
    <3>10. /\ answer[<<e, args, lcl, funs>>] = Ok
                 <=> /\ AllDiffer(BindingNames(e.bindings))
                     /\ answer[<<b.e, args, lcl, funs>>] = Ok
                     /\ answer[<<rest, args, lcl2, funs>>] = Ok
           /\ fine[e] <=> AllDiffer(BindingNames(e.bindings)) /\ fine[b.e] /\ fine[rest]
           /\ occ[e] = occ[b.e] \cup Unbind(occ[rest], b.var)
      <4>1. Unfolds(answer, occ, fine, e, args, lcl, funs, rest, lcl2)
        BY <2>2, <2>3, <2>6, <3>1, <3>8, <3>9, LetUnfolds
      <4> QED
        BY <4>1 DEF Unfolds
    <3>11. Fit(Unbind(occ[rest], b.var), scope, funs) <=> Fit(occ[rest], scope \cup {b.var}, funs)
      BY <3>8, UnbindFits
    <3>12. args \cup lcl2 = scope \cup {b.var}
      OBVIOUS
    <3> HIDE DEF rest, b, lcl2, scope
    <3>13. Fit(occ[e], scope, funs) <=> Fit(occ[b.e], scope, funs) /\ Fit(occ[rest], args \cup lcl2, funs)
      <4>1. Fit(occ[e], scope, funs)
              <=> Fit(occ[b.e], scope, funs) /\ Fit(Unbind(occ[rest], b.var), scope, funs)
        BY <3>10 DEF Fit
      <4> QED
        BY <3>11, <3>12, <4>1
    <3> QED
      BY <3>7, <3>10, <3>13 DEF Agree, scope
  <2> QED
    BY <2>4, <2>5, <2>6
<1>2. \A e \in T : rank[e] \in Nat
  BY DEF Known
<1> HIDE DEF P
<1>3. T \subseteq P
  BY <1>1, <1>2, RankInduction
<1> QED
  BY <1>3 DEF P

-----------------------------------------------------------------------------
(* Declarations and the program.                                           *)

\* funs has the functions of p, with their arities.
HasFunctions(p, funs) ==
    \A f, n : (\E i \in DOMAIN p.funs : p.funs[i].name = f /\ Len(p.funs[i].params) = n)
              <=> f \in DOMAIN funs /\ funs[f] = n

\* All the parameters bound in what is left over from the body of a function.
LEMMA BoundParameters ==
    ASSUME NEW params, IsSeq(params), NEW occs, AreOccurrences(occs), NEW p, NEW funs,
           HasFunctions(p, funs)
    PROVE  Resolved(occs, params, p) <=> Fit(occs, {params[i] : i \in DOMAIN params}, funs)
<1> DEFINE n == Len(params)
           G == [q \in (2 .. n + 1) \X SUBSET (occs \cup {Unresolved(params[i]) : i \in DOMAIN params})
                   |-> Unbind(q[2], params[q[1] - 1])]
           V == SUBSET (occs \cup {Unresolved(params[i]) : i \in DOMAIN params})
           Is(f) == f = [i \in 1 .. n + 1 |-> IF i = 1 THEN occs ELSE Unbind(f[i - 1], params[i - 1])]
<1>1. DOMAIN params = 1 .. n /\ n \in Nat
  BY IsSeqDomain
<1>2. \A k \in 2 .. n + 1 : k - 1 \in DOMAIN params
  BY <1>1
<1>3. ASSUME NEW k \in 2 .. n + 1, NEW x \in V
      PROVE  G[<<k, x>>] = Unbind(x, params[k - 1]) /\ G[<<k, x>>] \in V
  <2>1. k - 1 \in DOMAIN params
    BY <1>2
  <2>3. <<k, x>> \in (2 .. n + 1) \X V
    OBVIOUS
  <2> HIDE DEF V, n
  <2>4. G[<<k, x>>] = Unbind(x, params[k - 1])
    BY <2>3 DEF V
  <2>5. Unbind(x, params[k - 1]) \subseteq x \cup {Unresolved(params[k - 1])}
    BY DEF Unbind
  <2>6. Unbind(x, params[k - 1]) \in V
    BY <2>1, <2>5 DEF V
  <2> QED
    BY <2>4, <2>6
<1> HIDE DEF G
<1>4. occs \in V /\ n + 1 \in Nat
  BY <1>1
<1> HIDE DEF V
<1>5. PICK f \in [1 .. n + 1 -> V] : Recurs(f, n + 1, occs, G)
  <2>1. \A k \in 2 .. n + 1 : \A x \in V : G[<<k, x>>] \in V
    BY <1>3
  <2> HIDE DEF n
  <2> QED
    BY <1>4, <2>1, RecursiveFunction
<1>6. \A i \in 1 .. n + 1 : f[i] = IF i = 1 THEN occs ELSE Unbind(f[i - 1], params[i - 1])
  <2> TAKE i \in 1 .. n + 1
  <2>1. CASE i = 1
    BY <1>5, <2>1 DEF Recurs
  <2>2. CASE i # 1
    <3>1. i \in 2 .. n + 1 /\ i - 1 \in 1 .. n + 1 /\ f[i - 1] \in V
      BY <1>1, <2>2
    <3> QED
      BY <1>3, <1>5, <2>2, <3>1 DEF Recurs
  <2> QED
    BY <2>1, <2>2
<1>7. Is(f)
  BY <1>6
<1> DEFINE Bind == CHOOSE f2 : Is(f2)
<1>8. Is(Bind)
  BY <1>7, Zenon
<1>9. Resolved(occs, params, p)
        <=> \A o \in Bind[n + 1] :
               /\ o.occ = "call"
               /\ \E i \in DOMAIN p.funs : p.funs[i].name = o.name /\ Len(p.funs[i].params) = o.arity
  BY Zenon DEF Resolved
<1> HIDE DEF Bind
<1>10. Bind[1] = occs /\ \A k \in 1 .. n : Bind[k + 1] = Unbind(Bind[k], params[k])
  <2>1. \A i \in 1 .. n + 1 : Bind[i] = IF i = 1 THEN occs ELSE Unbind(Bind[i - 1], params[i - 1])
    BY <1>8
  <2>2. 1 \in 1 .. n + 1
    BY <1>1
  <2>3. \A k \in 1 .. n : k + 1 \in 1 .. n + 1 /\ k + 1 # 1 /\ (k + 1) - 1 = k
    BY <1>1
  <2>4. Bind[1] = occs
    BY <2>1, <2>2
  <2>5. ASSUME NEW k \in 1 .. n PROVE Bind[k + 1] = Unbind(Bind[k], params[k])
    BY <2>1, <2>3
  <2> QED
    BY <2>4, <2>5
<1> DEFINE Bound(k) == {params[i] : i \in 1 .. k - 1}
           S == {k \in 1 .. n + 1 : /\ AreOccurrences(Bind[k])
                                   /\ \A scope : Fit(Bind[k], scope, funs)
                                                  <=> Fit(occs, scope \cup Bound(k), funs)}
<1>11. 1 \in S
  <2>1. \A scope : scope \cup Bound(1) = scope
    OBVIOUS
  <2>2. 1 \in 1 .. n + 1
    BY <1>1
  <2> HIDE DEF Bound
  <2> QED
    BY <1>10, <2>1, <2>2
<1>12. ASSUME NEW k \in 1 .. (n + 1) - 1, k \in S PROVE k + 1 \in S
  <2>1. k \in 1 .. n /\ k + 1 \in 1 .. n + 1
    BY <1>1
  <2>2. Bind[k + 1] = Unbind(Bind[k], params[k])
    BY <1>10, <2>1
  <2>3. AreOccurrences(Bind[k]) /\ AreOccurrences(Bind[k + 1])
    <3>1. AreOccurrences(Bind[k])
      BY <1>12
    <3> HIDE DEF S
    <3>2. AreOccurrences(Unbind(Bind[k], params[k]))
      BY <3>1, UnbindFits, Zenon
    <3> QED
      BY <2>2, <3>1, <3>2
  <2>4. Bound(k + 1) = Bound(k) \cup {params[k]}
    <3>1. \A i : i \in 1 .. (k + 1) - 1 <=> i \in 1 .. k - 1 \/ i = k
      BY <1>1, <2>1
    <3> QED
      BY <3>1
  <2> HIDE DEF Bound
  <2>5. ASSUME NEW scope PROVE Fit(Bind[k + 1], scope, funs) <=> Fit(occs, scope \cup Bound(k + 1), funs)
    <3>1. Fit(Bind[k + 1], scope, funs) <=> Fit(Bind[k], scope \cup {params[k]}, funs)
      BY <2>2, <2>3, UnbindFits
    <3>2. Fit(Bind[k], scope \cup {params[k]}, funs) <=> Fit(occs, (scope \cup {params[k]}) \cup Bound(k), funs)
      BY <1>12
    <3>3. (scope \cup {params[k]}) \cup Bound(k) = scope \cup Bound(k + 1)
      BY <2>4
    <3> QED
      BY <3>1, <3>2, <3>3
  <2> QED
    BY <2>1, <2>3, <2>5
<1> HIDE DEF S
<1>13. n + 1 \in S
  BY <1>1, <1>4, <1>11, <1>12, UpTo
<1>14. Fit(Bind[n + 1], {}, funs) <=> Fit(occs, {params[i] : i \in DOMAIN params}, funs)
  <2>1. {} \cup Bound(n + 1) = {params[i] : i \in DOMAIN params}
    BY <1>1
  <2> HIDE DEF Bound
  <2> QED
    BY <1>13, <2>1 DEF S
<1>15. Resolved(occs, params, p) <=> Fit(Bind[n + 1], {}, funs)
  <2>1. AreOccurrences(Bind[n + 1])
    BY <1>13 DEF S
  <2>2. \A o : (\E i \in DOMAIN p.funs : p.funs[i].name = o.name /\ Len(p.funs[i].params) = o.arity)
              <=> o.name \in DOMAIN funs /\ funs[o.name] = o.arity
    BY ZenonT(60) DEF HasFunctions
  <2>3. \A o : o.name \notin {}
    OBVIOUS
  <2> QED
    BY <1>9, <2>2, <2>3, Zenon DEF Fit
<1> QED
  BY <1>14, <1>15

\* The functions of the program are in env_fun with their arities.
LEMMA FunctionsOf ==
    ASSUME NEW p, \A i, j \in DOMAIN p.funs : p.funs[i].name = p.funs[j].name => i = j
    PROVE  HasFunctions(p, EnvFun(p))
<1> DEFINE names == {p.funs[i].name : i \in DOMAIN p.funs}
           at(f) == CHOOSE i \in DOMAIN p.funs : p.funs[i].name = f
<1>1. DOMAIN EnvFun(p) = names /\ \A f \in names : EnvFun(p)[f] = Len(p.funs[at(f)].params)
  BY DEF EnvFun
<1>2. ASSUME NEW i \in DOMAIN p.funs PROVE at(p.funs[i].name) = i
  <2>1. at(p.funs[i].name) \in DOMAIN p.funs /\ p.funs[at(p.funs[i].name)].name = p.funs[i].name
    OBVIOUS
  <2> HIDE DEF at
  <2> QED
    BY <2>1
<1>3. \A i \in DOMAIN p.funs : EnvFun(p)[p.funs[i].name] = Len(p.funs[i].params)
  <2> HIDE DEF at
  <2> QED
    BY <1>1, <1>2
<1>4. \A f : f \in DOMAIN EnvFun(p) <=> \E i \in DOMAIN p.funs : p.funs[i].name = f
  BY <1>1
<1>5. \A f, n : (\E i \in DOMAIN p.funs : p.funs[i].name = f /\ Len(p.funs[i].params) = n)
                 <=> f \in DOMAIN EnvFun(p) /\ EnvFun(p)[f] = n
  BY <1>3, <1>4
<1> QED
  BY <1>5 DEF HasFunctions

\* What check_fun answers on all declarations.
LEMMA DeclarationsAreOk ==
    ASSUME NEW p, IsSeq(p.funs), \A i \in DOMAIN p.funs : IsSeq(p.funs[i].params)
    PROVE  (\A i \in DOMAIN p.funs : CheckFun(p, i) = Ok)
           <=> /\ \A i, j \in DOMAIN p.funs : p.funs[i].name = p.funs[j].name => i = j
               /\ \A i \in DOMAIN p.funs : AllDiffer(p.funs[i].params)
<1> DEFINE fs == p.funs
           Earlier(i) == \E j \in 1 .. (i - 1) : fs[j].name = fs[i].name
<1>1. DOMAIN fs = 1 .. Len(fs) /\ Len(fs) \in Nat
  BY IsSeqDomain
<1>2. ASSUME NEW i \in DOMAIN fs
      PROVE  CheckFun(p, i) = Ok <=> ~Earlier(i) /\ AllDiffer(fs[i].params)
  <2>1. CompileErr("DuplicateFunName", fs[i].name) # Ok
    <3>1. CompileErr("DuplicateFunName", fs[i].name).err = "DuplicateFunName" /\ Ok.err = "None"
      BY DEF CompileErr, Ok
    <3> QED
      BY <3>1
  <2>2. NoDuplicate(fs[i].params, "DuplicateArgName") = Ok <=> AllDiffer(fs[i].params)
    BY <1>2, NoDuplicateIsOk
  <2> QED
    BY <2>1, <2>2 DEF CheckFun
<1>3. (\A i \in DOMAIN fs : ~Earlier(i)) <=> \A i, j \in DOMAIN fs : fs[i].name = fs[j].name => i = j
  <2>1. ASSUME \A i \in DOMAIN fs : ~Earlier(i), NEW i \in DOMAIN fs, NEW j \in DOMAIN fs,
               fs[i].name = fs[j].name
        PROVE  i = j
    <3>1. i < j => i \in 1 .. j - 1
      BY <1>1
    <3>2. j < i => j \in 1 .. i - 1
      BY <1>1
    <3>3. ~(i < j) /\ ~(j < i)
      BY <2>1, <3>1, <3>2
    <3> QED
      BY <1>1, <3>3
  <2>2. ASSUME \A i, j \in DOMAIN fs : fs[i].name = fs[j].name => i = j, NEW i \in DOMAIN fs, Earlier(i)
        PROVE  FALSE
    <3>1. PICK j \in 1 .. (i - 1) : fs[j].name = fs[i].name
      BY <2>2
    <3>2. j \in DOMAIN fs /\ j # i
      BY <1>1
    <3> QED
      BY <2>2, <3>1, <3>2
  <2> QED
    BY <2>1, <2>2
<1> HIDE DEF Earlier
<1> QED
  BY <1>2, <1>3

\* check_prog accepts a program exactly when it is well formed: every name resolved,
\* every call to a function of that arity and not hidden by a variable, every literal
\* in 63 bits, no name bound twice in one let, no function declared and no parameter
\* named twice (compile.rs:238-421).
THEOREM CheckProgAcceptsWellFormed ==
    ASSUME NEW p, NEW T, NEW occ, NEW fine, NEW rank, NEW J, NEW answer,
           Examined(p, T, occ, fine, rank, J, answer)
    PROVE  CheckBodies(LAMBDA e, args, funs : answer[<<e, args, {}, funs>>], p) = Ok
           <=> WellFormedBodies(LAMBDA e : occ[e], LAMBDA e : fine[e], p)
<1> DEFINE fs == p.funs
           env == EnvFun(p)
           decls == [i \in DOMAIN fs |-> CheckFun(p, i)]
           bodies == [i \in DOMAIN fs |-> answer[<<fs[i].body, ParamSet(fs[i]), {}, env>>]]
           main == answer[<<p.main, {}, {}, env>>]
           distinct == \A i, j \in DOMAIN fs : fs[i].name = fs[j].name => i = j
<1>1. /\ IsSeq(fs) /\ \A i \in DOMAIN fs : IsSeq(fs[i].params)
      /\ Known(T, occ, fine, rank) /\ Answered(J, answer)
      /\ \A i \in DOMAIN fs : fs[i].body \in T /\ <<fs[i].body, ParamSet(fs[i]), {}, env>> \in J
      /\ p.main \in T /\ <<p.main, {}, {}, env>> \in J
  BY DEF Examined
<1>2. IsSeq(decls) /\ IsSeq(bodies)
  BY <1>1, MadeVector
<1>3. FirstError(decls \o bodies \o <<main>>) = Ok <=> AllOk(decls) /\ AllOk(bodies) /\ main = Ok
  <2> HIDE DEF decls, bodies, main
  <2>1. IsSeq(<<main>>) /\ (AllOk(<<main>>) <=> main = Ok)
    BY SingleVector
  <2>2. IsSeq(decls \o bodies) /\ (AllOk(decls \o bodies) <=> AllOk(decls) /\ AllOk(bodies))
    BY <1>2, ConcatVectors, ConcatIsOk
  <2>3. /\ IsSeq((decls \o bodies) \o <<main>>)
        /\ AllOk((decls \o bodies) \o <<main>>) <=> AllOk(decls \o bodies) /\ AllOk(<<main>>)
    BY <2>1, <2>2, ConcatVectors, ConcatIsOk
  <2> QED
    BY <2>1, <2>2, <2>3, FirstErrorIsOk
<1>4. AllOk(decls) <=> distinct /\ \A i \in DOMAIN fs : AllDiffer(fs[i].params)
  <2>1. AllOk(decls) <=> \A i \in DOMAIN fs : CheckFun(p, i) = Ok
    BY DEF AllOk
  <2> QED
    BY <1>1, <2>1, DeclarationsAreOk
<1>5. ASSUME distinct, NEW e \in T, NEW params, IsSeq(params),
             <<e, {params[i] : i \in DOMAIN params}, {}, env>> \in J
      PROVE  answer[<<e, {params[i] : i \in DOMAIN params}, {}, env>>] = Ok
             <=> fine[e] /\ Resolved(occ[e], params, p)
  <2> DEFINE scope == {params[i] : i \in DOMAIN params}
  <2>1. Agree(answer, occ, fine, e, scope, {}, env)
    <3> HIDE DEF scope
    <3> QED
      BY <1>1, <1>5, CheckExpAgrees DEF scope
  <2>2. AreOccurrences(occ[e])
    BY <1>1, OnlyOccurrences
  <2>3. Resolved(occ[e], params, p) <=> Fit(occ[e], scope, env)
    <3>1. HasFunctions(p, env)
      BY <1>5, FunctionsOf
    <3> HIDE DEF env, distinct
    <3> QED
      BY <1>5, <2>2, <3>1, BoundParameters
  <2>4. scope \cup {} = scope
    OBVIOUS
  <2> QED
    BY <2>1, <2>3, <2>4 DEF Agree
<1>6. ASSUME distinct
      PROVE  AllOk(bodies) <=> \A i \in DOMAIN fs :
                                  fine[fs[i].body] /\ Resolved(occ[fs[i].body], fs[i].params, p)
  <2>1. AllOk(bodies) <=> \A i \in DOMAIN fs : answer[<<fs[i].body, ParamSet(fs[i]), {}, env>>] = Ok
    BY DEF AllOk
  <2>2. ASSUME NEW i \in DOMAIN fs
        PROVE  answer[<<fs[i].body, ParamSet(fs[i]), {}, env>>] = Ok
               <=> fine[fs[i].body] /\ Resolved(occ[fs[i].body], fs[i].params, p)
    <3>1. ParamSet(fs[i]) = {fs[i].params[k] : k \in DOMAIN fs[i].params}
      BY DEF ParamSet
    <3>2. /\ fs[i].body \in T /\ IsSeq(fs[i].params)
          /\ <<fs[i].body, {fs[i].params[k] : k \in DOMAIN fs[i].params}, {}, env>> \in J
      BY <1>1, <3>1
    <3> HIDE DEF fs, env, distinct
    <3>3. answer[<<fs[i].body, {fs[i].params[k] : k \in DOMAIN fs[i].params}, {}, env>>] = Ok
          <=> fine[fs[i].body] /\ Resolved(occ[fs[i].body], fs[i].params, p)
      BY <1>5, <1>6, <3>2
    <3> QED
      BY <3>1, <3>3
  <2> QED
    BY <2>1, <2>2
<1>7. ASSUME distinct PROVE main = Ok <=> fine[p.main] /\ Resolved(occ[p.main], <<>>, p)
  <2>1. <<>> \in Seq({}) /\ DOMAIN <<>> = {}
    OBVIOUS
  <2>2. IsSeq(<<>>)
    BY <2>1, SeqIsSeq
  <2>3. {<<>>[i] : i \in DOMAIN <<>>} = {}
    BY <2>1
  <2> QED
    BY <1>1, <1>5, <1>7, <2>2, <2>3
<1>8. CheckBodies(LAMBDA e, args, funs : answer[<<e, args, {}, funs>>], p)
         = FirstError(decls \o bodies \o <<main>>)
  BY DEF CheckBodies
<1>9. WellFormedBodies(LAMBDA e : occ[e], LAMBDA e : fine[e], p)
         <=> /\ distinct
             /\ \A i \in DOMAIN fs : AllDiffer(fs[i].params) /\ fine[fs[i].body]
                                    /\ Resolved(occ[fs[i].body], fs[i].params, p)
             /\ fine[p.main] /\ Resolved(occ[p.main], <<>>, p)
  BY DEF WellFormedBodies, AllDiffer
<1> HIDE DEF decls, bodies, main, distinct
<1> QED
  BY <1>3, <1>4, <1>6, <1>7, <1>8, <1>9

-----------------------------------------------------------------------------
(* Environments and places after a variable is bound.                      *)

\* A class of the variables known to have one value still has one value.
LEMMA ClassesInBody ==
    ASSUME NEW equivs, NEW env, NEW x, NEW bound, NEW v,
           \A c \in equivs : \A y, z \in c \cap DOMAIN env : env[y] = env[z],
           x \notin UNION equivs,
           bound.exp = "Var" => bound.x \in DOMAIN env /\ v = env[bound.x],
           NEW c \in Joined(x, bound, equivs),
           NEW y \in c \cap DOMAIN Extend(env, x, v), NEW z \in c \cap DOMAIN Extend(env, x, v)
    PROVE  Extend(env, x, v)[y] = Extend(env, x, v)[z]
<1> DEFINE env2 == Extend(env, x, v)
           mine == ClassesOf(bound.x, equivs)
<1>1. /\ DOMAIN env2 = DOMAIN env \cup {x} /\ env2[x] = v
      /\ \A u \in DOMAIN env : u # x => env2[u] = env[u]
  BY DEF Extend
<1> HIDE DEF env2
<1>2. CASE c \in equivs
  <2>1. y # x /\ z # x
    BY <1>2
  <2>2. y \in c \cap DOMAIN env /\ z \in c \cap DOMAIN env
    BY <1>1, <2>1 DEF env2
  <2>3. env[y] = env[z]
    BY <1>2, <2>2
  <2> QED
    BY <1>1, <2>1, <2>2, <2>3 DEF env2
<1>3. CASE c \notin equivs
  <2>1. bound.exp = "Var"
    BY <1>3 DEF Joined
  <2>2. \/ mine = {} /\ c = {x, bound.x}
        \/ \E m \in mine : c = m \cup {x}
    BY <1>3, <2>1 DEF Joined
  <2>3. bound.x \in DOMAIN env /\ v = env[bound.x]
    BY <2>1
  <2>4. ASSUME NEW u \in c, u \in DOMAIN env2 PROVE env2[u] = v
    <3>1. CASE u = x
      BY <1>1, <3>1
    <3>2. CASE u # x /\ c = {x, bound.x}
      BY <1>1, <2>3, <2>4, <3>2
    <3>3. CASE u # x /\ \E m \in mine : c = m \cup {x}
      <4>1. PICK m \in mine : c = m \cup {x}
        BY <3>3
      <4>2. m \in equivs /\ bound.x \in m /\ u \in m /\ u \in DOMAIN env
        BY <1>1, <2>4, <3>3, <4>1 DEF ClassesOf
      <4>3. env[u] = env[bound.x]
        BY <2>3, <4>2
      <4> QED
        BY <1>1, <2>3, <3>3, <4>2, <4>3
    <3> QED
      BY <2>2, <3>1, <3>2, <3>3
  <2> QED
    BY <2>4 DEF env2
<1> QED
  BY <1>2, <1>3

\* When the value of a let is written to the place of its variable, the places
\* agree with the environment in which the variable is bound.
LEMMA AgreesInBody ==
    ASSUME NEW a, NEW b, NEW env, NEW frame, NEW st, NEW st2, NEW x, NEW bound, NEW v,
           Agrees(a, env, frame, st),
           b.graph = a.graph, b.params = a.params, b.equivs = Joined(x, bound, a.equivs),
           x \in Vertices(a.graph), x \notin a.params, x \notin UNION a.equivs,
           b.live \subseteq Vertices(a.graph),
           \A y \in b.live \ {x} : Apart(x, y, a.graph, b.equivs),
           \A y \in b.live \ {x} : y \in DOMAIN env /\ InPlace(y, env[y], frame, st2),
           bound.exp = "Var" => bound.x \in DOMAIN env /\ v = env[bound.x]
    PROVE  Agrees(b, Extend(env, x, v), frame, Extend(st2, frame.lcl[x], v))
<1> DEFINE env2 == Extend(env, x, v)
           l == frame.lcl[x]
           st3 == Extend(st2, l, v)
<1>1. /\ DOMAIN env2 = DOMAIN env \cup {x} /\ env2[x] = v
      /\ \A u \in DOMAIN env : u # x => env2[u] = env[u]
  BY DEF Extend
<1>2. /\ DOMAIN st3 = DOMAIN st2 \cup {l} /\ st3[l] = v
      /\ \A k \in DOMAIN st2 : k # l => st3[k] = st2[k]
  BY DEF Extend
<1>3. \A c \in b.equivs : \A y, z \in c \cap DOMAIN env2 : env2[y] = env2[z]
  BY ClassesInBody DEF Agrees
<1> HIDE DEF env2, st3, l
<1>4. DOMAIN frame.lcl = Vertices(b.graph) /\ Proper(frame.lcl, b.graph)
  BY DEF Agrees
<1>5. ASSUME NEW y \in b.params PROVE y \in DOMAIN env2 /\ frame.args[y] = env2[y]
  BY <1>1 DEF Agrees
<1>6. ASSUME NEW y \in b.live PROVE y \in DOMAIN env2 /\ InPlace(y, env2[y], frame, st3)
  <2>1. CASE y = x
    BY <1>1, <1>2, <2>1 DEF InPlace, l
  <2>2. CASE y # x
    <3>1. y \in DOMAIN env /\ InPlace(y, env[y], frame, st2)
      BY <2>2
    <3>2. env2[y] = env[y] /\ frame.lcl[y] \in DOMAIN st2 /\ st2[frame.lcl[y]] = env[y]
      BY <1>1, <2>2, <3>1 DEF InPlace
    <3>3. CASE frame.lcl[y] # l
      BY <1>1, <1>2, <3>1, <3>2, <3>3 DEF InPlace
    <3>4. CASE frame.lcl[y] = l
      <4>1. y \notin Neighbors(a.graph, x)
        BY <1>1, <1>4, <3>1, <3>4 DEF Proper, l, Agrees
      <4>2. PICK c \in b.equivs : {x, y} \subseteq c
        BY <2>2, <4>1 DEF Apart
      <4>3. env2[x] = env2[y]
        BY <1>1, <1>3, <3>1, <4>2
      <4> QED
        BY <1>1, <1>2, <3>1, <3>2, <3>4, <4>3 DEF InPlace
    <3> QED
      BY <3>3, <3>4
  <2> QED
    BY <2>1, <2>2
<1> QED
  BY <1>3, <1>4, <1>5, <1>6 DEF Agrees, env2, st3, l

-----------------------------------------------------------------------------
(* Operations on immediate expressions.                                    *)

\* The rules hold of whatever begins.
LEMMA RuleAt ==
    ASSUME NEW D, Rules(D), NEW p \in Programs, NEW e, NEW env, Begins(D, p, e, env)
    PROVE  EvalRule(D, p, e, env)
BY DEF Rules

\* The kinds of expressions that are immediate.
LEMMA ImmediateKinds ==
    ASSUME NEW e
    PROVE  Immediate(e) <=> e.exp = "Num" \/ e.exp = "Bool" \/ e.exp = "Var"
BY DEF Immediate

\* What compile_imm reads is what the direct-style interpreter gives.
LEMMA OperandRight ==
    ASSUME NEW D, Rules(D), NEW p \in Programs, NEW a, NEW e, NEW env, NEW frame, NEW st,
           Agrees(a, env, frame, st), Vertices(a.graph) \cap a.params = {},
           a.live \subseteq Vertices(a.graph),
           Immediate(e), e.exp = "Var" => e.x \in a.live \cup a.params,
           AcceptedIn(p, e, env)
    PROVE  LET v == Operand(e, frame, st)
           IN  /\ v \in Values
               /\ Begins(D, p, e, env) => Gives(D, p, e, env, v, <<>>)
               /\ e.exp = "Var" => e.x \in DOMAIN env /\ v = env[e.x]
<1>1. AcceptedShape(e, DOMAIN env, Arities(p))
  BY ShapeOf
<1> DEFINE begun == Begins(D, p, e, env)
<1>5. begun => EvalRule(D, p, e, env)
  BY RuleAt
<1> HIDE DEF begun
<1>2. CASE e.exp = "Num"
  <2>1. Operand(e, frame, st) = NumV(e.n)
    BY <1>2 DEF Operand
  <2>2. e.n \in MinInt .. MaxInt /\ (begun => Gives(D, p, e, env, NumV(e.n), <<>>))
    BY <1>1, <1>2, <1>5 DEF AcceptedShape, EvalRule
  <2>3. NumV(e.n) \in Values
    BY <2>2 DEF NumV, Values
  <2> QED
    BY <1>2, <2>1, <2>2, <2>3 DEF begun
<1>3. CASE e.exp = "Bool"
  <2>1. Operand(e, frame, st) = BoolV(e.b)
    BY <1>3 DEF Operand
  <2>2. e.b \in BOOLEAN /\ (begun => Gives(D, p, e, env, BoolV(e.b), <<>>))
    BY <1>1, <1>3, <1>5 DEF AcceptedShape, EvalRule
  <2> QED
    BY <1>3, <2>1, <2>2, BoolIsValue DEF begun
<1>4. CASE e.exp = "Var"
  <2>1. /\ e.x \in DOMAIN env /\ env[e.x] \in Values
        /\ begun => Gives(D, p, e, env, env[e.x], <<>>)
    BY <1>1, <1>4, <1>5 DEF AcceptedShape, EvalRule, AcceptedIn, EnvOK
  <2>2. CASE e.x \in a.params
    <3>1. e.x \notin DOMAIN frame.lcl /\ frame.args[e.x] = env[e.x]
      BY <2>2 DEF Agrees
    <3>2. Operand(e, frame, st) = frame.args[e.x]
      BY <1>4, <3>1 DEF Operand
    <3> QED
      BY <2>1, <3>1, <3>2 DEF begun
  <2>3. CASE e.x \in a.live
    <3>1. /\ e.x \in DOMAIN frame.lcl
          /\ frame.lcl[e.x] \in DOMAIN st /\ st[frame.lcl[e.x]] = env[e.x]
      BY <2>3 DEF Agrees, InPlace
    <3>2. Operand(e, frame, st) = st[frame.lcl[e.x]]
      BY <1>4, <3>1 DEF Operand
    <3> QED
      BY <2>1, <3>1, <3>2 DEF begun
  <2> QED
    BY <1>4, <2>2, <2>3
<1> QED
  BY <1>2, <1>3, <1>4, ImmediateKinds

\* What an operation reads is live before it, or a parameter.
LEMMA OperationReads ==
    ASSUME NEW a, SoundOperation(a)
    PROVE  /\ a.out \subseteq a.live
           /\ a.e.exp = "Var" => a.e.x \in a.live \cup a.params
           /\ ~Immediate(a.e) => \A i \in DOMAIN Children(a.e) :
                 LET y == Children(a.e)[i]
                 IN  Immediate(y) /\ (y.exp = "Var" => y.x \in a.live \cup a.params)
<1>1. a.out \subseteq a.live /\ ImmVars(a.e) \subseteq a.live \cup a.params
  BY DEF SoundOperation
<1>2. ASSUME a.e.exp = "Var" PROVE a.e.x \in a.live \cup a.params
  <2> DEFINE s == <<a.e>>
  <2>1. 1 \in DOMAIN s /\ s[1] = a.e
    OBVIOUS
  <2> HIDE DEF s
  <2>2. a.e.x \in VarsIn(s)
    BY <1>2, <2>1 DEF VarsIn
  <2>3. ImmVars(a.e) = VarsIn(s)
    BY <1>2, ImmediateKinds DEF ImmVars, s
  <2> QED
    BY <1>1, <2>2, <2>3
<1>3. ASSUME ~Immediate(a.e), NEW i \in DOMAIN Children(a.e)
      PROVE  /\ Immediate(Children(a.e)[i])
             /\ Children(a.e)[i].exp = "Var" => Children(a.e)[i].x \in a.live \cup a.params
  <2>1. ImmVars(a.e) = VarsIn(Children(a.e))
    BY <1>3 DEF ImmVars
  <2>2. Children(a.e)[i].exp = "Var" => Children(a.e)[i].x \in VarsIn(Children(a.e))
    BY <1>3 DEF VarsIn
  <2> QED
    BY <1>1, <1>3, <2>1, <2>2 DEF SoundOperation
<1> QED
  BY <1>1, <1>2, <1>3

\* What was found out about an expression that is no let and no if.
LEMMA OperationOf ==
    ASSUME NEW A, NEW a \in A, \A b \in A : SoundAt(A, b), a.e.exp # "Let", a.e.exp # "If"
    PROVE  SoundOperation(a)
BY DEF SoundAt, SoundIf, SoundLet

\* And what holds of every node.
LEMMA PlacesOf ==
    ASSUME NEW A, NEW a \in A, \A b \in A : SoundAt(A, b)
    PROVE  /\ Vertices(a.graph) \cap a.params = {}
           /\ a.live \subseteq Vertices(a.graph) /\ a.out \subseteq Vertices(a.graph)
BY DEF SoundAt

-----------------------------------------------------------------------------
(* Each rule of evaluating in places makes right from right.               *)

\* What has just begun has printed nothing and come to nothing.
LEMMA RightBegins ==
    ASSUME NEW D, NEW p, NEW A, NEW e, NEW frame, NEW st
    PROVE  Right(D, p, A, e, frame, st, Interrupted, <<>>, st)
<1>1. IsErr(Interrupted)
  BY DEF IsErr, Interrupted
<1> QED
  BY <1>1 DEF Right, Begins, Leaves

\* A value that leaves the places as they are leaves what is live in its place.
LEMMA LeavesPlaces ==
    ASSUME NEW a, NEW env, NEW frame, NEW st, Agrees(a, env, frame, st), SoundOperation(a),
           NEW r, r \in Values \/ IsErr(r), a.e.exp = "Var" => r = env[a.e.x]
    PROVE  Leaves(a, env, frame, r, st)
<1>1. a.out \subseteq a.live
  BY OperationReads
<1>2. \A x \in a.out : x \in DOMAIN env /\ InPlace(x, env[x], frame, st)
  BY <1>1 DEF Agrees
<1> QED
  BY <1>2 DEF Leaves

\* Reading an immediate expression.
LEMMA RightImm ==
    ASSUME NEW D, Rules(D), NEW p \in Programs, NEW A, \A b \in A : SoundAt(A, b),
           NEW e, Immediate(e), NEW frame, NEW st
    PROVE  Right(D, p, A, e, frame, st, Operand(e, frame, st), <<>>, st)
<1> DEFINE v == Operand(e, frame, st)
<1> SUFFICES ASSUME NEW a \in A, NEW env, a.e = e, Agrees(a, env, frame, st),
                    AcceptedIn(p, e, env), Begins(D, p, e, env)
             PROVE  Gives(D, p, e, env, v, <<>>) /\ Leaves(a, env, frame, v, st)
  BY DEF Right
<1>1. SoundOperation(a)
  BY OperationOf, ImmediateKinds
<1>2. e.exp = "Var" => e.x \in a.live \cup a.params
  BY <1>1, OperationReads
<1>3. Vertices(a.graph) \cap a.params = {} /\ a.live \subseteq Vertices(a.graph)
  BY PlacesOf
<1>4. /\ v \in Values /\ Gives(D, p, e, env, v, <<>>)
      /\ e.exp = "Var" => v = env[e.x]
  BY <1>2, <1>3, OperandRight
<1> HIDE DEF v
<1>5. Leaves(a, env, frame, v, st)
  BY <1>1, <1>4, LeavesPlaces
<1> QED
  BY <1>4, <1>5

\* Operating on one immediate expression.
LEMMA RightPrim1 ==
    ASSUME NEW D, Rules(D), NEW p \in Programs, NEW A, \A b \in A : SoundAt(A, b),
           NEW e, e.exp = "Prim1", NEW frame, NEW st,
           NEW r, NEW o, Performs(e.op, Operand(e.e, frame, st), r, o)
    PROVE  Right(D, p, A, e, frame, st, r, o, st)
<1> DEFINE v == Operand(e.e, frame, st)
<1> SUFFICES ASSUME NEW a \in A, NEW env, a.e = e, Agrees(a, env, frame, st),
                    AcceptedIn(p, e, env), Begins(D, p, e, env)
             PROVE  Gives(D, p, e, env, r, o) /\ Leaves(a, env, frame, r, st)
  BY DEF Right
<1>1. SoundOperation(a)
  BY OperationOf
<1>2. Immediate(e.e) /\ (e.e.exp = "Var" => e.e.x \in a.live \cup a.params)
  <2>1. Children(e) = <<e.e>>
    BY DEF Children
  <2>2. 1 \in DOMAIN Children(e) /\ Children(e)[1] = e.e
    BY <2>1
  <2>3. ~Immediate(e)
    BY ImmediateKinds
  <2> QED
    BY <1>1, <2>2, <2>3, OperationReads
<1>3. e.op \in Prim1Ops /\ AcceptedIn(p, e.e, env)
  BY ShapeOf DEF AcceptedShape, AcceptedIn
<1>4. EvalPrim1(D, p, e, env)
  BY RuleAt DEF EvalRule
<1>5. Vertices(a.graph) \cap a.params = {} /\ a.live \subseteq Vertices(a.graph)
  BY PlacesOf
<1>6. v \in Values /\ Gives(D, p, e.e, env, v, <<>>)
  <2>1. Begins(D, p, e.e, env)
    BY <1>4 DEF EvalPrim1, First
  <2> QED
    BY <1>2, <1>3, <1>5, <2>1, OperandRight
<1> HIDE DEF v
<1>7. Performs(e.op, v, r, o)
  BY DEF v
<1>8. Gives(D, p, e, env, r, <<>> \o o)
  BY <1>4, <1>6, <1>7 DEF EvalPrim1
<1>9. o \in Seq(Values) /\ <<>> \o o = o
  <2>1. o = <<>> \/ o = <<v>>
    BY <1>7 DEF Performs
  <2>2. <<>> \in Seq(Values)
    BY EmptySeq
  <2>3. <<v>> \in Seq(Values)
    BY <1>6, <2>2, PrintedParts
  <2>4. o \in Seq(Values)
    BY <2>1, <2>2, <2>3
  <2> QED
    BY <2>4, PrintedParts
<1>10. r \in Values \/ IsErr(r)
  <2>1. InterpretPrim1(e.op, v) \in Values \/ IsErr(InterpretPrim1(e.op, v))
    BY <1>3, <1>6, Prim1Fits
  <2>2. IsErr(Interrupted) /\ IsErr(WriteErr)
    BY DEF IsErr, Interrupted, WriteErr
  <2> QED
    BY <1>7, <2>1, <2>2 DEF Performs
<1>11. Leaves(a, env, frame, r, st)
  BY <1>1, <1>10, LeavesPlaces
<1> QED
  BY <1>8, <1>9, <1>11

\* Operating on two.
LEMMA RightPrim2 ==
    ASSUME NEW D, Rules(D), NEW p \in Programs, NEW A, \A b \in A : SoundAt(A, b),
           NEW e, e.exp = "Prim2", NEW frame, NEW st
    PROVE  Right(D, p, A, e, frame, st,
                 InterpretPrim2(e.op, Operand(e.e1, frame, st), Operand(e.e2, frame, st)), <<>>, st)
<1> DEFINE v1 == Operand(e.e1, frame, st)
           v2 == Operand(e.e2, frame, st)
           r == InterpretPrim2(e.op, v1, v2)
<1> SUFFICES ASSUME NEW a \in A, NEW env, a.e = e, Agrees(a, env, frame, st),
                    AcceptedIn(p, e, env), Begins(D, p, e, env)
             PROVE  Gives(D, p, e, env, r, <<>>) /\ Leaves(a, env, frame, r, st)
  BY DEF Right
<1>1. SoundOperation(a)
  BY OperationOf
<1>2. /\ Immediate(e.e1) /\ (e.e1.exp = "Var" => e.e1.x \in a.live \cup a.params)
      /\ Immediate(e.e2) /\ (e.e2.exp = "Var" => e.e2.x \in a.live \cup a.params)
  <2>1. Children(e) = <<e.e1, e.e2>>
    BY DEF Children
  <2>2. /\ 1 \in DOMAIN Children(e) /\ Children(e)[1] = e.e1
        /\ 2 \in DOMAIN Children(e) /\ Children(e)[2] = e.e2
    BY <2>1
  <2>3. ~Immediate(e)
    BY ImmediateKinds
  <2> QED
    BY <1>1, <2>2, <2>3, OperationReads
<1>3. e.op \in Prim2Ops /\ AcceptedIn(p, e.e1, env) /\ AcceptedIn(p, e.e2, env)
  BY ShapeOf DEF AcceptedShape, AcceptedIn
<1>4. EvalPrim2(D, p, e, env)
  BY RuleAt DEF EvalRule
<1>5. Vertices(a.graph) \cap a.params = {} /\ a.live \subseteq Vertices(a.graph)
  BY PlacesOf
<1>6. v1 \in Values /\ Gives(D, p, e.e1, env, v1, <<>>)
  <2>1. Begins(D, p, e.e1, env)
    BY <1>4 DEF EvalPrim2, First
  <2> QED
    BY <1>2, <1>3, <1>5, <2>1, OperandRight
<1>7. v2 \in Values /\ Gives(D, p, e.e2, env, v2, <<>>)
  <2>1. Begins(D, p, e.e2, env)
    BY <1>4, <1>6 DEF EvalPrim2
  <2> QED
    BY <1>2, <1>3, <1>5, <2>1, OperandRight
<1> HIDE DEF v1, v2
<1>8. Combined(e.op, v1, v2) = r
  BY <1>7, ValueKinds DEF Combined, IsErr
<1>9. r \in Values \/ IsErr(r)
  BY <1>3, <1>6, <1>7, Prim2Fits
<1> HIDE DEF r
<1>10. Gives(D, p, e, env, r, <<>> \o <<>>)
  BY <1>4, <1>6, <1>7, <1>8 DEF EvalPrim2
<1>11. <<>> \o <<>> = <<>>
  BY PrintedParts
<1>12. Leaves(a, env, frame, r, st)
  BY <1>1, <1>9, LeavesPlaces
<1> QED
  BY <1>10, <1>11, <1>12

\* Reading a condition.
LEMMA CondRight ==
    ASSUME NEW D, Rules(D), NEW p \in Programs, NEW A, \A b \in A : SoundAt(A, b),
           NEW e, e.exp = "If", NEW frame, NEW st, NEW v, v = Operand(e.cond, frame, st),
           NEW a \in A, NEW env, a.e = e, Agrees(a, env, frame, st),
           AcceptedIn(p, e, env), Begins(D, p, e, env)
    PROVE  v \in Values /\ Gives(D, p, e.cond, env, v, <<>>)
<1>1. SoundIf(A, a)
  BY DEF SoundAt, SoundOperation, SoundLet
<1>2. Immediate(e.cond) /\ (e.cond.exp = "Var" => e.cond.x \in a.live \cup a.params)
  <2> DEFINE s == <<e.cond>>
  <2>1. 1 \in DOMAIN s /\ s[1] = e.cond
    OBVIOUS
  <2>2. VarsIn(s) \ a.params \subseteq a.live /\ Immediate(e.cond)
    BY <1>1 DEF SoundIf
  <2> HIDE DEF s
  <2>3. e.cond.exp = "Var" => e.cond.x \in VarsIn(s)
    BY <2>1 DEF VarsIn
  <2> QED
    BY <2>2, <2>3
<1>3. AcceptedIn(p, e.cond, env)
  BY ShapeOf DEF AcceptedShape, AcceptedIn
<1>4. Begins(D, p, e.cond, env)
  BY RuleAt DEF EvalRule, EvalIf, First
<1>5. Vertices(a.graph) \cap a.params = {} /\ a.live \subseteq Vertices(a.graph)
  BY PlacesOf
<1> QED
  BY <1>2, <1>3, <1>4, <1>5, OperandRight

\* A condition that is no Boolean.
LEMMA RightIfError ==
    ASSUME NEW D, Rules(D), NEW p \in Programs, NEW A, \A b \in A : SoundAt(A, b),
           NEW e, e.exp = "If", NEW frame, NEW st, NEW v, v = Operand(e.cond, frame, st),
           v.t # "Bool"
    PROVE  Right(D, p, A, e, frame, st, ExpectedBool("if", v), <<>>, st)
<1> SUFFICES ASSUME NEW a \in A, NEW env, a.e = e, Agrees(a, env, frame, st),
                    AcceptedIn(p, e, env), Begins(D, p, e, env)
             PROVE  Gives(D, p, e, env, ExpectedBool("if", v), <<>>)
  BY DEF Right, Leaves, ExpectedBool, IsErr
<1>1. v \in Values /\ Gives(D, p, e.cond, env, v, <<>>)
  BY CondRight
<1>2. EvalIf(D, p, e, env)
  BY RuleAt DEF EvalRule
<1> QED
  BY <1>1, <1>2 DEF EvalIf

\* What the branch that is taken comes to is right for the if.
LEMMA RightIf ==
    ASSUME NEW D, Rules(D), NEW p \in Programs, NEW A, \A b \in A : SoundAt(A, b),
           NEW e, e.exp = "If", NEW frame, NEW st, NEW v, v = Operand(e.cond, frame, st),
           v.t = "Bool", NEW branch, branch = IF v.b THEN e.thn ELSE e.els,
           NEW r, NEW o, NEW st2, Right(D, p, A, branch, frame, st, r, o, st2)
    PROVE  Right(D, p, A, e, frame, st, r, o, st2)
<1> SUFFICES ASSUME NEW a \in A, NEW env, a.e = e, Agrees(a, env, frame, st),
                    AcceptedIn(p, e, env), Begins(D, p, e, env)
             PROVE  Gives(D, p, e, env, r, o) /\ Leaves(a, env, frame, r, st2)
  BY DEF Right
<1>1. v \in Values /\ Gives(D, p, e.cond, env, v, <<>>)
  BY CondRight
<1>2. EvalIf(D, p, e, env)
  BY RuleAt DEF EvalRule
<1>3. GoesOn(D, p, e, env, <<>>, branch, env)
  BY <1>1, <1>2, Zenon DEF EvalIf
<1>4. branch \in {e.thn, e.els}
  OBVIOUS
<1>5. PICK b \in A : /\ b = Node(branch, a.params, b.live, a.out, a.equivs, a.graph)
                     /\ b.live \subseteq a.live
  BY <1>4 DEF SoundAt, SoundIf, SoundOperation, SoundLet
<1>6. /\ b.e = branch /\ b.params = a.params /\ b.out = a.out
      /\ b.equivs = a.equivs /\ b.graph = a.graph
  BY <1>5 DEF Node
<1>7. Agrees(b, env, frame, st)
  BY <1>5, <1>6 DEF Agrees
<1>8. AcceptedIn(p, branch, env)
  BY <1>4, ShapeOf DEF AcceptedShape, AcceptedIn
<1>9. Begins(D, p, branch, env)
  BY <1>3 DEF GoesOn
<1>10. Gives(D, p, branch, env, r, o) /\ Leaves(b, env, frame, r, st2)
  BY <1>6, <1>7, <1>8, <1>9 DEF Right
<1>11. Gives(D, p, e, env, r, <<>> \o o)
  BY <1>3, <1>10 DEF GoesOn
<1>12. <<>> \o o = o
  BY <1>10, PrintedParts DEF Gives
<1>13. Leaves(a, env, frame, r, st2)
  BY <1>6, <1>10 DEF Leaves
<1> QED
  BY <1>11, <1>12, <1>13

\* A let of a sequential program, and the bound expression where it starts.
LEMMA LetBegins ==
    ASSUME NEW D, Rules(D), NEW p \in Programs, NEW A, \A b \in A : SoundAt(A, b),
           NEW e, e.exp = "Let", NEW frame, NEW st,
           NEW a \in A, NEW env, a.e = e, Agrees(a, env, frame, st),
           AcceptedIn(p, e, env), Begins(D, p, e, env)
    PROVE  /\ SoundLet(A, a)
           /\ e.bindings # <<>> /\ IsSeq(e.bindings) /\ Head(e.bindings) = e.bindings[1]
           /\ Tail(e.bindings) = <<>>
           /\ EvalLet(D, p, e, env)
           /\ AcceptedIn(p, e.bindings[1].e, env)
           /\ <<e.body, DOMAIN env \cup {e.bindings[1].var}, Arities(p)>> \in Accepted
<1>1. SoundLet(A, a)
  BY DEF SoundAt, SoundOperation, SoundIf
<1>2. Len(e.bindings) = 1
  BY <1>1 DEF SoundLet
<1>3. LetAccepted(e.bindings, e.body, DOMAIN env, Arities(p)) /\ EnvOK(env)
  BY ShapeOf DEF AcceptedShape, AcceptedIn
<1>4. IsSeq(e.bindings) /\ e.bindings # <<>>
  <2>1. IsSeq(e.bindings)
    BY <1>3 DEF LetAccepted
  <2>2. Len(<<>>) = 0
    BY EmptySeq
  <2> QED
    BY <1>2, <2>1, <2>2
<1>5. Head(e.bindings) = e.bindings[1] /\ IsSeq(Tail(e.bindings)) /\ Len(Tail(e.bindings)) = 0
  BY <1>2, <1>4, TailOfVector
<1>6. Tail(e.bindings) = <<>>
  <2> DEFINE t == Tail(e.bindings)
  <2>1. t \in Seq({t[i] : i \in DOMAIN t}) /\ Len(t) = 0
    BY <1>5 DEF IsSeq
  <2> HIDE DEF t
  <2>2. t = <<>>
    BY <2>1, EmptySeq
  <2> QED
    BY <2>2 DEF t
<1>7. /\ <<Head(e.bindings).e, DOMAIN env, Arities(p)>> \in Accepted
      /\ LetAccepted(Tail(e.bindings), e.body, DOMAIN env \cup {Head(e.bindings).var}, Arities(p))
  BY <1>3, <1>4, LetFirst
<1>8. <<e.body, DOMAIN env \cup {Head(e.bindings).var}, Arities(p)>> \in Accepted
  BY <1>6, <1>7, LetWithout
<1>9. EvalLet(D, p, e, env)
  BY RuleAt DEF EvalRule
<1> QED
  BY <1>1, <1>3, <1>4, <1>5, <1>6, <1>7, <1>8, <1>9 DEF AcceptedIn

\* The value of the bound expression, and what the body may read besides it.
Ready(b, x, bound, env, frame, v, st2) ==
    /\ v \in Values
    /\ bound.exp = "Var" => bound.x \in DOMAIN env /\ v = env[bound.x]
    /\ \A y \in b.live \ {x} : y \in DOMAIN env /\ InPlace(y, env[y], frame, st2)

\* What the bound expression comes to.
LEMMA BoundRight ==
    ASSUME NEW D, Rules(D), NEW p \in Programs, NEW A, \A b \in A : SoundAt(A, b),
           NEW e, e.exp = "Let", NEW frame, NEW st,
           NEW a \in A, NEW env, a.e = e, Agrees(a, env, frame, st),
           AcceptedIn(p, e, env), Begins(D, p, e, env),
           NEW x, NEW bound, x = e.bindings[1].var, bound = e.bindings[1].e,
           NEW b, Node(bound, a.params, a.live, b.live \ {x}, a.equivs, a.graph) \in A,
           NEW r, NEW o, NEW st2, Right(D, p, A, bound, frame, st, r, o, st2)
    PROVE  /\ First(D, p, e, bound, env)
           /\ Gives(D, p, bound, env, r, o)
           /\ IsErr(r) \/ Ready(b, x, bound, env, frame, r, st2)
<1> DEFINE n == Node(bound, a.params, a.live, b.live \ {x}, a.equivs, a.graph)
<1>1. /\ n.e = bound /\ n.params = a.params /\ n.live = a.live
      /\ n.out = b.live \ {x} /\ n.equivs = a.equivs /\ n.graph = a.graph
  BY DEF Node
<1>2. n \in A
  OBVIOUS
<1> HIDE DEF n
<1>3. Agrees(n, env, frame, st)
  BY <1>1 DEF Agrees
<1>4. /\ e.bindings # <<>> /\ Head(e.bindings) = e.bindings[1]
      /\ EvalLet(D, p, e, env) /\ AcceptedIn(p, bound, env)
  BY LetBegins, ZenonT(60)
<1>5. First(D, p, e, bound, env)
  BY <1>4 DEF EvalLet
<1>6. Gives(D, p, bound, env, r, o) /\ Leaves(n, env, frame, r, st2)
  <2>1. Begins(D, p, bound, env)
    BY <1>5 DEF First
  <2> QED
    BY <1>1, <1>2, <1>3, <1>4, <2>1 DEF Right
<1>7. bound.exp = "Var" => bound.x \in DOMAIN env
  BY <1>4, ShapeOf DEF AcceptedShape
<1> QED
  BY <1>1, <1>5, <1>6, <1>7 DEF Leaves, Ready

\* An error in the bound expression.
LEMMA RightLetError ==
    ASSUME NEW D, Rules(D), NEW p \in Programs, NEW A, \A b \in A : SoundAt(A, b),
           NEW e, e.exp = "Let", NEW frame, NEW st,
           NEW r, NEW o, NEW st2, Right(D, p, A, e.bindings[1].e, frame, st, r, o, st2), IsErr(r)
    PROVE  Right(D, p, A, e, frame, st, r, o, st2)
<1> SUFFICES ASSUME NEW a \in A, NEW env, a.e = e, Agrees(a, env, frame, st),
                    AcceptedIn(p, e, env), Begins(D, p, e, env)
             PROVE  Gives(D, p, e, env, r, o)
  BY DEF Right, Leaves
<1> DEFINE x == e.bindings[1].var
           bound == e.bindings[1].e
<1>1. PICK b \in A : Node(bound, a.params, a.live, b.live \ {x}, a.equivs, a.graph) \in A
  BY LetBegins DEF SoundLet
<1>2. First(D, p, e, bound, env) /\ Gives(D, p, bound, env, r, o)
  BY <1>1, BoundRight
<1> QED
  BY <1>2 DEF First

\* What the body comes to, when the value is in the place of the variable.
LEMMA RightLet ==
    ASSUME NEW D, Rules(D), NEW p \in Programs, NEW A, \A b \in A : SoundAt(A, b),
           NEW e, e.exp = "Let", NEW frame, NEW st,
           NEW v, NEW o, NEW st2, Right(D, p, A, e.bindings[1].e, frame, st, v, o, st2), ~IsErr(v),
           NEW st3, st3 = Extend(st2, frame.lcl[e.bindings[1].var], v),
           NEW r, NEW o2, NEW st4, Right(D, p, A, e.body, frame, st3, r, o2, st4)
    PROVE  Right(D, p, A, e, frame, st, r, o \o o2, st4)
<1> SUFFICES ASSUME NEW a \in A, NEW env, a.e = e, Agrees(a, env, frame, st),
                    AcceptedIn(p, e, env), Begins(D, p, e, env)
             PROVE  Gives(D, p, e, env, r, o \o o2) /\ Leaves(a, env, frame, r, st4)
  BY DEF Right
<1> DEFINE x == e.bindings[1].var
           bound == e.bindings[1].e
           env2 == Extend(env, x, v)
           rest == Let(<<>>, e.body)
<1>1. /\ SoundLet(A, a) /\ e.bindings # <<>> /\ Tail(e.bindings) = <<>>
      /\ Head(e.bindings) = e.bindings[1] /\ EvalLet(D, p, e, env)
      /\ <<e.body, DOMAIN env \cup {x}, Arities(p)>> \in Accepted
  BY LetBegins
<1>2. PICK b \in A :
         /\ b = Node(e.body, a.params, b.live, a.out, Joined(x, bound, a.equivs), a.graph)
         /\ Node(bound, a.params, a.live, b.live \ {x}, a.equivs, a.graph) \in A
         /\ \A y \in b.live \ {x} : Apart(x, y, a.graph, Joined(x, bound, a.equivs))
  BY <1>1 DEF SoundLet
<1>3. /\ b.e = e.body /\ b.params = a.params /\ b.out = a.out
      /\ b.equivs = Joined(x, bound, a.equivs) /\ b.graph = a.graph
  BY <1>2 DEF Node
<1>4. /\ x \in Vertices(a.graph) /\ x \notin a.params
      /\ x \notin a.out /\ x \notin UNION a.equivs
  BY <1>1 DEF SoundLet
<1>5. /\ Gives(D, p, bound, env, v, o) /\ v \in Values
      /\ bound.exp = "Var" => bound.x \in DOMAIN env /\ v = env[bound.x]
      /\ \A y \in b.live \ {x} : y \in DOMAIN env /\ InPlace(y, env[y], frame, st2)
  <2>1. Gives(D, p, bound, env, v, o) /\ Ready(b, x, bound, env, frame, v, st2)
    BY <1>2, BoundRight
  <2> QED
    BY <2>1 DEF Ready
<1>6. GoesOn(D, p, e, env, o, rest, env2)
  BY <1>1, <1>5 DEF EvalLet
<1>7. rest.exp = "Let" /\ rest.bindings = <<>> /\ rest.body = e.body
  BY DEF Let
<1>8. /\ DOMAIN env2 = DOMAIN env \cup {x}
      /\ \A y \in DOMAIN env : y # x => env2[y] = env[y]
  BY DEF Extend
<1>9. AcceptedIn(p, e.body, env2)
  BY <1>1, <1>5, <1>8, ExtendOK DEF AcceptedIn
<1>10. Agrees(b, env2, frame, st3)
  <2>1. b.live \subseteq Vertices(a.graph)
    BY <1>3, PlacesOf
  <2> HIDE DEF x, bound
  <2>2. Agrees(b, Extend(env, x, v), frame, Extend(st2, frame.lcl[x], v))
    BY <1>2, <1>3, <1>4, <1>5, <2>1, AgreesInBody
  <2> QED
    BY <2>2 DEF x
<1> HIDE DEF x, bound, env2, rest
<1>11. GoesOn(D, p, rest, env2, <<>>, e.body, env2)
  <2>1. EvalLet(D, p, rest, env2)
    BY <1>6, <1>7, RuleAt DEF GoesOn, EvalRule
  <2> QED
    BY <1>7, <2>1 DEF EvalLet
<1>12. Gives(D, p, e.body, env2, r, o2) /\ Leaves(b, env2, frame, r, st4)
  BY <1>3, <1>9, <1>10, <1>11 DEF Right, GoesOn
<1>13. Gives(D, p, e, env, r, o \o o2)
  <2>1. Gives(D, p, rest, env2, r, <<>> \o o2)
    BY <1>11, <1>12 DEF GoesOn
  <2>2. <<>> \o o2 = o2
    BY <1>12, PrintedParts DEF Gives
  <2> QED
    BY <1>6, <2>1, <2>2 DEF GoesOn
<1>14. Leaves(a, env, frame, r, st4)
  <2>1. ASSUME NEW y \in a.out, y \in DOMAIN env2, InPlace(y, env2[y], frame, st4)
        PROVE  y \in DOMAIN env /\ InPlace(y, env[y], frame, st4)
    BY <1>4, <1>8, <2>1
  <2> QED
    BY <1>3, <1>12, <2>1 DEF Leaves
<1> QED
  BY <1>13, <1>14

-----------------------------------------------------------------------------
(* Calls.                                                                  *)

\* Going on twice without printing.
LEMMA GoesOnTwice ==
    ASSUME NEW D, NEW p, NEW e, NEW env, NEW e2, NEW env2, NEW e3, NEW env3,
           GoesOn(D, p, e, env, <<>>, e2, env2), GoesOn(D, p, e2, env2, <<>>, e3, env3)
    PROVE  GoesOn(D, p, e, env, <<>>, e3, env3)
<1>1. ASSUME NEW r, NEW o, Gives(D, p, e3, env3, r, o) PROVE Gives(D, p, e, env, r, <<>> \o o)
  <2>1. o \in Seq(Values)
    BY <1>1 DEF Gives
  <2>2. <<>> \o o = o
    BY <2>1, PrintedParts
  <2>3. Gives(D, p, e2, env2, r, o)
    BY <1>1, <2>2 DEF GoesOn
  <2> QED
    BY <2>3 DEF GoesOn
<1> QED
  BY <1>1 DEF GoesOn

\* The call e when k of its arguments are evaluated, which are the first of vs.
Prepared(D, p, e, env, vs, k) ==
    \E us, rest :
        /\ us \in Seq(Values) /\ Len(us) = k /\ \A i \in 1 .. k : us[i] = vs[i]
        /\ IsSeq(rest) /\ Len(rest) = Len(e.args) - k
        /\ \A i \in DOMAIN rest : rest[i] = e.args[k + i]
        /\ GoesOn(D, p, e, env, <<>>, Applied(e.f, us, rest), env)

\* One more argument.
LEMMA PreparesOn ==
    ASSUME NEW D, Rules(D), NEW p \in Programs, NEW e, NEW env, IsSeq(e.args),
           NEW vs \in Seq(Values), Len(vs) = Len(e.args),
           \A i \in DOMAIN e.args :
              Begins(D, p, e.args[i], env) => Gives(D, p, e.args[i], env, vs[i], <<>>),
           NEW k \in Nat, k < Len(e.args), Prepared(D, p, e, env, vs, k)
    PROVE  Prepared(D, p, e, env, vs, k + 1)
<1>1. PICK us, rest :
         /\ us \in Seq(Values) /\ Len(us) = k /\ \A i \in 1 .. k : us[i] = vs[i]
         /\ IsSeq(rest) /\ Len(rest) = Len(e.args) - k
         /\ \A i \in DOMAIN rest : rest[i] = e.args[k + i]
         /\ GoesOn(D, p, e, env, <<>>, Applied(e.f, us, rest), env)
  BY DEF Prepared
<1> DEFINE n == Len(e.args)
           c == Applied(e.f, us, rest)
           x == e.args[k + 1]
           v == vs[k + 1]
           us2 == Append(us, v)
           rest2 == Tail(rest)
<1>2. n \in Nat /\ DOMAIN e.args = 1 .. n /\ k + 1 \in 1 .. n
  BY IsSeqDomain
<1>3. v \in Values
  <2>1. vs \in [1 .. Len(vs) -> Values]
    BY LenProperties
  <2> QED
    BY <1>2, <2>1
<1>4. rest # <<>>
  <2>1. Len(<<>>) = 0
    BY EmptySeq
  <2> QED
    BY <1>1, <1>2, <2>1
<1>5. /\ IsSeq(rest2) /\ Len(rest2) = Len(rest) - 1 /\ Head(rest) = rest[1]
      /\ Len(rest) >= 1
      /\ \A i \in DOMAIN rest2 : i + 1 \in DOMAIN rest /\ rest2[i] = rest[i + 1]
  BY <1>1, <1>4, TailOfVector
<1>6. DOMAIN rest = 1 .. Len(rest) /\ Len(rest) \in Nat /\ DOMAIN rest2 = 1 .. Len(rest2)
  BY <1>1, <1>5, IsSeqDomain
<1>7. Head(rest) = x
  <2>1. 1 \in DOMAIN rest
    BY <1>5, <1>6
  <2> QED
    BY <1>1, <1>5, <2>1
<1>8. c.exp = "Applied" /\ c.f = e.f /\ c.vs = us /\ c.args = rest
  BY DEF Applied
<1>9. /\ us2 \in Seq(Values) /\ Len(us2) = k + 1 /\ us2[k + 1] = v
      /\ \A i \in 1 .. k : us2[i] = us[i]
  BY <1>1, <1>3, AppendProperties
<1>10. \A i \in 1 .. k + 1 : us2[i] = vs[i]
  <2>1. ASSUME NEW i \in 1 .. k + 1 PROVE i \in 1 .. k \/ i = k + 1
    OBVIOUS
  <2> QED
    BY <1>1, <1>9, <2>1
<1>11. Len(rest2) = n - (k + 1)
  BY <1>1, <1>2, <1>5
<1>12. ASSUME NEW i \in DOMAIN rest2 PROVE rest2[i] = e.args[(k + 1) + i]
  <2>1. i + 1 \in DOMAIN rest /\ rest2[i] = rest[i + 1] /\ k + (i + 1) = (k + 1) + i
    BY <1>5, <1>6
  <2> QED
    BY <1>1, <2>1
<1> HIDE DEF c, v, us2, rest2, n
<1>13. EvalApplied(D, p, c, env)
  <2>1. Begins(D, p, c, env)
    BY <1>1 DEF GoesOn, c
  <2> QED
    BY <1>8, <2>1, RuleAt DEF EvalRule
<1>14. Gives(D, p, x, env, v, <<>>)
  <2>1. Begins(D, p, x, env)
    BY <1>4, <1>7, <1>8, <1>13 DEF EvalApplied, First
  <2> QED
    BY <1>2, <2>1 DEF v
<1>15. GoesOn(D, p, c, env, <<>>, Applied(e.f, us2, rest2), env)
  BY <1>3, <1>4, <1>7, <1>8, <1>13, <1>14 DEF EvalApplied, us2, rest2
<1>16. GoesOn(D, p, e, env, <<>>, Applied(e.f, us2, rest2), env)
  BY <1>1, <1>15, GoesOnTwice DEF c
<1> QED
  BY <1>5, <1>9, <1>10, <1>11, <1>12, <1>16 DEF Prepared, n

\* A call goes on to the body of the function, with the parameters bound to what
\* its arguments give.
LEMMA CallGoesOn ==
    ASSUME NEW D, Rules(D), NEW p \in Programs, NEW e, e.exp = "Call", NEW env,
           Begins(D, p, e, env), IsSeq(e.args),
           NEW vs \in Seq(Values), Len(vs) = Len(e.args),
           \A i \in DOMAIN e.args :
              Begins(D, p, e.args[i], env) => Gives(D, p, e.args[i], env, vs[i], <<>>),
           NEW i \in DOMAIN p.funs, p.funs[i].name = e.f,
           NEW bound, Binds(bound, p.funs[i].params, vs)
    PROVE  GoesOn(D, p, e, env, <<>>, p.funs[i].body, bound)
<1> DEFINE n == Len(e.args)
           S == {k \in Nat : k <= n => Prepared(D, p, e, env, vs, k)}
<1>1. n \in Nat
  BY IsSeqDomain
<1>2. Prepared(D, p, e, env, vs, 0)
  <2>1. <<>> \in Seq(Values) /\ Len(<<>>) = 0
    BY EmptySeq
  <2>2. GoesOn(D, p, e, env, <<>>, Applied(e.f, <<>>, e.args), env)
    BY RuleAt DEF EvalRule
  <2>3. 1 .. 0 = {} /\ n = n - 0
    BY <1>1
  <2>4. \A j \in DOMAIN e.args : e.args[j] = e.args[0 + j]
    <3>1. \A j \in 1 .. n : 0 + j = j
      BY <1>1
    <3> QED
      BY <3>1, IsSeqDomain
  <2> QED
    BY <2>1, <2>2, <2>3, <2>4 DEF Prepared
<1>3. ASSUME NEW k \in Nat, k \in S PROVE k + 1 \in S
  <2>1. CASE k + 1 <= n
    <3>1. k < n /\ k <= n
      BY <1>1, <2>1
    <3>2. Prepared(D, p, e, env, vs, k)
      BY <1>3, <3>1
    <3>3. Prepared(D, p, e, env, vs, k + 1)
      BY <3>1, <3>2, PreparesOn
    <3> QED
      BY <3>3
  <2>2. CASE ~(k + 1 <= n)
    BY <2>2
  <2> QED
    BY <2>1, <2>2
<1>4. Nat \subseteq S
  <2>1. 0 \in S
    BY <1>2
  <2> HIDE DEF S
  <2> QED
    BY <1>3, <2>1, NatInductiveSet
<1>5. Prepared(D, p, e, env, vs, n)
  <2>1. n \in S
    BY <1>1, <1>4
  <2> QED
    BY <1>1, <2>1
<1>6. PICK us, rest :
         /\ us \in Seq(Values) /\ Len(us) = n /\ \A j \in 1 .. n : us[j] = vs[j]
         /\ IsSeq(rest) /\ Len(rest) = n - n
         /\ GoesOn(D, p, e, env, <<>>, Applied(e.f, us, rest), env)
  BY <1>5 DEF Prepared
<1> HIDE DEF S
<1>7. us = vs
  <2>1. Len(us) = Len(vs) /\ \A j \in 1 .. Len(us) : us[j] = vs[j]
    BY <1>6
  <2> QED
    BY <1>6, <2>1, SeqEqual
<1>8. rest = <<>>
  <2>1. rest \in Seq({rest[j] : j \in DOMAIN rest}) /\ Len(rest) = 0
    BY <1>1, <1>6 DEF IsSeq
  <2> QED
    BY <2>1, EmptySeq
<1> DEFINE c == Applied(e.f, us, rest)
<1>9. c.exp = "Applied" /\ c.f = e.f /\ c.vs = vs /\ c.args = <<>>
  BY <1>7, <1>8 DEF Applied
<1>10. GoesOn(D, p, e, env, <<>>, c, env)
  BY <1>6
<1> HIDE DEF c
<1>11. GoesOn(D, p, c, env, <<>>, p.funs[i].body, bound)
  BY <1>9, <1>10, RuleAt DEF GoesOn, EvalRule, EvalApplied
<1> QED
  BY <1>10, <1>11, GoesOnTwice

\* The arguments of a call, where it starts.
LEMMA ArgumentsRight ==
    ASSUME NEW D, Rules(D), NEW p \in Programs, NEW A, \A b \in A : SoundAt(A, b),
           NEW e, e.exp = "Call", NEW frame, NEW st,
           NEW a \in A, NEW env, a.e = e, Agrees(a, env, frame, st),
           AcceptedIn(p, e, env),
           NEW vs, vs = [k \in DOMAIN e.args |-> Operand(e.args[k], frame, st)]
    PROVE  /\ IsSeq(e.args) /\ <<e.f, Len(e.args)>> \in Arities(p)
           /\ vs \in Seq(Values) /\ Len(vs) = Len(e.args)
           /\ \A k \in DOMAIN e.args :
                 Begins(D, p, e.args[k], env) => Gives(D, p, e.args[k], env, vs[k], <<>>)
<1>1. /\ IsSeq(e.args) /\ <<e.f, Len(e.args)>> \in Arities(p)
      /\ \A k \in DOMAIN e.args : AcceptedIn(p, e.args[k], env)
  BY ShapeOf DEF AcceptedShape, AcceptedIn
<1>2. SoundOperation(a)
  BY OperationOf
<1>3. Children(e) = e.args /\ ~Immediate(e)
  BY ImmediateKinds DEF Children
<1>4. ASSUME NEW k \in DOMAIN e.args
      PROVE  /\ vs[k] \in Values
             /\ Begins(D, p, e.args[k], env) => Gives(D, p, e.args[k], env, vs[k], <<>>)
  <2> DEFINE y == e.args[k]
  <2>1. Immediate(y) /\ (y.exp = "Var" => y.x \in a.live \cup a.params)
    BY <1>2, <1>3, OperationReads
  <2>2. Vertices(a.graph) \cap a.params = {} /\ a.live \subseteq Vertices(a.graph)
    BY PlacesOf
  <2>3. AcceptedIn(p, y, env)
    BY <1>1
  <2>4. vs[k] = Operand(y, frame, st)
    OBVIOUS
  <2> HIDE DEF y
  <2>5. /\ Operand(y, frame, st) \in Values
        /\ Begins(D, p, y, env) => Gives(D, p, y, env, Operand(y, frame, st), <<>>)
    BY <2>1, <2>2, <2>3, OperandRight
  <2> QED
    BY <2>4, <2>5 DEF y
<1>5. Len(e.args) \in Nat /\ DOMAIN e.args = 1 .. Len(e.args)
  BY <1>1, IsSeqDomain
<1>6. vs \in [1 .. Len(e.args) -> Values]
  BY <1>4, <1>5
<1>7. vs \in Seq(Values)
  BY <1>5, <1>6, SeqDef
<1>8. Len(vs) = Len(e.args)
  BY <1>5, <1>6, <1>7, LenProperties
<1> QED
  BY <1>1, <1>4, <1>7, <1>8

\* What the body of the function comes to, in a frame of its own.
LEMMA RightCall ==
    ASSUME NEW D, Rules(D), NEW p \in Programs, NEW A, NEW graphs, Analysed(A, p, graphs),
           NEW lcls, NEW i \in DOMAIN p.funs, Allocation(lcls[i], graphs[i]),
           NEW e, e.exp = "Call", p.funs[i].name = e.f, NEW frame, NEW st,
           NEW vs, vs = [k \in DOMAIN e.args |-> Operand(e.args[k], frame, st)],
           NEW inside, inside = Entered(p, lcls, i, vs),
           NEW r, NEW o, NEW st2, Right(D, p, A, p.funs[i].body, inside, EmptyStore, r, o, st2)
    PROVE  Right(D, p, A, e, frame, st, r, o, st)
<1> SUFFICES ASSUME NEW a \in A, NEW env, a.e = e, Agrees(a, env, frame, st),
                    AcceptedIn(p, e, env), Begins(D, p, e, env)
             PROVE  Gives(D, p, e, env, r, o) /\ Leaves(a, env, frame, r, st)
  BY DEF Right
<1> DEFINE d == p.funs[i]
           bound == ParamEnv(d.params, vs)
           n == Node(d.body, ParamSet(d), {}, {}, {}, graphs[i])
<1>1. \A b \in A : SoundAt(A, b)
  BY DEF Analysed
<1>2. /\ IsSeq(e.args) /\ <<e.f, Len(e.args)>> \in Arities(p)
      /\ vs \in Seq(Values) /\ Len(vs) = Len(e.args)
      /\ \A k \in DOMAIN e.args :
            Begins(D, p, e.args[k], env) => Gives(D, p, e.args[k], env, vs[k], <<>>)
  BY <1>1, ArgumentsRight
<1>3. /\ \A j, k \in DOMAIN p.funs : p.funs[j].name = p.funs[k].name => j = k
      /\ IsSeq(d.params)
      /\ \A j, k \in DOMAIN d.params : d.params[j] = d.params[k] => j = k
      /\ <<d.body, ParamSet(d), Arities(p)>> \in Accepted
  BY ProgramsAssumption
<1>4. Len(d.params) = Len(vs)
  <2>1. PICK j \in DOMAIN p.funs :
           <<e.f, Len(e.args)>> = <<p.funs[j].name, Len(p.funs[j].params)>>
    BY <1>2 DEF Arities
  <2>2. j = i
    BY <1>3, <2>1
  <2> QED
    BY <1>2, <2>1, <2>2
<1>5. Binds(bound, d.params, vs)
  BY <1>2, <1>3, <1>4, ParamsBound
<1>6. DOMAIN bound = ParamSet(d) /\ EnvOK(bound)
  BY <1>5 DEF Binds, EnvOK, ParamSet
<1>7. /\ n.e = d.body /\ n.params = ParamSet(d) /\ n.live = {} /\ n.out = {}
      /\ n.equivs = {} /\ n.graph = graphs[i]
  BY DEF Node
<1>8. n \in A
  BY DEF Analysed
<1>9. inside.lcl = lcls[i] /\ inside.args = bound
  BY DEF Entered, Frame
<1> HIDE DEF n, bound, d
<1>10. Agrees(n, bound, inside, EmptyStore)
  BY <1>6, <1>7, <1>9 DEF Agrees, Allocation, Vertices
<1>11. GoesOn(D, p, e, env, <<>>, d.body, bound)
  BY <1>2, <1>5, CallGoesOn DEF d
<1>12. AcceptedIn(p, d.body, bound)
  BY <1>3, <1>6 DEF AcceptedIn
<1>13. Gives(D, p, d.body, bound, r, o) /\ Leaves(n, bound, inside, r, st2)
  <2>1. Begins(D, p, d.body, bound)
    BY <1>11 DEF GoesOn
  <2> QED
    BY <1>7, <1>8, <1>10, <1>12, <2>1 DEF Right, d
<1>14. Gives(D, p, e, env, r, <<>> \o o)
  BY <1>11, <1>13 DEF GoesOn
<1>15. <<>> \o o = o
  BY <1>13, PrintedParts DEF Gives
<1>16. Leaves(a, env, frame, r, st)
  <2>1. SoundOperation(a)
    BY <1>1, OperationOf
  <2>2. r \in Values \/ IsErr(r)
    BY <1>13 DEF Leaves
  <2> QED
    BY <2>1, <2>2, LeavesPlaces
<1> QED
  BY <1>14, <1>15, <1>16

-----------------------------------------------------------------------------
(* The evaluations in places that are right keep the rules.                *)

RightOnes(D, p, A, P) ==
    {t \in P : Right(D, p, A, t[1], t[2], t[3], t[4], t[5], t[6])}

\* Membership, one evaluation at a time.
LEMMA RightOnesGive ==
    ASSUME NEW D, NEW p, NEW A, NEW P, NEW e, NEW frame, NEW st, NEW r, NEW o, NEW st2
    PROVE  PGives(RightOnes(D, p, A, P), e, frame, st, r, o, st2)
               <=> PGives(P, e, frame, st, r, o, st2) /\ Right(D, p, A, e, frame, st, r, o, st2)
<1> DEFINE t == <<e, frame, st, r, o, st2>>
<1>1. t[1] = e /\ t[2] = frame /\ t[3] = st /\ t[4] = r /\ t[5] = o /\ t[6] = st2
  OBVIOUS
<1> HIDE DEF t
<1>2. t \in RightOnes(D, p, A, P) <=> t \in P /\ Right(D, p, A, e, frame, st, r, o, st2)
  BY <1>1 DEF RightOnes
<1> QED
  BY <1>2 DEF PGives, t

\* They keep every rule, because each rule makes right from right.
LEMMA RightOnesKeep ==
    ASSUME NEW D, Rules(D), NEW p \in Programs, NEW A, NEW graphs, Analysed(A, p, graphs),
           NEW lcls, \A i \in DOMAIN p.funs : Allocation(lcls[i], graphs[i]),
           NEW P, Keeps(P, p, lcls)
    PROVE  Keeps(RightOnes(D, p, A, P), p, lcls)
<1> DEFINE X == RightOnes(D, p, A, P)
<1>1. \A b \in A : SoundAt(A, b)
  BY DEF Analysed
<1>2. ASSUME NEW e, NEW frame, NEW st, NEW r, NEW o, NEW st2
      PROVE  PGives(X, e, frame, st, r, o, st2)
                 <=> PGives(P, e, frame, st, r, o, st2) /\ Right(D, p, A, e, frame, st, r, o, st2)
  BY RightOnesGive
<1> HIDE DEF X
<1>3. ASSUME NEW e, NEW frame, NEW st, PBegins(P, e, frame, st) PROVE PBegins(X, e, frame, st)
  BY <1>2, <1>3, RightBegins DEF PBegins
<1>4. ASSUME NEW e, NEW frame, NEW st, PBegins(X, e, frame, st)
      PROVE  PlacedRule(X, p, lcls, e, frame, st)
  <2>1. PlacedRule(P, p, lcls, e, frame, st)
    BY <1>2, <1>4 DEF PBegins, Keeps
  <2>2. ASSUME Immediate(e) PROVE PlacedImm(X, e, frame, st)
    <3>1. PGives(P, e, frame, st, Operand(e, frame, st), <<>>, st)
      BY <2>1, <2>2 DEF PlacedRule, PlacedImm
    <3> QED
      BY <1>1, <1>2, <2>2, <3>1, RightImm DEF PlacedImm
  <2>3. ASSUME e.exp = "Prim1" PROVE PlacedPrim1(X, e, frame, st)
    <3>1. ASSUME NEW r, NEW o, Performs(e.op, Operand(e.e, frame, st), r, o)
          PROVE  PGives(X, e, frame, st, r, o, st)
      <4>1. PGives(P, e, frame, st, r, o, st)
        BY <2>1, <2>3, <3>1 DEF PlacedRule, PlacedPrim1
      <4> QED
        BY <1>1, <1>2, <2>3, <3>1, <4>1, RightPrim1
    <3> QED
      BY <3>1 DEF PlacedPrim1
  <2>4. ASSUME e.exp = "Prim2" PROVE PlacedPrim2(X, e, frame, st)
    <3> DEFINE r == InterpretPrim2(e.op, Operand(e.e1, frame, st), Operand(e.e2, frame, st))
    <3>1. PGives(P, e, frame, st, r, <<>>, st)
      BY <2>1, <2>4 DEF PlacedRule, PlacedPrim2
    <3>2. Right(D, p, A, e, frame, st, r, <<>>, st)
      BY <1>1, <2>4, RightPrim2
    <3>3. PGives(X, e, frame, st, r, <<>>, st)
      BY <1>2, <3>1, <3>2
    <3> QED
      BY <3>3 DEF PlacedPrim2
  <2>5. ASSUME e.exp = "If" PROVE PlacedIf(X, e, frame, st)
    <3> DEFINE v == Operand(e.cond, frame, st)
               branch == IF v.b THEN e.thn ELSE e.els
    <3>1. PlacedIf(P, e, frame, st)
      BY <2>1, <2>5 DEF PlacedRule
    <3>2. CASE v.t # "Bool"
      <4>1. PGives(P, e, frame, st, ExpectedBool("if", v), <<>>, st)
        BY <3>1, <3>2 DEF PlacedIf
      <4>2. Right(D, p, A, e, frame, st, ExpectedBool("if", v), <<>>, st)
        BY <1>1, <2>5, <3>2, RightIfError
      <4>3. PGives(X, e, frame, st, ExpectedBool("if", v), <<>>, st)
        BY <1>2, <4>1, <4>2
      <4> QED
        BY <3>2, <4>3 DEF PlacedIf
    <3>3. CASE v.t = "Bool"
      <4>1. /\ PBegins(P, branch, frame, st)
            /\ \A r, o, st2 : PGives(P, branch, frame, st, r, o, st2) =>
                  PGives(P, e, frame, st, r, o, st2)
        BY <3>1, <3>3 DEF PlacedIf
      <4>2. PBegins(X, branch, frame, st)
        BY <1>3, <4>1
      <4>3. ASSUME NEW r, NEW o, NEW st2, PGives(X, branch, frame, st, r, o, st2)
            PROVE  PGives(X, e, frame, st, r, o, st2)
        <5>1. /\ PGives(P, branch, frame, st, r, o, st2)
              /\ Right(D, p, A, branch, frame, st, r, o, st2)
          BY <1>2, <4>3
        <5>2. Right(D, p, A, e, frame, st, r, o, st2)
          BY <1>1, <2>5, <3>3, <5>1, RightIf
        <5> QED
          BY <1>2, <4>1, <5>1, <5>2
      <4> QED
        BY <3>3, <4>2, <4>3 DEF PlacedIf
    <3> QED
      BY <3>2, <3>3
  <2>6. ASSUME e.exp = "Let" PROVE PlacedLet(X, e, frame, st)
    <3> DEFINE b == e.bindings[1]
    <3>1. PlacedLet(P, e, frame, st)
      BY <2>1, <2>6 DEF PlacedRule
    <3>2. PBegins(X, b.e, frame, st)
      BY <1>3, <3>1 DEF PlacedLet
    <3>3. ASSUME NEW v, NEW o, NEW st2, PGives(X, b.e, frame, st, v, o, st2), IsErr(v)
          PROVE  PGives(X, e, frame, st, v, o, st2)
      <4>1. PGives(P, b.e, frame, st, v, o, st2) /\ Right(D, p, A, b.e, frame, st, v, o, st2)
        BY <1>2, <3>3
      <4>2. PGives(P, e, frame, st, v, o, st2)
        BY <3>1, <3>3, <4>1 DEF PlacedLet
      <4>3. Right(D, p, A, e, frame, st, v, o, st2)
        BY <1>1, <2>6, <3>3, <4>1, RightLetError
      <4> QED
        BY <1>2, <4>2, <4>3
    <3>4. ASSUME NEW v, NEW o, NEW st2, PGives(X, b.e, frame, st, v, o, st2), ~IsErr(v),
                 NEW st3, st3 = Extend(st2, frame.lcl[b.var], v)
          PROVE  /\ PBegins(X, e.body, frame, st3)
                 /\ \A r, o2, st4 : PGives(X, e.body, frame, st3, r, o2, st4) =>
                       PGives(X, e, frame, st, r, o \o o2, st4)
      <4>1. PGives(P, b.e, frame, st, v, o, st2) /\ Right(D, p, A, b.e, frame, st, v, o, st2)
        BY <1>2, <3>4
      <4>2. /\ PBegins(P, e.body, frame, st3)
            /\ \A r, o2, st4 : PGives(P, e.body, frame, st3, r, o2, st4) =>
                  PGives(P, e, frame, st, r, o \o o2, st4)
        BY <3>1, <3>4, <4>1 DEF PlacedLet
      <4>3. ASSUME NEW r, NEW o2, NEW st4, PGives(X, e.body, frame, st3, r, o2, st4)
            PROVE  PGives(X, e, frame, st, r, o \o o2, st4)
        <5>1. /\ PGives(P, e.body, frame, st3, r, o2, st4)
              /\ Right(D, p, A, e.body, frame, st3, r, o2, st4)
          BY <1>2, <4>3
        <5>2. Right(D, p, A, e, frame, st, r, o \o o2, st4)
          BY <1>1, <2>6, <3>4, <4>1, <5>1, RightLet
        <5> QED
          BY <1>2, <4>2, <5>1, <5>2
      <4> QED
        BY <1>3, <4>2, <4>3
    <3> HIDE DEF b
    <3> QED
      BY <3>2, <3>3, <3>4 DEF PlacedLet, b
  <2>7. ASSUME e.exp = "Call" PROVE PlacedCall(X, p, lcls, e, frame, st)
    <3> DEFINE vs == [k \in DOMAIN e.args |-> Operand(e.args[k], frame, st)]
    <3> SUFFICES ASSUME NEW i \in DOMAIN p.funs, p.funs[i].name = e.f,
                        NEW inside, inside = Entered(p, lcls, i, vs)
                 PROVE  /\ PBegins(X, p.funs[i].body, inside, EmptyStore)
                        /\ \A r, o, st2 : PGives(X, p.funs[i].body, inside, EmptyStore, r, o, st2)
                              => PGives(X, e, frame, st, r, o, st)
      BY DEF PlacedCall
    <3>1. /\ PBegins(P, p.funs[i].body, inside, EmptyStore)
          /\ \A r, o, st2 : PGives(P, p.funs[i].body, inside, EmptyStore, r, o, st2)
                => PGives(P, e, frame, st, r, o, st)
      BY <2>1, <2>7 DEF PlacedRule, PlacedCall
    <3>2. ASSUME NEW r, NEW o, NEW st2, PGives(X, p.funs[i].body, inside, EmptyStore, r, o, st2)
          PROVE  PGives(X, e, frame, st, r, o, st)
      <4>1. /\ PGives(P, p.funs[i].body, inside, EmptyStore, r, o, st2)
            /\ Right(D, p, A, p.funs[i].body, inside, EmptyStore, r, o, st2)
        BY <1>2, <3>2
      <4>2. /\ vs = [k \in DOMAIN e.args |-> Operand(e.args[k], frame, st)]
            /\ Allocation(lcls[i], graphs[i])
        OBVIOUS
      <4> HIDE DEF vs
      <4>3. Right(D, p, A, e, frame, st, r, o, st)
        BY <2>7, <4>1, <4>2, RightCall, SMTT(60)
      <4> QED
        BY <1>2, <3>1, <4>1, <4>3
    <3> QED
      BY <1>3, <3>1, <3>2
  <2> QED
    BY <2>2, <2>3, <2>4, <2>5, <2>6, <2>7 DEF PlacedRule
<1>5. PBegins(X, p.main, MainFrame(p, lcls), EmptyStore)
  BY <1>3 DEF Keeps
<1> QED
  BY <1>4, <1>5 DEF Keeps, X

\* For every program that check_prog accepts, whatever its functions and however
\* they call one another: when what liveness and conflicts found out is enough to
\* share places, any allocation for the conflict graphs loses nothing
\* (compile.rs:727-989, 1178-1224).
THEOREM PlacesAreSound ==
    ASSUME NEW p \in Programs, NEW A, NEW graphs, Analysed(A, p, graphs),
           NEW lcls, \A i \in 1 .. Len(p.funs) + 1 : Allocation(lcls[i], graphs[i])
    PROVE  PlacedSoundly(p, lcls)
<1> SUFFICES ASSUME NEW r, NEW o, PlacedEvaluates(p, lcls, r, o), NEW D, Rules(D)
             PROVE  Gives(D, p, p.main, EmptyEnv, r, o)
  BY DEF PlacedSoundly, Evaluates
<1> DEFINE frame == MainFrame(p, lcls)
           last == Len(p.funs) + 1
           a == Node(p.main, {}, {}, {}, {}, graphs[last])
<1>1. PICK P : /\ Least(P, p, lcls)
               /\ \E st : PGives(P, p.main, frame, EmptyStore, r, o, st)
  BY DEF PlacedEvaluates
<1>2. PICK st : PGives(P, p.main, frame, EmptyStore, r, o, st)
  BY <1>1
<1>3. Len(p.funs) \in Nat /\ DOMAIN p.funs = 1 .. Len(p.funs)
  BY ProgramsAssumption, IsSeqDomain
<1>4. \A i \in DOMAIN p.funs : Allocation(lcls[i], graphs[i])
  BY <1>3
<1>5. P \subseteq RightOnes(D, p, A, P)
  BY <1>1, <1>4, RightOnesKeep DEF Least
<1> HIDE DEF frame
<1>6. Right(D, p, A, p.main, frame, EmptyStore, r, o, st)
  <2>1. PGives(RightOnes(D, p, A, P), p.main, frame, EmptyStore, r, o, st)
    BY <1>2, <1>5 DEF PGives
  <2> QED
    BY <2>1, RightOnesGive
<1>7. /\ a.e = p.main /\ a.params = {} /\ a.live = {} /\ a.equivs = {}
      /\ a.graph = graphs[last]
  BY DEF Node
<1>8. a \in A
  BY DEF Analysed
<1> HIDE DEF a
<1>9. Agrees(a, EmptyEnv, frame, EmptyStore)
  <2>1. frame.lcl = lcls[last] /\ Allocation(lcls[last], graphs[last])
    BY <1>3 DEF frame, MainFrame, Frame
  <2> QED
    BY <1>7, <2>1 DEF Agrees, Allocation
<1>10. AcceptedIn(p, p.main, EmptyEnv)
  <2>1. DOMAIN EmptyEnv = {}
    BY DEF EmptyEnv
  <2> QED
    BY <2>1, ProgramsAssumption DEF AcceptedIn, EnvOK
<1>11. Begins(D, p, p.main, EmptyEnv)
  BY DEF Rules
<1> QED
  BY <1>6, <1>7, <1>8, <1>9, <1>10, <1>11 DEF Right

-----------------------------------------------------------------------------
(* Annotated expressions.                                                  *)

\* An expression that was built, annotated, keeps its fields.
LEMMA AnnotatedKinds ==
    /\ \A n, s : LET a == Annotated(Num(n), s) IN a.exp = "Num" /\ a.n = n /\ a.ann = s
    /\ \A b, s : LET a == Annotated(Bool(b), s) IN a.exp = "Bool" /\ a.b = b /\ a.ann = s
    /\ \A x, s : LET a == Annotated(Var(x), s) IN a.exp = "Var" /\ a.x = x /\ a.ann = s
    /\ \A op, e, s : LET a == Annotated(Prim1(op, e), s)
                     IN  a.exp = "Prim1" /\ a.op = op /\ a.e = e /\ a.ann = s
    /\ \A op, e1, e2, s : LET a == Annotated(Prim2(op, e1, e2), s)
                          IN  a.exp = "Prim2" /\ a.op = op /\ a.e1 = e1 /\ a.e2 = e2 /\ a.ann = s
    /\ \A f, args, s : LET a == Annotated(Call(f, args), s)
                       IN  a.exp = "Call" /\ a.f = f /\ a.args = args /\ a.ann = s
    /\ \A c, t, e, s : LET a == Annotated(If(c, t, e), s)
                       IN  a.exp = "If" /\ a.cond = c /\ a.thn = t /\ a.els = e /\ a.ann = s
    /\ \A x, b, c, s : LET a == Annotated(LetIn(x, b, c), s)
                       IN  /\ a.exp = "Let" /\ a.bindings = <<Binding(x, b)>> /\ a.body = c
                           /\ a.ann = s
<1>1. \A n, s : LET a == Annotated(Num(n), s) IN a.exp = "Num" /\ a.n = n /\ a.ann = s
  BY DEF Annotated, Num
<1>2. \A b, s : LET a == Annotated(Bool(b), s) IN a.exp = "Bool" /\ a.b = b /\ a.ann = s
  BY DEF Annotated, Bool
<1>3. \A x, s : LET a == Annotated(Var(x), s) IN a.exp = "Var" /\ a.x = x /\ a.ann = s
  BY DEF Annotated, Var
<1>4. \A op, e, s : LET a == Annotated(Prim1(op, e), s)
                    IN  a.exp = "Prim1" /\ a.op = op /\ a.e = e /\ a.ann = s
  BY DEF Annotated, Prim1
<1>5. \A op, e1, e2, s : LET a == Annotated(Prim2(op, e1, e2), s)
                         IN  a.exp = "Prim2" /\ a.op = op /\ a.e1 = e1 /\ a.e2 = e2 /\ a.ann = s
  BY DEF Annotated, Prim2
<1>6. \A f, args, s : LET a == Annotated(Call(f, args), s)
                      IN  a.exp = "Call" /\ a.f = f /\ a.args = args /\ a.ann = s
  BY DEF Annotated, Call
<1>7. \A c, t, e, s : LET a == Annotated(If(c, t, e), s)
                      IN  a.exp = "If" /\ a.cond = c /\ a.thn = t /\ a.els = e /\ a.ann = s
  BY DEF Annotated, If
<1>8. \A x, b, c, s : LET a == Annotated(LetIn(x, b, c), s)
                      IN  /\ a.exp = "Let" /\ a.bindings = <<Binding(x, b)>> /\ a.body = c
                          /\ a.ann = s
  BY DEF Annotated, LetIn, Let
<1> QED
  BY <1>1, <1>2, <1>3, <1>4, <1>5, <1>6, <1>7, <1>8

\* An operation, annotated, is the same operation.
LEMMA AnnotatedOperation ==
    ASSUME NEW e, Sequential(e), e.exp # "Let", e.exp # "If", NEW s
    PROVE  LET a == Annotated(e, s)
           IN  /\ a.exp = e.exp /\ a.ann = s
               /\ Children(a) = Children(e) /\ ImmVars(a) = ImmVars(e)
               /\ \A i \in DOMAIN Children(a) : Immediate(Children(a)[i])
<1> DEFINE a == Annotated(e, s)
<1>1. /\ a.exp = e.exp /\ a.ann = s /\ (e.exp = "Var" => a.x = e.x)
      /\ Children(a) = Children(e) /\ \A i \in DOMAIN Children(a) : Immediate(Children(a)[i])
  <2>1. CASE e.exp = "Num" /\ e = Num(e.n)
    <3>1. a.exp = "Num" /\ a.ann = s
      BY <2>1, AnnotatedKinds
    <3> HIDE DEF a
    <3>2. DOMAIN <<>> = {}
      OBVIOUS
    <3> QED
      BY <2>1, <3>1, <3>2 DEF Children
  <2>2. CASE e.exp = "Bool" /\ e = Bool(e.b)
    <3>1. a.exp = "Bool" /\ a.ann = s
      BY <2>2, AnnotatedKinds
    <3> HIDE DEF a
    <3>2. DOMAIN <<>> = {}
      OBVIOUS
    <3> QED
      BY <2>2, <3>1, <3>2 DEF Children
  <2>3. CASE e.exp = "Var" /\ e = Var(e.x)
    <3>1. a.exp = "Var" /\ a.x = e.x /\ a.ann = s
      BY <2>3, AnnotatedKinds
    <3> HIDE DEF a
    <3>2. DOMAIN <<>> = {}
      OBVIOUS
    <3> QED
      BY <2>3, <3>1, <3>2 DEF Children
  <2>4. CASE e.exp = "Prim1" /\ e = Prim1(e.op, e.e) /\ Immediate(e.e)
    <3>1. a.exp = "Prim1" /\ a.e = e.e /\ a.ann = s
      BY <2>4, AnnotatedKinds
    <3> HIDE DEF a
    <3>2. DOMAIN <<e.e>> = {1} /\ <<e.e>>[1] = e.e
      OBVIOUS
    <3>3. Children(a) = <<e.e>> /\ Children(e) = <<e.e>>
      BY <2>4, <3>1 DEF Children
    <3> QED
      BY <2>4, <3>1, <3>2, <3>3
  <2>5. CASE e.exp = "Prim2" /\ e = Prim2(e.op, e.e1, e.e2) /\ Immediate(e.e1) /\ Immediate(e.e2)
    <3>1. a.exp = "Prim2" /\ a.e1 = e.e1 /\ a.e2 = e.e2 /\ a.ann = s
      BY <2>5, AnnotatedKinds
    <3> HIDE DEF a
    <3>2. DOMAIN <<e.e1, e.e2>> = {1, 2} /\ <<e.e1, e.e2>>[1] = e.e1 /\ <<e.e1, e.e2>>[2] = e.e2
      OBVIOUS
    <3>3. Children(a) = <<e.e1, e.e2>> /\ Children(e) = <<e.e1, e.e2>>
      BY <2>5, <3>1 DEF Children
    <3> QED
      BY <2>5, <3>1, <3>2, <3>3
  <2>6. CASE e.exp = "Call" /\ e = Call(e.f, e.args) /\ \A i \in DOMAIN e.args : Immediate(e.args[i])
    <3>1. a.exp = "Call" /\ a.args = e.args /\ a.ann = s
      BY <2>6, AnnotatedKinds
    <3> HIDE DEF a
    <3>2. Children(a) = e.args /\ Children(e) = e.args
      BY <2>6, <3>1 DEF Children
    <3> QED
      BY <2>6, <3>1, <3>2
  <2> QED
    BY <2>1, <2>2, <2>3, <2>4, <2>5, <2>6 DEF Sequential
<1> HIDE DEF a
<1>2. ImmVars(a) = ImmVars(e)
  <2>1. VarsIn(<<a>>) = VarsIn(<<e>>)
    <3> DEFINE t == <<a>>
               u == <<e>>
    <3>1. DOMAIN t = {1} /\ t[1] = a /\ DOMAIN u = {1} /\ u[1] = e
      OBVIOUS
    <3> HIDE DEF t, u
    <3>2. VarsIn(t) = VarsIn(u)
      BY <1>1, <3>1 DEF VarsIn
    <3> QED
      BY <3>2 DEF t, u
  <2> QED
    BY <1>1, <2>1 DEF ImmVars, Immediate
<1> QED
  BY <1>1, <1>2 DEF a

-----------------------------------------------------------------------------
(* What liveness asks for and what it makes of it, one expression at a time.*)

\* The variable of a let, and what liveness is asked about its body and about its
\* bound expression.
LetParts(w, j, x, in_body, in_bound) ==
    /\ x = j[1].bindings[1].var
    /\ in_body = <<j[1].body, j[2]>>
    /\ in_bound = <<j[1].bindings[1].e, w.before[w.made[in_body]] \ {x}>>

\* What it makes of the let.
LetMade(w, s, x, in_body, in_bound) ==
    /\ s.exp = "Let" /\ Len(s.bindings) = 1 /\ DOMAIN s.bindings = {1}
    /\ s.bindings[1].var = x /\ s.bindings[1].e = w.made[in_bound]
    /\ s.body = w.made[in_body] /\ s.ann = w.before[w.made[in_body]] \cup {x}
    /\ w.before[s] = w.before[w.made[in_bound]]

\* Two parts of what liveness is asked about, and the variables bound in them.
TwoAsked(w, j, one, other, own) ==
    /\ one \in w.asked /\ other \in w.asked
    /\ w.rank[one[1]] < w.rank[j[1]] /\ w.rank[other[1]] < w.rank[j[1]]
    /\ w.binders[j[1]] = own \cup w.binders[one[1]] \cup w.binders[other[1]]

\* The one binding of a let that liveness made.
LEMMA OneBinding ==
    ASSUME NEW x, NEW e
    PROVE  LET bs == <<Binding(x, e)>>
           IN  Len(bs) = 1 /\ DOMAIN bs = {1} /\ bs[1].var = x /\ bs[1].e = e
<1> DEFINE b == Binding(x, e)
<1>1. b.var = x /\ b.e = e
  BY DEF Binding
<1> HIDE DEF b
<1>2. Len(<<b>>) = 1 /\ DOMAIN <<b>> = {1} /\ <<b>>[1] = b
  OBVIOUS
<1> QED
  BY <1>1, <1>2 DEF b

\* What liveness makes of a let, and what it asks for.
LEMMA LetAsked ==
    ASSUME NEW w, NEW e0, NEW params, Surveyed(w, e0, params), NEW j \in w.asked,
           j[1].exp = "Let",
           NEW x, NEW in_body, NEW in_bound, LetParts(w, j, x, in_body, in_bound)
    PROVE  TwoAsked(w, j, in_body, in_bound, {x}) /\ LetMade(w, w.made[j], x, in_body, in_bound)
<1> DEFINE e == j[1]
           bound == e.bindings[1].e
           live == w.before[w.made[in_body]] \cup {x}
           s == w.made[j]
<1>1. /\ \A y \in SeqParts(e) : w.rank[y] < w.rank[e]
      /\ w.binders[e] = BindersFrom(w, e)
      /\ s = LivenessFrom(w, e, params, j[2])
      /\ w.before[s] = ChildAnnFrom(w, s)
      /\ LivenessAsks(w, e, j[2]) \subseteq w.asked
  BY DEF Surveyed
<1>2. SeqParts(e) = {bound, e.body}
  BY DEF SeqParts
<1>3. x = e.bindings[1].var /\ in_body = <<e.body, j[2]>> /\ in_bound = <<bound, AfterBound(x, live)>>
  <2>1. AfterBound(x, live) = w.before[w.made[in_body]] \ {x}
    BY DEF AfterBound
  <2> QED
    BY <2>1 DEF LetParts
<1>4. LivenessAsks(w, e, j[2]) = {in_body, in_bound}
  BY <1>3 DEF LivenessAsks
<1>5. w.binders[e] = {x} \cup w.binders[bound] \cup w.binders[e.body]
  <2>1. w.binders[e] = {x} \cup UNION {w.binders[y] : y \in SeqParts(e)}
    BY <1>1, <1>3 DEF BindersFrom
  <2>2. \A f, a, b : UNION {f[y] : y \in {a, b}} = f[a] \cup f[b]
    OBVIOUS
  <2> QED
    BY <1>2, <2>1, <2>2
<1>6. s = Annotated(LetIn(x, w.made[in_bound], w.made[in_body]), live)
  BY <1>1, <1>3 DEF LivenessFrom, LivenessArm
<1> HIDE DEF live, s
<1>7. /\ s.exp = "Let" /\ s.bindings = <<Binding(x, w.made[in_bound])>>
      /\ s.body = w.made[in_body] /\ s.ann = live
  BY <1>6, AnnotatedKinds
<1>8. /\ Len(s.bindings) = 1 /\ DOMAIN s.bindings = {1}
      /\ s.bindings[1].var = x /\ s.bindings[1].e = w.made[in_bound]
  BY <1>7, OneBinding
<1>9. w.before[s] = w.before[w.made[in_bound]]
  BY <1>1, <1>7, <1>8 DEF ChildAnnFrom, ChildAnnArm
<1>10. w.rank[bound] < w.rank[e] /\ w.rank[e.body] < w.rank[e]
  BY <1>1, <1>2
<1>11. in_body[1] = e.body /\ in_bound[1] = bound
  BY <1>3
<1>12. TwoAsked(w, j, in_body, in_bound, {x})
  BY <1>1, <1>4, <1>5, <1>10, <1>11 DEF TwoAsked
<1>13. LetMade(w, s, x, in_body, in_bound)
  BY <1>7, <1>8, <1>9 DEF LetMade, live
<1> QED
  BY <1>12, <1>13 DEF s

\* What liveness is asked about the branches of an if, and what it makes of the if.
IfParts(j, in_thn, in_els) == in_thn = <<j[1].thn, j[2]>> /\ in_els = <<j[1].els, j[2]>>

IfMade(w, s, in_thn, in_els, params) ==
    /\ s.exp = "If" /\ Immediate(s.cond)
    /\ s.thn = w.made[in_thn] /\ s.els = w.made[in_els]
    /\ w.before[s] =
          (w.before[w.made[in_thn]] \cup w.before[w.made[in_els]] \cup VarsIn(<<s.cond>>)) \ params

\* What liveness makes of an if, and what it asks for.
LEMMA IfAsked ==
    ASSUME NEW w, NEW e0, NEW params, Surveyed(w, e0, params), NEW j \in w.asked,
           j[1].exp = "If",
           NEW in_thn, NEW in_els, IfParts(j, in_thn, in_els)
    PROVE  TwoAsked(w, j, in_thn, in_els, {}) /\ IfMade(w, w.made[j], in_thn, in_els, params)
<1> DEFINE e == j[1]
           live == IfLive(e.cond, w.before[w.made[in_thn]], w.before[w.made[in_els]], params)
           s == w.made[j]
<1>1. /\ \A y \in SeqParts(e) : w.rank[y] < w.rank[e]
      /\ w.binders[e] = BindersFrom(w, e)
      /\ s = LivenessFrom(w, e, params, j[2])
      /\ w.before[s] = ChildAnnFrom(w, s)
      /\ LivenessAsks(w, e, j[2]) \subseteq w.asked
      /\ Sequential(e)
  BY DEF Surveyed
<1>2. SeqParts(e) = {e.thn, e.els}
  BY DEF SeqParts
<1>3. in_thn = <<e.thn, j[2]>> /\ in_els = <<e.els, j[2]>>
  BY DEF IfParts
<1>4. in_thn \in w.asked /\ in_els \in w.asked
  BY <1>1, <1>2, <1>3 DEF LivenessAsks
<1>5. w.binders[e] = w.binders[e.thn] \cup w.binders[e.els]
  BY <1>1, <1>2 DEF BindersFrom
<1>6. s = Annotated(If(e.cond, w.made[in_thn], w.made[in_els]), live)
  BY <1>1, <1>3 DEF LivenessFrom, LivenessArm
<1> HIDE DEF live, s
<1>7. /\ s.exp = "If" /\ s.cond = e.cond /\ s.ann = live
      /\ s.thn = w.made[in_thn] /\ s.els = w.made[in_els]
  BY <1>6, AnnotatedKinds
<1>8. w.before[s] = live
  BY <1>1, <1>7 DEF ChildAnnFrom, ChildAnnArm
<1>9. live = (w.before[w.made[in_thn]] \cup w.before[w.made[in_els]] \cup VarsIn(<<s.cond>>)) \ params
  BY <1>7 DEF IfLive, live
<1>10. Immediate(s.cond)
  BY <1>1, <1>7 DEF Sequential
<1>11. w.rank[e.thn] < w.rank[e] /\ w.rank[e.els] < w.rank[e]
  BY <1>1, <1>2
<1>12. in_thn[1] = e.thn /\ in_els[1] = e.els
  BY <1>3
<1>13. TwoAsked(w, j, in_thn, in_els, {})
  BY <1>4, <1>5, <1>11, <1>12 DEF TwoAsked
<1>14. IfMade(w, s, in_thn, in_els, params)
  BY <1>7, <1>8, <1>9, <1>10 DEF IfMade
<1> QED
  BY <1>13, <1>14 DEF s

\* An operation that liveness annotated.
OperationMade(w, s, after, params) ==
    /\ s.exp # "Let" /\ s.exp # "If"
    /\ \A i \in DOMAIN Children(s) : Immediate(Children(s)[i])
    /\ w.before[s] = (after \cup ImmVars(s)) \ params

\* What liveness makes of an operation.
LEMMA OperationAsked ==
    ASSUME NEW w, NEW e0, NEW params, Surveyed(w, e0, params), NEW j \in w.asked,
           j[1].exp # "Let", j[1].exp # "If"
    PROVE  OperationMade(w, w.made[j], j[2], params) /\ w.binders[j[1]] = {}
<1> DEFINE e == j[1]
           s == w.made[j]
<1>1. /\ w.binders[e] = BindersFrom(w, e)
      /\ s = LivenessFrom(w, e, params, j[2])
      /\ w.before[s] = ChildAnnFrom(w, s)
      /\ Sequential(e)
  BY DEF Surveyed
<1>2. SeqParts(e) = {}
  BY DEF SeqParts
<1>3. w.binders[e] = {}
  BY <1>1, <1>2 DEF BindersFrom
<1>4. s = Annotated(e, OperationLive(e, params, j[2]))
  BY <1>1 DEF LivenessFrom, LivenessArm
<1> HIDE DEF s
<1>5. /\ s.exp = e.exp /\ s.ann = OperationLive(e, params, j[2])
      /\ ImmVars(s) = ImmVars(e)
      /\ \A i \in DOMAIN Children(s) : Immediate(Children(s)[i])
  BY <1>1, <1>4, AnnotatedOperation
<1>6. w.before[s] = s.ann
  BY <1>1, <1>5 DEF ChildAnnFrom, ChildAnnArm
<1>7. OperationMade(w, s, j[2], params)
  BY <1>5, <1>6 DEF OperationMade, OperationLive
<1> QED
  BY <1>3, <1>7 DEF s

-----------------------------------------------------------------------------
(* What can be read where liveness goes.                                   *)

\* Liveness is asked about an expression in whose place exactly S and the parameters
\* can be read, and nothing that it binds hides one of them.
InScope(w, params, fs, j, S) ==
    /\ j \in w.asked
    /\ <<w.made[j], S \cup params, fs>> \in Accepted
    /\ j[2] \subseteq S
    /\ S \cap params = {}
    /\ w.binders[j[1]] \cap (S \cup params) = {}

\* What was accepted has its shape.
LEMMA ShapeWithin ==
    ASSUME NEW e, NEW scope, NEW fs, <<e, scope, fs>> \in Accepted
    PROVE  AcceptedShape(e, scope, fs)
<1> DEFINE j == <<e, scope, fs>>
<1>1. AcceptedShape(j[1], j[2], j[3])
  BY AcceptedAssumption
<1>2. j[1] = e /\ j[2] = scope /\ j[3] = fs
  OBVIOUS
<1> HIDE DEF j
<1> QED
  BY <1>1, <1>2

\* The bound expression of a let is in the scope of the let, and its body in one more
\* variable.
LEMMA LetInScope ==
    ASSUME NEW w, NEW e0, NEW params, Surveyed(w, e0, params), Unshadowed(w, e0, params),
           NEW fs, NEW j, NEW S, InScope(w, params, fs, j, S), j[1].exp = "Let",
           NEW x, NEW in_body, NEW in_bound, LetParts(w, j, x, in_body, in_bound)
    PROVE  /\ x \notin S \cup params
           /\ InScope(w, params, fs, in_body, S \cup {x})
           /\ w.before[w.made[in_body]] \subseteq S \cup {x} =>
                 InScope(w, params, fs, in_bound, S)
           /\ <<w.made[in_bound], S \cup params, fs>> \in Accepted
<1> DEFINE s == w.made[j]
<1>1. /\ <<s, S \cup params, fs>> \in Accepted
      /\ j[2] \subseteq S /\ S \cap params = {}
      /\ w.binders[j[1]] \cap (S \cup params) = {}
      /\ j \in w.asked
  BY DEF InScope
<1>2. TwoAsked(w, j, in_body, in_bound, {x}) /\ LetMade(w, s, x, in_body, in_bound)
  BY <1>1, LetAsked
<1> HIDE DEF s
<1>3. /\ in_body \in w.asked /\ in_bound \in w.asked
      /\ w.binders[j[1]] = {x} \cup w.binders[in_bound[1]] \cup w.binders[in_body[1]]
  BY <1>2 DEF TwoAsked
<1>4. LetAccepted(s.bindings, s.body, S \cup params, fs)
  BY <1>1, <1>2, ShapeWithin DEF AcceptedShape, LetMade
<1>5. <<w.made[in_bound], S \cup params, fs>> \in Accepted
  <2>1. 1 \in DOMAIN s.bindings /\ s.bindings[1].e = w.made[in_bound]
    BY <1>2 DEF LetMade
  <2>2. ScopeAfter(s.bindings, S \cup params, 1 - 1) = S \cup params
    BY DEF ScopeAfter
  <2> QED
    BY <1>4, <2>1, <2>2 DEF LetAccepted
<1>6. <<w.made[in_body], (S \cup {x}) \cup params, fs>> \in Accepted
  <2>1. Len(s.bindings) = 1 /\ s.bindings[1].var = x /\ s.body = w.made[in_body]
    BY <1>2 DEF LetMade
  <2>2. ScopeAfter(s.bindings, S \cup params, 1) = (S \cup {x}) \cup params
    BY <2>1 DEF ScopeAfter
  <2> QED
    BY <1>4, <2>1, <2>2 DEF LetAccepted
<1>7. x \notin S \cup params
  BY <1>1, <1>3
<1>8. /\ j[1].bindings[1].var = x /\ j[1].body = in_body[1]
      /\ in_body[2] = j[2] /\ in_bound[2] = w.before[w.made[in_body]] \ {x}
  BY DEF LetParts
<1>9. x \notin w.binders[in_body[1]]
  BY <1>1, <1>8 DEF Unshadowed
<1>10. InScope(w, params, fs, in_body, S \cup {x})
  <2>1. in_body[2] \subseteq S \cup {x}
    BY <1>1, <1>8
  <2>2. (S \cup {x}) \cap params = {}
    BY <1>1, <1>7
  <2>3. w.binders[in_body[1]] \cap ((S \cup {x}) \cup params) = {}
    BY <1>1, <1>3, <1>9
  <2> QED
    BY <1>3, <1>6, <2>1, <2>2, <2>3 DEF InScope
<1>11. ASSUME w.before[w.made[in_body]] \subseteq S \cup {x}
       PROVE  InScope(w, params, fs, in_bound, S)
  <2>1. in_bound[2] \subseteq S
    BY <1>8, <1>11
  <2>2. w.binders[in_bound[1]] \cap (S \cup params) = {}
    BY <1>1, <1>3
  <2> QED
    BY <1>1, <1>3, <1>5, <2>1, <2>2 DEF InScope
<1> QED
  BY <1>5, <1>7, <1>10, <1>11

\* Both branches of an if are in its scope, and so is its condition.
LEMMA IfInScope ==
    ASSUME NEW w, NEW e0, NEW params, Surveyed(w, e0, params),
           NEW fs, NEW j, NEW S, InScope(w, params, fs, j, S), j[1].exp = "If",
           NEW in_thn, NEW in_els, IfParts(j, in_thn, in_els)
    PROVE  /\ InScope(w, params, fs, in_thn, S) /\ InScope(w, params, fs, in_els, S)
           /\ VarsIn(<<w.made[j].cond>>) \subseteq S \cup params
<1> DEFINE s == w.made[j]
<1>1. /\ <<s, S \cup params, fs>> \in Accepted
      /\ j[2] \subseteq S /\ S \cap params = {}
      /\ w.binders[j[1]] \cap (S \cup params) = {}
      /\ j \in w.asked
  BY DEF InScope
<1>2. TwoAsked(w, j, in_thn, in_els, {}) /\ IfMade(w, s, in_thn, in_els, params)
  BY <1>1, IfAsked
<1> HIDE DEF s
<1>3. /\ <<s.cond, S \cup params, fs>> \in Accepted
      /\ <<w.made[in_thn], S \cup params, fs>> \in Accepted
      /\ <<w.made[in_els], S \cup params, fs>> \in Accepted
  BY <1>1, <1>2, ShapeWithin DEF AcceptedShape, IfMade
<1>4. Immediate(s.cond) /\ (s.cond.exp = "Var" => s.cond.x \in S \cup params)
  BY <1>2, <1>3, ShapeWithin DEF AcceptedShape, IfMade
<1>5. VarsIn(<<s.cond>>) \subseteq S \cup params
  <2> DEFINE t == <<s.cond>>
  <2>1. DOMAIN t = {1} /\ t[1] = s.cond
    OBVIOUS
  <2> HIDE DEF t
  <2>2. VarsIn(t) \subseteq S \cup params
    BY <1>4, <2>1 DEF VarsIn
  <2> QED
    BY <2>2 DEF t
<1>6. in_thn[2] = j[2] /\ in_els[2] = j[2]
  BY DEF IfParts
<1>7. InScope(w, params, fs, in_thn, S) /\ InScope(w, params, fs, in_els, S)
  BY <1>1, <1>2, <1>3, <1>6 DEF InScope, TwoAsked
<1> QED
  BY <1>5, <1>7 DEF s

\* An operation reads what is in scope.
LEMMA OperationInScope ==
    ASSUME NEW w, NEW e0, NEW params, Surveyed(w, e0, params),
           NEW fs, NEW j, NEW S, InScope(w, params, fs, j, S), j[1].exp # "Let", j[1].exp # "If"
    PROVE  ImmVars(w.made[j]) \subseteq S \cup params
<1> DEFINE s == w.made[j]
<1>1. /\ s.exp # "Let" /\ s.exp # "If"
      /\ \A i \in DOMAIN Children(s) : Immediate(Children(s)[i])
  <2>1. j \in w.asked
    BY DEF InScope
  <2> QED
    BY <2>1, OperationAsked DEF OperationMade
<1>2. <<s, S \cup params, fs>> \in Accepted
  BY DEF InScope
<1> HIDE DEF s
<1>3. AcceptedShape(s, S \cup params, fs)
  BY <1>2, ShapeWithin
<1>4. CASE Immediate(s)
  <2> DEFINE t == <<s>>
  <2>1. DOMAIN t = {1} /\ t[1] = s
    OBVIOUS
  <2>2. ImmVars(s) = VarsIn(t)
    BY <1>4 DEF ImmVars
  <2>3. s.exp = "Var" => s.x \in S \cup params
    BY <1>3 DEF AcceptedShape
  <2> HIDE DEF t
  <2> QED
    BY <2>1, <2>2, <2>3 DEF VarsIn, s
<1>5. CASE ~Immediate(s)
  <2>1. \A i \in DOMAIN Children(s) : <<Children(s)[i], S \cup params, fs>> \in Accepted
    <3>1. CASE s.exp = "Prim1"
      <4>1. Children(s) = <<s.e>> /\ DOMAIN <<s.e>> = {1} /\ <<s.e>>[1] = s.e
        BY <3>1 DEF Children
      <4>2. <<s.e, S \cup params, fs>> \in Accepted
        BY <1>3, <3>1 DEF AcceptedShape
      <4> QED
        BY <4>1, <4>2
    <3>2. CASE s.exp = "Prim2"
      <4>1. /\ Children(s) = <<s.e1, s.e2>> /\ DOMAIN <<s.e1, s.e2>> = {1, 2}
            /\ <<s.e1, s.e2>>[1] = s.e1 /\ <<s.e1, s.e2>>[2] = s.e2
        BY <3>2 DEF Children
      <4>2. <<s.e1, S \cup params, fs>> \in Accepted /\ <<s.e2, S \cup params, fs>> \in Accepted
        BY <1>3, <3>2 DEF AcceptedShape
      <4> QED
        BY <4>1, <4>2
    <3>3. CASE s.exp = "Call"
      <4>1. Children(s) = s.args
        BY <3>3 DEF Children
      <4>2. \A i \in DOMAIN s.args : <<s.args[i], S \cup params, fs>> \in Accepted
        BY <1>3, <3>3 DEF AcceptedShape
      <4> QED
        BY <4>1, <4>2
    <3> QED
      BY <1>1, <1>3, <1>5, <3>1, <3>2, <3>3, ImmediateKinds DEF AcceptedShape
  <2>2. ASSUME NEW i \in DOMAIN Children(s), Children(s)[i].exp = "Var"
        PROVE  Children(s)[i].x \in S \cup params
    BY <2>1, <2>2, ShapeWithin DEF AcceptedShape
  <2>3. ImmVars(s) = VarsIn(Children(s))
    BY <1>5 DEF ImmVars
  <2> QED
    BY <2>2, <2>3 DEF VarsIn, s
<1> QED
  BY <1>4, <1>5

\* Nothing is live before an expression but what can be read there and is no parameter.
LEMMA LiveInScope ==
    ASSUME NEW w, NEW e0, NEW params, Surveyed(w, e0, params), Unshadowed(w, e0, params),
           NEW fs, NEW j, NEW S, InScope(w, params, fs, j, S)
    PROVE  w.before[w.made[j]] \subseteq S
<1> DEFINE T == {k[1] : k \in w.asked}
           Holds(k) == \A S2 : InScope(w, params, fs, k, S2) => w.before[w.made[k]] \subseteq S2
           P == {e \in T : \A k \in w.asked : k[1] = e => Holds(k)}
<1>1. \A e \in T : w.rank[e] \in Nat
  BY DEF Surveyed
<1>2. ASSUME NEW e \in T, \A y \in T : w.rank[y] < w.rank[e] => y \in P,
             NEW k \in w.asked, k[1] = e, NEW S2, InScope(w, params, fs, k, S2)
      PROVE  w.before[w.made[k]] \subseteq S2
  <2>1. CASE e.exp = "Let"
    <3>1. PICK x, in_body, in_bound : LetParts(w, k, x, in_body, in_bound)
      BY DEF LetParts
    <3>2. TwoAsked(w, k, in_body, in_bound, {x}) /\ LetMade(w, w.made[k], x, in_body, in_bound)
      BY <1>2, <2>1, <3>1, LetAsked
    <3>3. /\ InScope(w, params, fs, in_body, S2 \cup {x})
          /\ w.before[w.made[in_body]] \subseteq S2 \cup {x} =>
                 InScope(w, params, fs, in_bound, S2)
      <4>1. k[1].exp = "Let" /\ InScope(w, params, fs, k, S2)
        BY <1>2, <2>1
      <4> QED
        BY <3>1, <4>1, LetInScope, ZenonT(60)
    <3>4. Holds(in_body) /\ Holds(in_bound)
      BY <1>2, <3>2 DEF TwoAsked
    <3> QED
      BY <3>2, <3>3, <3>4 DEF LetMade
  <2>2. CASE e.exp = "If"
    <3>1. PICK in_thn, in_els : IfParts(k, in_thn, in_els)
      BY DEF IfParts
    <3>2. TwoAsked(w, k, in_thn, in_els, {}) /\ IfMade(w, w.made[k], in_thn, in_els, params)
      BY <1>2, <2>2, <3>1, IfAsked
    <3>3. /\ InScope(w, params, fs, in_thn, S2) /\ InScope(w, params, fs, in_els, S2)
          /\ VarsIn(<<w.made[k].cond>>) \subseteq S2 \cup params
      BY <1>2, <2>2, <3>1, IfInScope
    <3>4. Holds(in_thn) /\ Holds(in_els)
      BY <1>2, <3>2 DEF TwoAsked
    <3>5. w.before[w.made[in_thn]] \subseteq S2 /\ w.before[w.made[in_els]] \subseteq S2
      BY <3>3, <3>4
    <3> QED
      BY <3>2, <3>3, <3>5 DEF IfMade
  <2>3. CASE e.exp # "Let" /\ e.exp # "If"
    <3>1. w.before[w.made[k]] = (k[2] \cup ImmVars(w.made[k])) \ params
      BY <1>2, <2>3, OperationAsked DEF OperationMade
    <3>2. ImmVars(w.made[k]) \subseteq S2 \cup params /\ k[2] \subseteq S2
      BY <1>2, <2>3, OperationInScope DEF InScope
    <3> QED
      BY <3>1, <3>2
  <2> QED
    BY <2>1, <2>2, <2>3
<1>3. \A e \in T : (\A y \in T : w.rank[y] < w.rank[e] => y \in P) => e \in P
  BY <1>2
<1>4. T \subseteq P
  <2> HIDE DEF T, P
  <2> QED
    BY <1>1, <1>3, RankInduction
<1> QED
  BY <1>4 DEF InScope

-----------------------------------------------------------------------------
(* What conflicts finds, one expression at a time.                         *)

\* Classes of what can be read, no variable in two of them.
KnownEqual(equivs, scope) ==
    /\ UNION equivs \subseteq scope
    /\ \A c, d \in equivs : c \cap d # {} => c = d

\* What is found in the whole is found in the part, and more.
Within(part, whole) ==
    part.verts \subseteq whole.verts /\ part.edges \subseteq whole.edges

\* A bound variable can be read, and is in one class at most: what conflicts asserts.
ReadIn(bound, scope) == bound.exp = "Var" => bound.x \in scope
InOneClass(bound, equivs) == bound.exp = "Var" => Cardinality(ClassesOf(bound.x, equivs)) <= 1

\* The classes after a new variable is bound.
LEMMA JoinedKnown ==
    ASSUME NEW equivs, NEW scope, KnownEqual(equivs, scope), NEW x, x \notin scope,
           NEW bound, ReadIn(bound, scope)
    PROVE  KnownEqual(Joined(x, bound, equivs), scope \cup {x}) /\ InOneClass(bound, equivs)
<1> DEFINE mine == ClassesOf(bound.x, equivs)
<1>1. CASE bound.exp # "Var"
  <2>1. Joined(x, bound, equivs) = equivs
    BY <1>1 DEF Joined
  <2> QED
    BY <1>1, <2>1 DEF KnownEqual, InOneClass
<1>2. CASE bound.exp = "Var" /\ mine = {}
  <2>1. Joined(x, bound, equivs) = equivs \cup {{x, bound.x}}
    BY <1>2 DEF Joined
  <2>2. \A c \in equivs : c \cap {x, bound.x} = {}
    BY <1>2 DEF KnownEqual, ClassesOf
  <2>3. KnownEqual(equivs \cup {{x, bound.x}}, scope \cup {x})
    BY <1>2, <2>2 DEF KnownEqual, ReadIn
  <2>4. Cardinality(mine) <= 1
    BY <1>2, FS_EmptySet
  <2> QED
    BY <2>1, <2>3, <2>4 DEF InOneClass
<1>3. CASE bound.exp = "Var" /\ mine # {}
  <2>1. PICK c \in mine : TRUE
    BY <1>3
  <2>2. c \in equivs /\ bound.x \in c
    BY <2>1 DEF ClassesOf
  <2>3. mine = {c}
    BY <2>2 DEF KnownEqual, ClassesOf
  <2>4. Joined(x, bound, equivs) = (equivs \ mine) \cup {d \cup {x} : d \in mine}
    BY <1>3 DEF Joined
  <2> HIDE DEF mine
  <2>5. Joined(x, bound, equivs) = (equivs \ {c}) \cup {c \cup {x}}
    BY <2>3, <2>4
  <2>6. \A d \in equivs \ {c} : d \cap (c \cup {x}) = {}
    BY <2>2 DEF KnownEqual
  <2>7. KnownEqual((equivs \ {c}) \cup {c \cup {x}}, scope \cup {x})
    <3>1. UNION ((equivs \ {c}) \cup {c \cup {x}}) \subseteq scope \cup {x}
      BY <2>2 DEF KnownEqual
    <3>2. ASSUME NEW d1 \in (equivs \ {c}) \cup {c \cup {x}},
                 NEW d2 \in (equivs \ {c}) \cup {c \cup {x}}, d1 \cap d2 # {}
          PROVE  d1 = d2
      <4>1. CASE d1 \in equivs \ {c} /\ d2 \in equivs \ {c}
        BY <3>2, <4>1 DEF KnownEqual
      <4>2. CASE d1 \in equivs \ {c} /\ d2 = c \cup {x}
        BY <2>6, <3>2, <4>2
      <4>3. CASE d2 \in equivs \ {c} /\ d1 = c \cup {x}
        BY <2>6, <3>2, <4>3
      <4> QED
        BY <4>1, <4>2, <4>3
    <3> QED
      BY <3>1, <3>2 DEF KnownEqual
  <2>8. Cardinality({c}) = 1
    BY FS_Singleton
  <2>9. Cardinality(mine) <= 1
    BY <2>3, <2>8
  <2> QED
    BY <2>5, <2>7, <2>9 DEF mine, InOneClass
<1> QED
  BY <1>1, <1>2, <1>3

\* What conflicts finds at a let, with what it finds in the parts.
LetFound(w, s, equivs, x, bound, equivs2) ==
    LET all == w.found[<<s, equivs>>]
        in_bound == w.found[<<bound, equivs2>>]
        in_body == w.found[<<s.body, equivs2>>]
        edges == Pairs(s.ann) \ UNION {Pairs(c) : c \in equivs2}
    IN  /\ <<bound, equivs2>> \in w.visited /\ <<s.body, equivs2>> \in w.visited
        /\ all.verts = {x} \cup (UNION edges) \cup in_bound.verts \cup in_body.verts
        /\ all.edges = edges \cup in_bound.edges \cup in_body.edges
        /\ InOneClass(bound, equivs) /\ in_bound.asserted /\ in_body.asserted => all.asserted

\* The fields of what was merged.
LEMMA MergedFields ==
    ASSUME NEW a, NEW b
    PROVE  /\ Merged(a, b).verts = a.verts \cup b.verts
           /\ Merged(a, b).edges = a.edges \cup b.edges
           /\ a.asserted /\ b.asserted => Merged(a, b).asserted
BY DEF Merged, Found

\* What conflicts finds at a let, and where it goes.
LEMMA LetVisited ==
    ASSUME NEW w, NEW e0, NEW params, Surveyed(w, e0, params),
           NEW s, NEW equivs, <<s, equivs>> \in w.visited, s.exp = "Let",
           NEW x, x = s.bindings[1].var, NEW bound, bound = s.bindings[1].e,
           NEW equivs2, equivs2 = Joined(x, bound, equivs)
    PROVE  LetFound(w, s, equivs, x, bound, equivs2)
<1> DEFINE k == <<s, equivs>>
           all == w.found[k]
           in_bound == w.found[<<bound, equivs2>>]
           in_body == w.found[<<s.body, equivs2>>]
           edges == Pairs(s.ann) \ UNION {Pairs(c) : c \in equivs2}
           here == LetConflicts(x, bound, s.ann, equivs)
           parts == Merged(in_bound, in_body)
<1>1. k[1] = s /\ k[2] = equivs
  OBVIOUS
<1>2. all = ConflictsFrom(w, s, equivs) /\ ConflictsVisits(s, equivs) \subseteq w.visited
  BY <1>1 DEF Surveyed
<1>3. SeqParts(s) = {bound, s.body}
  BY DEF SeqParts
<1>4. <<bound, equivs2>> \in w.visited /\ <<s.body, equivs2>> \in w.visited
  BY <1>2, <1>3 DEF ConflictsVisits
<1>5. all = Merged(here, parts)
  BY <1>2 DEF ConflictsFrom, ConflictsArm
<1>6. /\ here.verts = {x} \cup UNION edges /\ here.edges = edges
      /\ InOneClass(bound, equivs) => here.asserted
  BY DEF LetConflicts, Found, InOneClass
<1> HIDE DEF all, here, parts, edges, in_bound, in_body
<1>7. /\ all.verts = here.verts \cup parts.verts /\ all.edges = here.edges \cup parts.edges
      /\ here.asserted /\ parts.asserted => all.asserted
  BY <1>5, MergedFields
<1>8. /\ parts.verts = in_bound.verts \cup in_body.verts
      /\ parts.edges = in_bound.edges \cup in_body.edges
      /\ in_bound.asserted /\ in_body.asserted => parts.asserted
  BY MergedFields DEF parts
<1>9. all.verts = {x} \cup (UNION edges) \cup in_bound.verts \cup in_body.verts
  BY <1>6, <1>7, <1>8
<1>10. all.edges = edges \cup in_bound.edges \cup in_body.edges
  BY <1>6, <1>7, <1>8
<1>11. InOneClass(bound, equivs) /\ in_bound.asserted /\ in_body.asserted => all.asserted
  BY <1>6, <1>7, <1>8
<1> QED
  BY <1>4, <1>9, <1>10, <1>11 DEF LetFound, all, in_bound, in_body, edges

\* What it finds at an if.
IfFound(w, s, equivs) ==
    LET all == w.found[<<s, equivs>>]
        in_thn == w.found[<<s.thn, equivs>>]
        in_els == w.found[<<s.els, equivs>>]
    IN  /\ <<s.thn, equivs>> \in w.visited /\ <<s.els, equivs>> \in w.visited
        /\ all.verts = in_thn.verts \cup in_els.verts
        /\ all.edges = in_thn.edges \cup in_els.edges
        /\ in_thn.asserted /\ in_els.asserted => all.asserted

\* The same at an if.
LEMMA IfVisited ==
    ASSUME NEW w, NEW e0, NEW params, Surveyed(w, e0, params),
           NEW s, NEW equivs, <<s, equivs>> \in w.visited, s.exp = "If"
    PROVE  IfFound(w, s, equivs)
<1> DEFINE k == <<s, equivs>>
           all == w.found[k]
           in_thn == w.found[<<s.thn, equivs>>]
           in_els == w.found[<<s.els, equivs>>]
<1>1. k[1] = s /\ k[2] = equivs
  OBVIOUS
<1>2. all = ConflictsFrom(w, s, equivs) /\ ConflictsVisits(s, equivs) \subseteq w.visited
  BY <1>1 DEF Surveyed
<1>3. SeqParts(s) = {s.thn, s.els}
  BY DEF SeqParts
<1>4. <<s.thn, equivs>> \in w.visited /\ <<s.els, equivs>> \in w.visited
  BY <1>2, <1>3 DEF ConflictsVisits
<1>5. all = Merged(in_thn, in_els)
  BY <1>2 DEF ConflictsFrom, ConflictsArm
<1> HIDE DEF all, in_thn, in_els
<1>6. /\ all.verts = in_thn.verts \cup in_els.verts
      /\ all.edges = in_thn.edges \cup in_els.edges
      /\ in_thn.asserted /\ in_els.asserted => all.asserted
  BY <1>5, MergedFields
<1> QED
  BY <1>4, <1>6 DEF IfFound, all, in_thn, in_els

\* At an operation it finds nothing.
LEMMA OperationVisited ==
    ASSUME NEW w, NEW e0, NEW params, Surveyed(w, e0, params),
           NEW s, NEW equivs, <<s, equivs>> \in w.visited, s.exp # "Let", s.exp # "If"
    PROVE  LET all == w.found[<<s, equivs>>]
           IN  all.verts = {} /\ all.edges = {} /\ all.asserted
<1> DEFINE k == <<s, equivs>>
           all == w.found[k]
<1>1. k[1] = s /\ k[2] = equivs
  OBVIOUS
<1>2. all = ConflictsFrom(w, s, equivs)
  BY <1>1 DEF Surveyed
<1>3. all = Found({}, {}, TRUE)
  BY <1>2 DEF ConflictsFrom, ConflictsArm
<1> QED
  BY <1>3 DEF Found

-----------------------------------------------------------------------------
(* And in the whole.                                                       *)

\* Every variable bound in an expression becomes a vertex, nothing becomes one but
\* these and what can be read, and no assertion fails.
FoundRight(w, j, equivs, S) ==
    LET found == w.found[<<w.made[j], equivs>>]
    IN  /\ found.verts \subseteq S \cup w.binders[j[1]]
        /\ w.binders[j[1]] \subseteq found.verts
        /\ found.asserted

\* What liveness makes a variable of was no let and no if.
LEMMA OnlyOperations ==
    ASSUME NEW w, NEW e0, NEW params, Surveyed(w, e0, params), NEW j \in w.asked,
           w.made[j].exp # "Let", w.made[j].exp # "If"
    PROVE  j[1].exp # "Let" /\ j[1].exp # "If"
<1>1. ASSUME j[1].exp = "Let" PROVE FALSE
  <2>1. PICK x, in_body, in_bound : LetParts(w, j, x, in_body, in_bound)
    BY DEF LetParts
  <2>2. LetMade(w, w.made[j], x, in_body, in_bound)
    BY <1>1, <2>1, LetAsked
  <2> QED
    BY <2>2 DEF LetMade
<1>2. ASSUME j[1].exp = "If" PROVE FALSE
  <2>1. PICK in_thn, in_els : IfParts(j, in_thn, in_els)
    BY DEF IfParts
  <2>2. IfMade(w, w.made[j], in_thn, in_els, params)
    BY <1>2, <2>1, IfAsked
  <2> QED
    BY <2>2 DEF IfMade
<1> QED
  BY <1>1, <1>2

\* The variable that a let copies can be read there.
LEMMA BoundReads ==
    ASSUME NEW w, NEW e0, NEW params, Surveyed(w, e0, params), Unshadowed(w, e0, params),
           NEW fs, NEW j, NEW S, InScope(w, params, fs, j, S), j[1].exp = "Let",
           NEW x, NEW in_body, NEW in_bound, LetParts(w, j, x, in_body, in_bound)
    PROVE  ReadIn(w.made[in_bound], S \cup params)
<1>1. <<w.made[in_bound], S \cup params, fs>> \in Accepted
  BY LetInScope
<1> QED
  BY <1>1, ShapeWithin DEF AcceptedShape, ReadIn

\* The classes on the way into the body of a let are of what can be read there.
LEMMA ClassesInScope ==
    ASSUME NEW scope, NEW x, NEW bound, ReadIn(bound, scope),
           NEW equivs, UNION equivs \subseteq scope
    PROVE  UNION Joined(x, bound, equivs) \subseteq scope \cup {x}
<1>1. \A c \in Joined(x, bound, equivs) :
         \/ c \in equivs
         \/ bound.exp = "Var" /\ c = {x, bound.x}
         \/ \E d \in equivs : c = d \cup {x}
  BY DEF Joined, ClassesOf
<1> QED
  BY <1>1 DEF ReadIn

\* No variable gets into two of them.
LEMMA KnownInScope ==
    ASSUME NEW w, NEW e0, NEW params, Surveyed(w, e0, params), Unshadowed(w, e0, params),
           NEW fs, NEW j, NEW S, InScope(w, params, fs, j, S), j[1].exp = "Let",
           NEW x, NEW in_body, NEW in_bound, LetParts(w, j, x, in_body, in_bound),
           NEW bound, bound = w.made[in_bound],
           NEW equivs, KnownEqual(equivs, S \cup params),
           NEW equivs2, equivs2 = Joined(x, bound, equivs)
    PROVE  KnownEqual(equivs2, (S \cup {x}) \cup params) /\ InOneClass(bound, equivs)
<1>1. x \notin S \cup params
  BY LetInScope, ZenonT(60)
<1>2. ReadIn(bound, S \cup params)
  BY BoundReads, Zenon
<1>3. (S \cup params) \cup {x} = (S \cup {x}) \cup params
  OBVIOUS
<1> QED
  BY <1>1, <1>2, <1>3, JoinedKnown

\* Everywhere in a body the vertices are right, and no assertion fails.
LEMMA FoundInScope ==
    ASSUME NEW w, NEW e0, NEW params, Surveyed(w, e0, params), Unshadowed(w, e0, params),
           NEW fs, NEW j, NEW S, InScope(w, params, fs, j, S),
           NEW equivs, KnownEqual(equivs, S \cup params), <<w.made[j], equivs>> \in w.visited
    PROVE  FoundRight(w, j, equivs, S)
<1> DEFINE T == {k[1] : k \in w.asked}
           Holds(k) == \A S2, q : InScope(w, params, fs, k, S2) /\ KnownEqual(q, S2 \cup params)
                                     /\ <<w.made[k], q>> \in w.visited => FoundRight(w, k, q, S2)
           P == {e \in T : \A k \in w.asked : k[1] = e => Holds(k)}
<1>1. \A e \in T : w.rank[e] \in Nat
  BY DEF Surveyed
<1>2. ASSUME NEW e \in T, \A y \in T : w.rank[y] < w.rank[e] => y \in P,
             NEW k \in w.asked, k[1] = e, NEW S2, NEW q, InScope(w, params, fs, k, S2),
             KnownEqual(q, S2 \cup params), <<w.made[k], q>> \in w.visited
      PROVE  FoundRight(w, k, q, S2)
  <2>0. InScope(w, params, fs, k, S2) /\ KnownEqual(q, S2 \cup params) /\ <<w.made[k], q>> \in w.visited
    BY <1>2
  <2>1. CASE e.exp = "Let"
    <3>1. k[1].exp = "Let"
      BY <1>2, <2>1
    <3>2. PICK x, in_body, in_bound : LetParts(w, k, x, in_body, in_bound)
      BY DEF LetParts
    <3>3. PICK s, bound, q2 : s = w.made[k] /\ bound = w.made[in_bound] /\ q2 = Joined(x, bound, q)
      OBVIOUS
    <3>4. TwoAsked(w, k, in_body, in_bound, {x}) /\ LetMade(w, s, x, in_body, in_bound)
      BY <3>1, <3>2, <3>3, LetAsked
    <3>5. InScope(w, params, fs, in_body, S2 \cup {x}) /\ x \notin S2 \cup params
      BY <2>0, <3>1, <3>2, LetInScope, ZenonT(60)
    <3>6. w.before[w.made[in_body]] \subseteq S2 \cup {x}
      BY <3>5, LiveInScope, Zenon
    <3>7. InScope(w, params, fs, in_bound, S2)
      <4>1. w.before[w.made[in_body]] \subseteq S2 \cup {x} => InScope(w, params, fs, in_bound, S2)
        BY <2>0, <3>1, <3>2, LetInScope, ZenonT(60)
      <4> QED
        BY <3>6, <4>1
    <3>8. KnownEqual(q2, (S2 \cup {x}) \cup params) /\ InOneClass(bound, q)
      BY <2>0, <3>1, <3>2, <3>3, KnownInScope, ZenonT(60)
    <3>9. s.exp = "Let" /\ s.bindings[1].var = x /\ s.bindings[1].e = bound
          /\ s.body = w.made[in_body] /\ s.ann = w.before[w.made[in_body]] \cup {x}
      BY <3>3, <3>4 DEF LetMade
    <3>10. LetFound(w, s, q, x, bound, q2)
      BY <2>0, <3>3, <3>9, LetVisited
    <3>11. <<bound, q2>> \in w.visited /\ <<w.made[in_body], q2>> \in w.visited
      BY <3>9, <3>10 DEF LetFound
    <3>12. Holds(in_body) /\ Holds(in_bound)
      BY <1>2, <3>4 DEF TwoAsked
    <3>13. FoundRight(w, in_body, q2, S2 \cup {x})
      BY <3>5, <3>8, <3>11, <3>12
    <3>14. FoundRight(w, in_bound, q2, S2)
      <4>1. CASE bound.exp = "Var"
        <5>1. in_bound[1].exp # "Let" /\ in_bound[1].exp # "If"
          BY <3>3, <3>4, <4>1, OnlyOperations DEF TwoAsked
        <5>2. w.binders[in_bound[1]] = {}
          BY <3>4, <5>1, OperationAsked DEF TwoAsked
        <5>3. LET all == w.found[<<bound, q2>>]
              IN  all.verts = {} /\ all.asserted
          BY <3>11, <4>1, OperationVisited
        <5> QED
          BY <3>3, <5>2, <5>3 DEF FoundRight
      <4>2. CASE bound.exp # "Var"
        <5>1. q2 = q
          BY <3>3, <4>2 DEF Joined
        <5> QED
          BY <2>0, <3>3, <3>7, <3>11, <3>12, <5>1
      <4> QED
        BY <4>1, <4>2
    <3>15. PICK all, one, other, edges :
              /\ all = w.found[<<s, q>>] /\ one = w.found[<<bound, q2>>]
              /\ other = w.found[<<w.made[in_body], q2>>]
              /\ edges = Pairs(s.ann) \ UNION {Pairs(c) : c \in q2}
      OBVIOUS
    <3>16. /\ all.verts = {x} \cup (UNION edges) \cup one.verts \cup other.verts
           /\ InOneClass(bound, q) /\ one.asserted /\ other.asserted => all.asserted
      BY <3>9, <3>10, <3>15 DEF LetFound
    <3>17. /\ one.verts \subseteq S2 \cup w.binders[in_bound[1]]
           /\ w.binders[in_bound[1]] \subseteq one.verts /\ one.asserted
           /\ other.verts \subseteq (S2 \cup {x}) \cup w.binders[in_body[1]]
           /\ w.binders[in_body[1]] \subseteq other.verts /\ other.asserted
      BY <3>3, <3>13, <3>14, <3>15 DEF FoundRight
    <3>18. UNION edges \subseteq S2 \cup {x}
      <4>1. \A d \in edges : d \subseteq s.ann
        BY <3>15 DEF Pairs
      <4> QED
        BY <3>6, <3>9, <4>1
    <3>19. w.binders[k[1]] = {x} \cup w.binders[in_body[1]] \cup w.binders[in_bound[1]]
      BY <3>4 DEF TwoAsked
    <3>20. all.verts \subseteq S2 \cup w.binders[k[1]] /\ w.binders[k[1]] \subseteq all.verts
      BY <3>16, <3>17, <3>18, <3>19
    <3>21. all.asserted
      BY <3>8, <3>16, <3>17
    <3> QED
      BY <3>3, <3>15, <3>20, <3>21 DEF FoundRight
  <2>2. CASE e.exp = "If"
    <3>1. k[1].exp = "If"
      BY <1>2, <2>2
    <3>2. PICK in_thn, in_els : IfParts(k, in_thn, in_els)
      BY DEF IfParts
    <3>3. TwoAsked(w, k, in_thn, in_els, {}) /\ IfMade(w, w.made[k], in_thn, in_els, params)
      BY <3>1, <3>2, IfAsked
    <3>4. InScope(w, params, fs, in_thn, S2) /\ InScope(w, params, fs, in_els, S2)
      BY <2>0, <3>1, <3>2, IfInScope, Zenon
    <3>5. IfFound(w, w.made[k], q)
      BY <2>0, <3>3, IfVisited DEF IfMade
    <3>6. Holds(in_thn) /\ Holds(in_els)
      BY <1>2, <3>3 DEF TwoAsked
    <3>7. <<w.made[in_thn], q>> \in w.visited /\ <<w.made[in_els], q>> \in w.visited
      BY <3>3, <3>5 DEF IfFound, IfMade
    <3>8. FoundRight(w, in_thn, q, S2) /\ FoundRight(w, in_els, q, S2)
      BY <2>0, <3>4, <3>6, <3>7
    <3>9. w.binders[k[1]] = w.binders[in_thn[1]] \cup w.binders[in_els[1]]
      BY <3>3 DEF TwoAsked
    <3>10. PICK all, one, other :
              /\ all = w.found[<<w.made[k], q>>] /\ one = w.found[<<w.made[in_thn], q>>]
              /\ other = w.found[<<w.made[in_els], q>>]
      OBVIOUS
    <3>11. /\ all.verts = one.verts \cup other.verts
           /\ one.asserted /\ other.asserted => all.asserted
      BY <3>3, <3>5, <3>10 DEF IfFound, IfMade
    <3>12. /\ one.verts \subseteq S2 \cup w.binders[in_thn[1]]
           /\ w.binders[in_thn[1]] \subseteq one.verts /\ one.asserted
           /\ other.verts \subseteq S2 \cup w.binders[in_els[1]]
           /\ w.binders[in_els[1]] \subseteq other.verts /\ other.asserted
      BY <3>8, <3>10 DEF FoundRight
    <3>13. all.verts \subseteq S2 \cup w.binders[k[1]] /\ w.binders[k[1]] \subseteq all.verts
      BY <3>9, <3>11, <3>12
    <3>14. all.asserted
      BY <3>11, <3>12
    <3> QED
      BY <3>10, <3>13, <3>14 DEF FoundRight
  <2>3. CASE e.exp # "Let" /\ e.exp # "If"
    <3>1. OperationMade(w, w.made[k], k[2], params) /\ w.binders[k[1]] = {}
      BY <1>2, <2>3, OperationAsked
    <3>2. LET all == w.found[<<w.made[k], q>>]
          IN  all.verts = {} /\ all.asserted
      BY <2>0, <3>1, OperationVisited DEF OperationMade
    <3> QED
      BY <3>1, <3>2 DEF FoundRight
  <2> QED
    BY <2>1, <2>2, <2>3
<1>3. \A e \in T : (\A y \in T : w.rank[y] < w.rank[e] => y \in P) => e \in P
  BY <1>2
<1>4. T \subseteq P
  <2> HIDE DEF T, P
  <2> QED
    BY <1>1, <1>3, RankInduction
<1> QED
  BY <1>4 DEF InScope

-----------------------------------------------------------------------------
(* The analyses of a program are enough to share places.                   *)

\* What was found out at an expression belongs to the body e0: what can be read are
\* variables of the body, and conflicts goes there with the classes and finds nothing
\* that is not in the graph of the body.
Belongs(w, e0, params, fs, j, S, equivs) ==
    /\ InScope(w, params, fs, j, S)
    /\ S \cup w.binders[j[1]] \subseteq FoundOf(w, e0).verts
    /\ UNION equivs \subseteq S \cup params
    /\ j[1].exp = "Let" \/ j[1].exp = "If" =>
          /\ <<w.made[j], equivs>> \in w.visited
          /\ w.found[<<w.made[j], equivs>>].edges \subseteq FoundOf(w, e0).edges

NodeAt(w, e0, params, j, equivs) ==
    Node(w.made[j], params, w.before[w.made[j]], j[2], equivs, SurveyGraph(w, e0))

ClassSets(w, e0, params) == SUBSET SUBSET (FoundOf(w, e0).verts \cup params)

\* What was found out about a body.
NodesOf(w, e0, params, fs) ==
    {NodeAt(w, e0, params, k[1], k[2]) :
        k \in {l \in w.asked \X ClassSets(w, e0, params) :
                  \E S : Belongs(w, e0, params, fs, l[1], S, l[2])}}

\* It is one of them.
LEMMA NodeFound ==
    ASSUME NEW w, NEW e0, NEW params, NEW fs, NEW j, NEW S, NEW equivs,
           Belongs(w, e0, params, fs, j, S, equivs)
    PROVE  NodeAt(w, e0, params, j, equivs) \in NodesOf(w, e0, params, fs)
<1> DEFINE l == <<j, equivs>>
<1>1. j \in w.asked /\ equivs \in ClassSets(w, e0, params)
  BY DEF Belongs, InScope, ClassSets
<1>2. l[1] = j /\ l[2] = equivs /\ l \in w.asked \X ClassSets(w, e0, params)
  BY <1>1
<1> HIDE DEF l
<1> QED
  BY <1>2 DEF NodesOf

\* Both are neighbours in the graph of the body, or have one value.
LEMMA LiveApart ==
    ASSUME NEW verts, NEW edges, NEW x \in verts, NEW y \in verts, y # x,
           NEW live, x \in live, y \in live, NEW equivs,
           Pairs(live) \ UNION {Pairs(c) : c \in equivs} \subseteq edges
    PROVE  Apart(x, y, GraphOf(verts, edges), equivs)
<1>1. {x, y} \in Pairs(live)
  <2>1. <<x, y>> \in live \X live /\ <<x, y>>[1] # <<x, y>>[2]
    OBVIOUS
  <2> QED
    BY <2>1 DEF Pairs
<1>2. CASE {x, y} \in edges
  BY <1>2 DEF Apart, Neighbors, GraphOf
<1>3. CASE {x, y} \notin edges
  <2>1. PICK c \in equivs : {x, y} \in Pairs(c)
    BY <1>1, <1>3
  <2>2. {x, y} \subseteq c
    BY <2>1 DEF Pairs
  <2> QED
    BY <2>2 DEF Apart
<1> QED
  BY <1>2, <1>3

\* The fields of a node.
LEMMA NodeFields ==
    ASSUME NEW w, NEW e0, NEW params, NEW j, NEW equivs
    PROVE  LET a == NodeAt(w, e0, params, j, equivs)
           IN  /\ a.e = w.made[j] /\ a.params = params /\ a.live = w.before[w.made[j]]
               /\ a.out = j[2] /\ a.equivs = equivs /\ a.graph = SurveyGraph(w, e0)
BY DEF NodeAt, Node

\* What was found out at an operation is sound.
LEMMA OperationSound ==
    ASSUME NEW w, NEW e0, NEW params, Surveyed(w, e0, params), Unshadowed(w, e0, params),
           NEW fs, NEW j, NEW S, NEW equivs, Belongs(w, e0, params, fs, j, S, equivs),
           j[1].exp # "Let", j[1].exp # "If",
           NEW a, a = NodeAt(w, e0, params, j, equivs)
    PROVE  SoundOperation(a)
<1>1. InScope(w, params, fs, j, S) /\ j \in w.asked /\ j[2] \subseteq S /\ S \cap params = {}
  BY DEF Belongs, InScope
<1>2. OperationMade(w, w.made[j], j[2], params)
  BY <1>1, OperationAsked
<1>3. j[2] \cap params = {}
  BY <1>1
<1> QED
  BY <1>2, <1>3, NodeFields DEF OperationMade, SoundOperation

\* So it is at an if.
LEMMA IfSound ==
    ASSUME NEW w, NEW e0, NEW params, Surveyed(w, e0, params), Unshadowed(w, e0, params),
           NEW fs, NEW j, NEW S, NEW equivs, Belongs(w, e0, params, fs, j, S, equivs),
           j[1].exp = "If",
           NEW a, a = NodeAt(w, e0, params, j, equivs)
    PROVE  SoundIf(NodesOf(w, e0, params, fs), a)
<1>1. PICK in_thn, in_els : IfParts(j, in_thn, in_els)
  BY DEF IfParts
<1>2. PICK s : s = w.made[j]
  OBVIOUS
<1>3. /\ InScope(w, params, fs, j, S) /\ S \cap params = {} /\ <<s, equivs>> \in w.visited
      /\ w.found[<<s, equivs>>].edges \subseteq FoundOf(w, e0).edges
      /\ S \cup w.binders[j[1]] \subseteq FoundOf(w, e0).verts /\ UNION equivs \subseteq S \cup params
      /\ j \in w.asked
  BY <1>2 DEF Belongs, InScope
<1>4. TwoAsked(w, j, in_thn, in_els, {}) /\ IfMade(w, s, in_thn, in_els, params)
  BY <1>1, <1>2, <1>3, IfAsked
<1>5. InScope(w, params, fs, in_thn, S) /\ InScope(w, params, fs, in_els, S)
  BY <1>1, <1>3, IfInScope, Zenon
<1>6. IfFound(w, s, equivs)
  BY <1>3, <1>4, IfVisited DEF IfMade
<1>7. /\ <<w.made[in_thn], equivs>> \in w.visited /\ <<w.made[in_els], equivs>> \in w.visited
      /\ w.found[<<w.made[in_thn], equivs>>].edges \subseteq FoundOf(w, e0).edges
      /\ w.found[<<w.made[in_els], equivs>>].edges \subseteq FoundOf(w, e0).edges
  BY <1>3, <1>4, <1>6 DEF IfFound, IfMade
<1>8. Belongs(w, e0, params, fs, in_thn, S, equivs) /\ Belongs(w, e0, params, fs, in_els, S, equivs)
  <2>1. /\ S \cup w.binders[in_thn[1]] \subseteq FoundOf(w, e0).verts
        /\ S \cup w.binders[in_els[1]] \subseteq FoundOf(w, e0).verts
    BY <1>3, <1>4 DEF TwoAsked
  <2> QED
    BY <1>3, <1>5, <1>7, <2>1 DEF Belongs
<1>9. PICK b1, b2 : b1 = NodeAt(w, e0, params, in_thn, equivs)
                    /\ b2 = NodeAt(w, e0, params, in_els, equivs)
  OBVIOUS
<1>10. b1 \in NodesOf(w, e0, params, fs) /\ b2 \in NodesOf(w, e0, params, fs)
  BY <1>8, <1>9, NodeFound, Zenon
<1>11. w.before[w.made[in_thn]] \subseteq S /\ w.before[w.made[in_els]] \subseteq S
  BY <1>5, LiveInScope, Zenon
<1>12. /\ w.before[w.made[in_thn]] \subseteq w.before[s]
       /\ w.before[w.made[in_els]] \subseteq w.before[s]
       /\ VarsIn(<<s.cond>>) \ params \subseteq w.before[s]
  BY <1>3, <1>4, <1>11 DEF IfMade
<1>13. /\ a.e = s /\ a.params = params /\ a.live = w.before[s]
       /\ a.out = j[2] /\ a.equivs = equivs /\ a.graph = SurveyGraph(w, e0)
  BY <1>2, NodeFields
<1>14. in_thn[2] = j[2] /\ in_els[2] = j[2]
  BY <1>1 DEF IfParts
<1>15. /\ b1 = Node(s.thn, a.params, b1.live, a.out, a.equivs, a.graph)
       /\ b2 = Node(s.els, a.params, b2.live, a.out, a.equivs, a.graph)
       /\ b1.live \subseteq a.live /\ b2.live \subseteq a.live
  <2>1. b1.live = w.before[w.made[in_thn]] /\ b2.live = w.before[w.made[in_els]]
    BY <1>9, NodeFields
  <2>2. s.thn = w.made[in_thn] /\ s.els = w.made[in_els]
    BY <1>4 DEF IfMade
  <2>3. /\ b1 = Node(w.made[in_thn], params, w.before[w.made[in_thn]], j[2], equivs, SurveyGraph(w, e0))
        /\ b2 = Node(w.made[in_els], params, w.before[w.made[in_els]], j[2], equivs, SurveyGraph(w, e0))
    BY <1>9, <1>14 DEF NodeAt
  <2> QED
    BY <1>12, <1>13, <2>1, <2>2, <2>3
<1>16. s.exp = "If" /\ Immediate(s.cond)
  BY <1>4 DEF IfMade
<1> QED
  BY <1>10, <1>12, <1>13, <1>15, <1>16 DEF SoundIf

\* And at a let.
LEMMA LetSound ==
    ASSUME NEW w, NEW e0, NEW params, Surveyed(w, e0, params), Unshadowed(w, e0, params),
           NEW fs, NEW j, NEW S, NEW equivs, Belongs(w, e0, params, fs, j, S, equivs),
           j[1].exp = "Let",
           NEW a, a = NodeAt(w, e0, params, j, equivs)
    PROVE  SoundLet(NodesOf(w, e0, params, fs), a)
<1>1. PICK x, in_body, in_bound : LetParts(w, j, x, in_body, in_bound)
  BY DEF LetParts
<1>2. PICK s, bound, equivs2 :
         s = w.made[j] /\ bound = w.made[in_bound] /\ equivs2 = Joined(x, bound, equivs)
  OBVIOUS
<1>3. /\ InScope(w, params, fs, j, S) /\ <<s, equivs>> \in w.visited
      /\ w.found[<<s, equivs>>].edges \subseteq FoundOf(w, e0).edges
      /\ S \cup w.binders[j[1]] \subseteq FoundOf(w, e0).verts /\ UNION equivs \subseteq S \cup params
      /\ j \in w.asked /\ j[2] \subseteq S
  BY <1>2 DEF Belongs, InScope
<1>4. TwoAsked(w, j, in_body, in_bound, {x}) /\ LetMade(w, s, x, in_body, in_bound)
  BY <1>1, <1>2, <1>3, LetAsked
<1>5. InScope(w, params, fs, in_body, S \cup {x}) /\ x \notin S \cup params
  BY <1>1, <1>3, LetInScope, ZenonT(60)
<1>6. w.before[w.made[in_body]] \subseteq S \cup {x}
  BY <1>5, LiveInScope, Zenon
<1>7. InScope(w, params, fs, in_bound, S)
  <2>1. InScope(w, params, fs, j, S)
    BY <1>3
  <2>2. w.before[w.made[in_body]] \subseteq S \cup {x} => InScope(w, params, fs, in_bound, S)
    BY <1>1, <2>1, LetInScope, ZenonT(60)
  <2> QED
    BY <1>6, <2>2
<1>8. ReadIn(bound, S \cup params)
  BY <1>1, <1>2, <1>3, BoundReads, Zenon
<1>9. UNION equivs2 \subseteq (S \cup {x}) \cup params
  <2>1. UNION equivs2 \subseteq (S \cup params) \cup {x}
    BY <1>2, <1>3, <1>8, ClassesInScope
  <2> QED
    BY <2>1
<1>10. /\ s.exp = "Let" /\ Len(s.bindings) = 1
       /\ s.bindings[1].var = x /\ s.bindings[1].e = bound
       /\ s.body = w.made[in_body] /\ s.ann = w.before[w.made[in_body]] \cup {x}
       /\ w.before[s] = w.before[bound]
  BY <1>2, <1>4 DEF LetMade
<1>11. LetFound(w, s, equivs, x, bound, equivs2)
  BY <1>2, <1>3, <1>10, LetVisited
<1>12. PICK edges : edges = Pairs(s.ann) \ UNION {Pairs(c) : c \in equivs2}
  OBVIOUS
<1>13. /\ <<bound, equivs2>> \in w.visited /\ <<w.made[in_body], equivs2>> \in w.visited
       /\ w.found[<<s, equivs>>].edges =
             edges \cup w.found[<<bound, equivs2>>].edges \cup w.found[<<w.made[in_body], equivs2>>].edges
  BY <1>10, <1>11, <1>12 DEF LetFound
<1>14. w.binders[j[1]] = {x} \cup w.binders[in_body[1]] \cup w.binders[in_bound[1]]
  BY <1>4 DEF TwoAsked
<1>15. Belongs(w, e0, params, fs, in_body, S \cup {x}, equivs2)
  <2>1. (S \cup {x}) \cup w.binders[in_body[1]] \subseteq FoundOf(w, e0).verts
    BY <1>3, <1>14
  <2>2. w.found[<<w.made[in_body], equivs2>>].edges \subseteq FoundOf(w, e0).edges
    BY <1>3, <1>13
  <2> QED
    BY <1>5, <1>9, <1>13, <2>1, <2>2 DEF Belongs
<1>16. Belongs(w, e0, params, fs, in_bound, S, equivs)
  <2>1. S \cup w.binders[in_bound[1]] \subseteq FoundOf(w, e0).verts
    BY <1>3, <1>14
  <2>2. w.found[<<bound, equivs2>>].edges \subseteq FoundOf(w, e0).edges
    BY <1>3, <1>13
  <2>3. ASSUME in_bound[1].exp = "Let" \/ in_bound[1].exp = "If"
        PROVE  equivs2 = equivs
    <3>1. in_bound \in w.asked
      BY <1>4 DEF TwoAsked
    <3>2. ~(bound.exp # "Let" /\ bound.exp # "If")
      BY <1>2, <2>3, <3>1, OnlyOperations
    <3> QED
      BY <1>2, <3>2 DEF Joined
  <2>4. in_bound[1].exp = "Let" \/ in_bound[1].exp = "If" =>
           /\ <<bound, equivs>> \in w.visited
           /\ w.found[<<bound, equivs>>].edges \subseteq FoundOf(w, e0).edges
    BY <1>13, <2>2, <2>3
  <2> QED
    BY <1>2, <1>3, <1>7, <2>1, <2>4 DEF Belongs
<1>17. PICK b, c : /\ b = NodeAt(w, e0, params, in_body, equivs2)
                   /\ c = NodeAt(w, e0, params, in_bound, equivs)
  OBVIOUS
<1>18. b \in NodesOf(w, e0, params, fs) /\ c \in NodesOf(w, e0, params, fs)
  BY <1>15, <1>16, <1>17, NodeFound, Zenon
<1>19. /\ a.e = s /\ a.params = params /\ a.live = w.before[s]
       /\ a.out = j[2] /\ a.equivs = equivs /\ a.graph = SurveyGraph(w, e0)
  BY <1>2, NodeFields
<1>20. in_body[2] = j[2] /\ in_bound[2] = w.before[w.made[in_body]] \ {x}
  BY <1>1 DEF LetParts
<1>21. b.live = w.before[w.made[in_body]]
  BY <1>17, NodeFields
<1>22. b = Node(s.body, a.params, b.live, a.out, equivs2, a.graph)
  BY <1>10, <1>17, <1>19, <1>20, <1>21 DEF NodeAt
<1>23. Node(bound, a.params, a.live, b.live \ {x}, a.equivs, a.graph) = c
  BY <1>2, <1>10, <1>17, <1>19, <1>20, <1>21 DEF NodeAt
<1>24. x \in FoundOf(w, e0).verts /\ b.live \subseteq FoundOf(w, e0).verts
  BY <1>3, <1>6, <1>14, <1>21
<1>25. x \in Vertices(a.graph)
  BY <1>19, <1>24 DEF SurveyGraph, GraphOf, Vertices
<1>26. x \notin a.params \cup a.out \cup UNION a.equivs
  BY <1>3, <1>5, <1>19
<1>27. ASSUME NEW y \in b.live \ {x} PROVE Apart(x, y, a.graph, equivs2)
  <2>1. edges \subseteq FoundOf(w, e0).edges
    BY <1>3, <1>13
  <2>2. x \in s.ann /\ y \in s.ann /\ y # x
    BY <1>10, <1>21
  <2>3. y \in FoundOf(w, e0).verts
    BY <1>24
  <2>4. PICK E, V : E = FoundOf(w, e0).edges /\ V = FoundOf(w, e0).verts
    OBVIOUS
  <2>5. Apart(x, y, GraphOf(V, E), equivs2)
    BY <1>12, <1>24, <2>1, <2>2, <2>3, <2>4, LiveApart
  <2> QED
    BY <1>19, <2>4, <2>5 DEF SurveyGraph
<1>28. /\ a.e.bindings[1].var = x /\ a.e.bindings[1].e = bound /\ a.e.body = s.body
       /\ a.e.exp = "Let" /\ Len(a.e.bindings) = 1 /\ equivs2 = Joined(x, bound, a.equivs)
  BY <1>2, <1>10, <1>19
<1>29. /\ b = Node(a.e.body, a.params, b.live, a.out, equivs2, a.graph)
       /\ Node(bound, a.params, a.live, b.live \ {x}, a.equivs, a.graph) \in NodesOf(w, e0, params, fs)
       /\ \A y \in b.live \ {x} : Apart(x, y, a.graph, equivs2)
  BY <1>18, <1>22, <1>23, <1>27, <1>28
<1> QED
  BY <1>18, <1>25, <1>26, <1>28, <1>29 DEF SoundLet

\* All that was found out about a body is sound.
LEMMA NodesSound ==
    ASSUME NEW w, NEW e0, NEW params, Surveyed(w, e0, params), Unshadowed(w, e0, params),
           NEW fs, FoundOf(w, e0).verts \cap params = {},
           NEW A, NodesOf(w, e0, params, fs) \subseteq A, NEW a \in NodesOf(w, e0, params, fs)
    PROVE  SoundAt(A, a)
<1>1. PICK j, equivs, S : /\ Belongs(w, e0, params, fs, j, S, equivs)
                          /\ a = NodeAt(w, e0, params, j, equivs)
  BY DEF NodesOf
<1>2. /\ a.params = params /\ a.live = w.before[w.made[j]] /\ a.out = j[2]
      /\ a.graph = SurveyGraph(w, e0)
  BY <1>1, NodeFields
<1>3. InScope(w, params, fs, j, S) /\ S \subseteq FoundOf(w, e0).verts /\ j[2] \subseteq S
  BY <1>1 DEF Belongs, InScope
<1>4. w.before[w.made[j]] \subseteq S
  BY <1>3, LiveInScope, Zenon
<1>5. Vertices(a.graph) = FoundOf(w, e0).verts
  BY <1>2 DEF SurveyGraph, GraphOf, Vertices
<1>6. Vertices(a.graph) \cap a.params = {} /\ a.live \cup a.out \subseteq Vertices(a.graph)
  BY <1>2, <1>3, <1>4, <1>5
<1>7. CASE j[1].exp = "Let"
  <2>1. SoundLet(NodesOf(w, e0, params, fs), a)
    BY <1>1, <1>7, LetSound
  <2>2. SoundLet(A, a)
    BY <2>1 DEF SoundLet
  <2> QED
    BY <1>6, <2>2 DEF SoundAt
<1>8. CASE j[1].exp = "If"
  <2>1. SoundIf(NodesOf(w, e0, params, fs), a)
    BY <1>1, <1>8, IfSound
  <2>2. SoundIf(A, a)
    BY <2>1 DEF SoundIf
  <2> QED
    BY <1>6, <2>2 DEF SoundAt
<1>9. CASE j[1].exp # "Let" /\ j[1].exp # "If"
  <2>1. SoundOperation(a)
    BY <1>1, <1>9, OperationSound
  <2> QED
    BY <1>6, <2>1 DEF SoundAt
<1> QED
  BY <1>7, <1>8, <1>9

\* A whole body, with nothing live after it and nothing known.
LEMMA BodyFound ==
    ASSUME NEW w, NEW e0, NEW params, Surveyed(w, e0, params), Unshadowed(w, e0, params),
           NEW fs, <<MadeOf(w, e0), params, fs>> \in Accepted
    PROVE  /\ FoundOf(w, e0).verts = w.binders[e0] /\ FoundOf(w, e0).asserted
           /\ FoundOf(w, e0).verts \cap params = {}
           /\ Node(MadeOf(w, e0), params, {}, {}, {}, SurveyGraph(w, e0))
                 \in NodesOf(w, e0, params, fs)
<1> DEFINE j == <<e0, {}>>
<1>1. j \in w.asked /\ <<w.made[j], {}>> \in w.visited /\ w.binders[e0] \cap params = {}
  BY DEF Surveyed, Unshadowed
<1>2. j[1] = e0 /\ j[2] = {} /\ w.made[j] = MadeOf(w, e0)
  BY DEF MadeOf
<1>3. FoundOf(w, e0) = w.found[<<w.made[j], {}>>]
  BY <1>2 DEF FoundOf
<1> HIDE DEF j
<1>4. InScope(w, params, fs, j, {})
  <2>1. {} \cup params = params
    OBVIOUS
  <2> QED
    BY <1>1, <1>2, <2>1 DEF InScope
<1>5. KnownEqual({}, {} \cup params)
  BY DEF KnownEqual
<1>6. FoundRight(w, j, {}, {})
  BY <1>1, <1>4, <1>5, FoundInScope, Zenon
<1>7. FoundOf(w, e0).verts = w.binders[e0] /\ FoundOf(w, e0).asserted
  BY <1>2, <1>3, <1>6 DEF FoundRight
<1>8. w.before[w.made[j]] = {}
  <2>1. w.before[w.made[j]] \subseteq {}
    BY <1>4, LiveInScope, Zenon
  <2> QED
    BY <2>1
<1>9. Belongs(w, e0, params, fs, j, {}, {})
  BY <1>1, <1>2, <1>3, <1>4, <1>7 DEF Belongs
<1>10. NodeAt(w, e0, params, j, {}) \in NodesOf(w, e0, params, fs)
  BY <1>9, NodeFound, Zenon
<1>11. NodeAt(w, e0, params, j, {}) = Node(MadeOf(w, e0), params, {}, {}, {}, SurveyGraph(w, e0))
  BY <1>2, <1>8 DEF NodeAt
<1>12. FoundOf(w, e0).verts \cap params = {}
  BY <1>1, <1>7
<1> QED
  BY <1>7, <1>10, <1>11, <1>12

\* The bodies of a program that check_prog accepts.
LEMMA BodiesAccepted ==
    ASSUME NEW p \in Programs
    PROVE  /\ \A i \in BodyNumbers(p) : <<BodyOf(p, i), ParamsOf(p, i), Arities(p)>> \in Accepted
           /\ DOMAIN p.funs \subseteq BodyNumbers(p)
           /\ \A i \in DOMAIN p.funs :
                 BodyOf(p, i) = p.funs[i].body /\ ParamsOf(p, i) = ParamSet(p.funs[i])
           /\ Len(p.funs) + 1 \in BodyNumbers(p)
           /\ BodyOf(p, Len(p.funs) + 1) = p.main /\ ParamsOf(p, Len(p.funs) + 1) = {}
<1>1. Len(p.funs) \in Nat /\ DOMAIN p.funs = 1 .. Len(p.funs)
  BY ProgramsAssumption, IsSeqDomain
<1>2. /\ <<p.main, {}, Arities(p)>> \in Accepted
      /\ \A i \in DOMAIN p.funs :
            <<p.funs[i].body, ParamSet(p.funs[i]), Arities(p)>> \in Accepted
  BY ProgramsAssumption
<1>3. DOMAIN p.funs \subseteq BodyNumbers(p) /\ Len(p.funs) + 1 \in BodyNumbers(p)
  BY <1>1 DEF BodyNumbers
<1>4. Len(p.funs) + 1 \notin DOMAIN p.funs
  BY <1>1
<1>5. \A i \in DOMAIN p.funs :
         BodyOf(p, i) = p.funs[i].body /\ ParamsOf(p, i) = ParamSet(p.funs[i])
  BY DEF BodyOf, ParamsOf
<1>6. \A i : i \notin DOMAIN p.funs => BodyOf(p, i) = p.main /\ ParamsOf(p, i) = {}
  BY DEF BodyOf, ParamsOf
<1>7. ASSUME NEW i \in BodyNumbers(p)
      PROVE  <<BodyOf(p, i), ParamsOf(p, i), Arities(p)>> \in Accepted
  BY <1>2, <1>5, <1>6
<1> QED
  BY <1>3, <1>4, <1>5, <1>6, <1>7

\* conflicts_helper never fails its assertion that the copied variable is in one class
\* at most (compile.rs:928), and gives every variable a body binds, and no other, a
\* vertex and so a place (compile.rs:1219, 1474).
THEOREM AssertionsHold ==
    ASSUME NEW p \in Programs, NEW w, NEW u, AnnotatedBy(w, u, p), NothingShadowed(w, u, p),
           NEW i \in BodyNumbers(p)
    PROVE  /\ FoundOf(w[i], BodyOf(u, i)).asserted
           /\ Vertices(SurveyGraph(w[i], BodyOf(u, i))) = w[i].binders[BodyOf(u, i)]
<1>1. /\ Surveyed(w[i], BodyOf(u, i), ParamsOf(p, i))
      /\ Unshadowed(w[i], BodyOf(u, i), ParamsOf(p, i))
      /\ <<MadeOf(w[i], BodyOf(u, i)), ParamsOf(p, i), Arities(p)>> \in Accepted
  BY BodiesAccepted DEF AnnotatedBy, NothingShadowed
<1>2. PICK e0, v : e0 = BodyOf(u, i) /\ v = w[i]
  OBVIOUS
<1>3. FoundOf(v, e0).verts = v.binders[e0] /\ FoundOf(v, e0).asserted
  BY <1>1, <1>2, BodyFound
<1>4. Vertices(SurveyGraph(v, e0)) = FoundOf(v, e0).verts
  BY DEF SurveyGraph, GraphOf, Vertices
<1> QED
  BY <1>2, <1>3, <1>4

\* What liveness and conflicts find out about a program is enough to share places,
\* whatever the program is, as long as no let hides what is in scope: what
\* uniquify_names is for (compile.rs:727-989).
THEOREM AnalysesAreSound ==
    ASSUME NEW p \in Programs, NEW w, NEW u, AnnotatedBy(w, u, p), NothingShadowed(w, u, p)
    PROVE  \E A : Analysed(A, p, SurveyGraphs(w, u, p))
<1> DEFINE e(i) == BodyOf(u, i)
           N(i) == NodesOf(w[i], e(i), ParamsOf(p, i), Arities(p))
           A == UNION {N(i) : i \in BodyNumbers(p)}
           graphs == SurveyGraphs(w, u, p)
<1>1. ASSUME NEW i \in BodyNumbers(p)
      PROVE  /\ Surveyed(w[i], e(i), ParamsOf(p, i))
             /\ Unshadowed(w[i], e(i), ParamsOf(p, i))
             /\ BodyOf(p, i) = MadeOf(w[i], e(i))
             /\ <<MadeOf(w[i], e(i)), ParamsOf(p, i), Arities(p)>> \in Accepted
  BY BodiesAccepted DEF AnnotatedBy, NothingShadowed
<1>2. \A i \in BodyNumbers(p) : graphs[i] = SurveyGraph(w[i], e(i))
  BY DEF SurveyGraphs
<1> HIDE DEF e, graphs
<1>3. ASSUME NEW i \in BodyNumbers(p)
      PROVE  /\ FoundOf(w[i], e(i)).verts \cap ParamsOf(p, i) = {}
             /\ Node(MadeOf(w[i], e(i)), ParamsOf(p, i), {}, {}, {}, SurveyGraph(w[i], e(i))) \in N(i)
  BY <1>1, BodyFound
<1>4. ASSUME NEW a \in A PROVE SoundAt(A, a)
  <2>1. PICK i \in BodyNumbers(p) : a \in N(i)
    OBVIOUS
  <2>2. N(i) \subseteq A
    OBVIOUS
  <2>3. /\ FoundOf(w[i], e(i)).verts \cap ParamsOf(p, i) = {}
        /\ Surveyed(w[i], e(i), ParamsOf(p, i)) /\ Unshadowed(w[i], e(i), ParamsOf(p, i))
    BY <1>1, <1>3
  <2> HIDE DEF A
  <2> QED
    BY <2>1, <2>2, <2>3, NodesSound
<1>5. ASSUME NEW i \in BodyNumbers(p)
      PROVE  Node(BodyOf(p, i), ParamsOf(p, i), {}, {}, {}, graphs[i]) \in A
  <2>1. Node(BodyOf(p, i), ParamsOf(p, i), {}, {}, {}, graphs[i]) \in N(i)
    BY <1>1, <1>2, <1>3
  <2> QED
    BY <2>1
<1> HIDE DEF A
<1>6. Analysed(A, p, graphs)
  BY <1>4, <1>5, BodiesAccepted DEF Analysed
<1> QED
  BY <1>6 DEF graphs

\* Together: for every program that check_prog accepts and every allocation that
\* allocate_registers may answer with, the variables in the places that it gives them
\* read what they would without places (compile.rs:727-989, 1178-1224).
THEOREM AllocationIsSound ==
    ASSUME NEW p \in Programs, NEW w, NEW u, AnnotatedBy(w, u, p), NothingShadowed(w, u, p),
           NEW lcls,
           \A i \in BodyNumbers(p) : Allocation(lcls[i], SurveyGraph(w[i], BodyOf(u, i)))
    PROVE  PlacedSoundly(p, lcls)
<1> DEFINE graphs == SurveyGraphs(w, u, p)
<1>1. PICK A : Analysed(A, p, graphs)
  BY AnalysesAreSound
<1>2. \A i \in 1 .. Len(p.funs) + 1 : Allocation(lcls[i], graphs[i])
  BY DEF BodyNumbers, SurveyGraphs
<1> HIDE DEF graphs
<1> QED
  BY <1>1, <1>2, PlacesAreSound
=============================================================================
