----------------------------- MODULE InterpProofs -----------------------------
(***************************************************************************)
(* What holds of the abstract machine of interp.rs for every program that  *)
(* check_prog accepts: it never panics, and every value it holds fits into *)
(* 63 bits.  The argument is the inductive invariant IInv of Interp: what  *)
(* is left to evaluate was accepted in the scope of its environment.       *)
(* And with tail calls only, its stack is bounded by the text.             *)
(*                                                                         *)
(* The machine means what the direct-style interpreter means.  No          *)
(* induction over expressions or runs is needed for that: the inductive    *)
(* invariant keeps, for every frame on the stack, the results that would   *)
(* be right there.                                                         *)
(***************************************************************************)
EXTENDS TailCalls, BigStep, Lemmas

-----------------------------------------------------------------------------
(* Lemmas about the stack.                                                  *)

\* Pushing a frame on a stack of scoped frames.
LEMMA PushScoped ==
    ASSUME NEW p, NEW s, NEW f, StackScoped(p, s), FrameScoped(p, f)
    PROVE  StackScoped(p, Append(s, f))
<1> DEFINE R == {s[i] : i \in DOMAIN s}
<1>1. s \in Seq(R \cup {f}) /\ f \in R \cup {f} /\ DOMAIN s = 1 .. Len(s) /\ Len(s) \in Nat
  <2>1. s \in Seq(R)
    BY DEF StackScoped, IsSeq
  <2> HIDE DEF R
  <2> QED
    BY <2>1, SeqMonotonic, LenProperties
<1> HIDE DEF R
<1>2. /\ Append(s, f) \in Seq(R \cup {f})
      /\ Len(Append(s, f)) = Len(s) + 1
      /\ \A i \in 1 .. Len(s) : Append(s, f)[i] = s[i]
      /\ Append(s, f)[Len(s) + 1] = f
  BY <1>1, AppendProperties
<1>3. DOMAIN Append(s, f) = 1 .. Len(s) + 1
  BY <1>1, <1>2, LenProperties
<1>4. ASSUME NEW i \in DOMAIN Append(s, f) PROVE FrameScoped(p, Append(s, f)[i])
  <2>1. i \in 1 .. Len(s) \/ i = Len(s) + 1
    BY <1>1, <1>3
  <2> QED
    BY <1>1, <1>2, <2>1 DEF StackScoped
<1> QED
  BY <1>2, <1>4, SeqIsSeq DEF StackScoped

\* Popping the top frame, which is scoped as well.
LEMMA PopScoped ==
    ASSUME NEW p, NEW s, StackScoped(p, s), s # <<>>
    PROVE  /\ FrameScoped(p, s[Len(s)])
           /\ StackScoped(p, SubSeq(s, 1, Len(s) - 1))
<1> DEFINE R == {s[i] : i \in DOMAIN s}
           b == SubSeq(s, 1, Len(s) - 1)
<1>1. s \in Seq(R) /\ DOMAIN s = 1 .. Len(s) /\ Len(s) \in Nat
  BY LenProperties DEF StackScoped, IsSeq
<1>2. Len(s) >= 1
  BY <1>1, EmptySeq
<1> HIDE DEF R
<1>3. b \in Seq(R) /\ Len(b) = Len(s) - 1 /\ \A i \in 1 .. Len(s) - 1 : b[i] = s[i]
  BY <1>1, <1>2, SubSeqProperties
<1>4. DOMAIN b = 1 .. Len(s) - 1
  BY <1>3, LenProperties
<1>5. IsSeq(b)
  BY <1>3, SeqIsSeq
<1> HIDE DEF b
<1>6. \A i \in DOMAIN b : FrameScoped(p, b[i])
  BY <1>1, <1>3, <1>4 DEF StackScoped
<1>7. FrameScoped(p, s[Len(s)])
  BY <1>1, <1>2 DEF StackScoped
<1> QED
  BY <1>5, <1>6, <1>7 DEF b, StackScoped

-----------------------------------------------------------------------------
(* Lemmas about values and operations.                                      *)

\* What snake_arith lets through fits into 63 bits.
LEMMA BoundedFits ==
    ASSUME NEW n \in Int
    PROVE  Bounded(n) \in Values \/ IsErr(Bounded(n))
<1>1. CASE Wrap(n) # n \/ OutOfBounds(Wrap(n))
  BY <1>1 DEF Bounded, Overflow, IsErr
<1>2. CASE Wrap(n) = n /\ ~OutOfBounds(n)
  <2>1. n \in MinInt .. MaxInt
    BY <1>2, MaxIntAssumption DEF OutOfBounds, MinInt
  <2>2. Bounded(n) = NumV(n)
    BY <1>2 DEF Bounded
  <2> QED
    BY <2>1, <2>2 DEF Values, NumV
<1> QED
  BY <1>1, <1>2

\* A value is a number that fits or a Boolean.
LEMMA ValueKinds ==
    ASSUME NEW v \in Values
    PROVE  \/ v.t = "Num" /\ v.n \in Int
           \/ v.t = "Bool" /\ v.b \in BOOLEAN
BY MaxIntAssumption DEF Values, MinInt

\* The Booleans are values.
LEMMA BoolIsValue ==
    ASSUME NEW b \in BOOLEAN
    PROVE  BoolV(b) \in Values
BY DEF BoolV, Values

\* No operation is of two kinds.
LEMMA OpKinds ==
    /\ \A op \in Arith1 : op \notin Print1 \cup {"Not", "IsBool", "IsNum"}
    /\ \A op \in Print1 : op \notin {"Not", "IsBool", "IsNum"}
    /\ \A op \in Arith2 : op \notin Cmp2 \cup Log2 \cup Eq2
    /\ \A op \in Cmp2 : op \notin Log2 \cup Eq2
    /\ \A op \in Log2 : op \notin Eq2
    /\ Eq2 = {"Eq", "Neq"}
BY DEF Arith1, Print1, Arith2, Cmp2, Log2, Eq2

\* A unary operation on a value gives a value or an error.
LEMMA Prim1Fits ==
    ASSUME NEW op \in Prim1Ops, NEW v \in Values
    PROVE  InterpretPrim1(op, v) \in Values \/ IsErr(InterpretPrim1(op, v))
<1>1. CASE op \in Arith1
  <2>1. InterpretPrim1(op, v) = IF v.t = "Num" THEN Bounded(Exact(op, v.n, 1))
                                                ELSE ExpectedNum("arithmetic", v)
    BY <1>1, OpKinds, Zenon DEF InterpretPrim1
  <2>2. CASE v.t = "Num"
    <3>1. v.n \in Int
      BY <2>2, ValueKinds
    <3>2. Exact(op, v.n, 1) \in Int
      BY <1>1, <3>1 DEF Exact, Arith1
    <3> QED
      BY <2>1, <2>2, <3>2, BoundedFits
  <2>3. CASE v.t # "Num"
    BY <2>1, <2>3 DEF ExpectedNum, IsErr
  <2> QED
    BY <2>2, <2>3
<1>2. CASE op = "Not"
  <2>1. InterpretPrim1(op, v) = IF v.t = "Bool" THEN BoolV(~v.b) ELSE ExpectedBool("logic", v)
    BY <1>2, OpKinds, Zenon DEF InterpretPrim1
  <2>2. (~v.b) \in BOOLEAN
    OBVIOUS
  <2>3. BoolV(~v.b) \in Values
    BY <2>2, BoolIsValue
  <2>4. IsErr(ExpectedBool("logic", v))
    BY DEF ExpectedBool, IsErr
  <2> QED
    BY <2>1, <2>3, <2>4
<1>3. CASE op \in {"IsBool", "IsNum"}
  <2>1. InterpretPrim1(op, v) = BoolV(v.t = "Bool") \/ InterpretPrim1(op, v) = BoolV(v.t = "Num")
    BY <1>3, OpKinds, Zenon DEF InterpretPrim1
  <2>2. (v.t = "Bool") \in BOOLEAN /\ (v.t = "Num") \in BOOLEAN
    OBVIOUS
  <2> QED
    BY <2>1, <2>2, BoolIsValue
<1>4. CASE op \in Print1
  BY <1>4, OpKinds, Zenon DEF InterpretPrim1
<1> QED
  BY <1>1, <1>2, <1>3, <1>4 DEF Prim1Ops

\* An operation on two numbers, or the error about the first that is not one.
LEMMA NumbersFit ==
    ASSUME NEW who, NEW v1 \in Values, NEW v2 \in Values, NEW r,
           v1.n \in Int /\ v2.n \in Int => r \in Values \/ IsErr(r)
    PROVE  LET x == Numbers(who, v1, v2, r) IN x \in Values \/ IsErr(x)
<1>1. CASE v1.t = "Num" /\ v2.t = "Num"
  BY <1>1, ValueKinds DEF Numbers
<1>2. CASE ~(v1.t = "Num" /\ v2.t = "Num")
  BY <1>2 DEF Numbers, ExpectedNum, IsErr
<1> QED
  BY <1>1, <1>2

\* The same of Booleans.
LEMMA BooleansFit ==
    ASSUME NEW who, NEW v1 \in Values, NEW v2 \in Values, NEW r,
           r \in Values
    PROVE  LET x == Booleans(who, v1, v2, r) IN x \in Values \/ IsErr(x)
<1>1. CASE v1.t = "Bool" /\ v2.t = "Bool"
  BY <1>1 DEF Booleans
<1>2. CASE ~(v1.t = "Bool" /\ v2.t = "Bool")
  BY <1>2 DEF Booleans, ExpectedBool, IsErr
<1> QED
  BY <1>1, <1>2

\* A comparison of numbers is true or false.
LEMMA CompareIsBoolean ==
    ASSUME NEW op \in Cmp2, NEW n1 \in Int, NEW n2 \in Int
    PROVE  Compare(op, n1, n2) \in BOOLEAN
<1>1. \A c \in {n1 < n2, n1 <= n2, n1 > n2, n1 >= n2} : c \in BOOLEAN
  <2>1. (n1 < n2) \in BOOLEAN /\ (n1 <= n2) \in BOOLEAN
    BY SMT
  <2>2. (n1 > n2) \in BOOLEAN /\ (n1 >= n2) \in BOOLEAN
    BY SMT
  <2> QED
    BY <2>1, <2>2, Zenon
<1>2. Compare(op, n1, n2) \in {n1 < n2, n1 <= n2, n1 > n2, n1 >= n2}
  BY Zenon DEF Compare, Cmp2
<1> QED
  BY <1>1, <1>2, Zenon

\* A binary operation on values gives a value or an error.
LEMMA Prim2Fits ==
    ASSUME NEW op \in Prim2Ops, NEW v1 \in Values, NEW v2 \in Values
    PROVE  InterpretPrim2(op, v1, v2) \in Values \/ IsErr(InterpretPrim2(op, v1, v2))
<1>1. CASE op \in Arith2
  <2>1. InterpretPrim2(op, v1, v2)
            = Numbers("arithmetic", v1, v2, Bounded(Exact(op, v1.n, v2.n)))
    BY <1>1, OpKinds, Zenon DEF InterpretPrim2
  <2>2. ASSUME v1.n \in Int, v2.n \in Int PROVE Exact(op, v1.n, v2.n) \in Int
    BY <1>1, <2>2 DEF Exact, Arith2
  <2> QED
    BY <2>1, <2>2, BoundedFits, NumbersFit
<1>2. CASE op \in Cmp2
  <2>1. InterpretPrim2(op, v1, v2)
            = Numbers("comparison", v1, v2, BoolV(Compare(op, v1.n, v2.n)))
    BY <1>2, OpKinds, Zenon DEF InterpretPrim2
  <2>2. ASSUME v1.n \in Int, v2.n \in Int PROVE Compare(op, v1.n, v2.n) \in BOOLEAN
    BY <1>2, <2>2, CompareIsBoolean
  <2> QED
    BY <2>1, <2>2, BoolIsValue, NumbersFit
<1>3. CASE op \in Log2
  <2>1. InterpretPrim2(op, v1, v2) = Booleans("logic", v1, v2, BoolV(Logic(op, v1.b, v2.b)))
    BY <1>3, OpKinds, Zenon DEF InterpretPrim2
  <2>2. CASE v1.t = "Bool" /\ v2.t = "Bool"
    <3>1. v1.b \in BOOLEAN /\ v2.b \in BOOLEAN
      BY <2>2, ValueKinds
    <3>2. Logic(op, v1.b, v2.b) \in BOOLEAN
      BY <3>1, Zenon DEF Logic
    <3> QED
      BY <2>1, <3>2, BoolIsValue, BooleansFit
  <2>3. CASE ~(v1.t = "Bool" /\ v2.t = "Bool")
    BY <2>1, <2>3 DEF Booleans, ExpectedBool, IsErr
  <2> QED
    BY <2>2, <2>3
<1>4. CASE op \in Eq2
  <2>1. \/ InterpretPrim2(op, v1, v2) = BoolV(v1 = v2)
        \/ InterpretPrim2(op, v1, v2) = BoolV(v1 # v2)
    BY <1>4, OpKinds, Zenon DEF InterpretPrim2
  <2>2. (v1 = v2) \in BOOLEAN /\ (v1 # v2) \in BOOLEAN
    OBVIOUS
  <2> QED
    BY <2>1, <2>2, BoolIsValue
<1> QED
  BY <1>1, <1>2, <1>3, <1>4 DEF Prim2Ops

-----------------------------------------------------------------------------
(* Lemmas about environments and what was accepted.                         *)

\* Binding a variable to a value.
LEMMA ExtendOK ==
    ASSUME NEW env, NEW x, NEW v \in Values, EnvOK(env)
    PROVE  EnvOK(Extend(env, x, v)) /\ DOMAIN Extend(env, x, v) = DOMAIN env \cup {x}
BY DEF EnvOK, Extend

\* An accepted expression has the shape that check_exp looked at.
LEMMA ShapeOf ==
    ASSUME NEW p, NEW e, NEW env, AcceptedIn(p, e, env)
    PROVE  AcceptedShape(e, DOMAIN env, Arities(p))
<1> DEFINE j == <<e, DOMAIN env, Arities(p)>>
<1>1. j \in Accepted
  BY DEF AcceptedIn
<1>2. AcceptedShape(j[1], j[2], j[3])
  BY <1>1, AcceptedAssumption
<1>3. j[1] = e /\ j[2] = DOMAIN env /\ j[3] = Arities(p)
  OBVIOUS
<1> HIDE DEF j
<1> QED
  BY <1>2, <1>3

\* After the last binding, the body is what is left.
LEMMA LetWithout ==
    ASSUME NEW b, NEW body, NEW S, NEW fs, LetAccepted(b, body, S, fs), b = <<>>
    PROVE  <<body, S, fs>> \in Accepted
<1>1. Len(b) = 0
  BY EmptySeq
<1>2. 1 .. Len(b) = {}
  BY <1>1
<1>3. ScopeAfter(b, S, Len(b)) = S
  BY <1>2 DEF ScopeAfter
<1> QED
  BY <1>3 DEF LetAccepted

\* The first binding in the scope of the let, and the others in one more variable.
LEMMA LetFirst ==
    ASSUME NEW b, NEW body, NEW S, NEW fs, LetAccepted(b, body, S, fs), b # <<>>
    PROVE  /\ <<Head(b).e, S, fs>> \in Accepted
           /\ LetAccepted(Tail(b), body, S \cup {Head(b).var}, fs)
<1> DEFINE T == Tail(b)
           S1 == S \cup {Head(b).var}
<1>1. IsSeq(b)
  BY DEF LetAccepted
<1>2. /\ Len(b) \in Nat /\ Len(b) >= 1 /\ DOMAIN b = 1 .. Len(b)
      /\ IsSeq(T) /\ Len(T) = Len(b) - 1
      /\ Head(b) = b[1]
      /\ \A i \in DOMAIN T : i + 1 \in DOMAIN b /\ T[i] = b[i + 1]
  BY <1>1, TailOfVector, IsSeqDomain
<1>3. DOMAIN T = 1 .. Len(b) - 1
  BY <1>2, IsSeqDomain
<1> HIDE DEF T
<1>4. ASSUME NEW i \in 0 .. Len(b) - 1
      PROVE  ScopeAfter(T, S1, i) = ScopeAfter(b, S, i + 1)
  <2>1. ASSUME NEW x \in ScopeAfter(T, S1, i) PROVE x \in ScopeAfter(b, S, i + 1)
    <3>1. CASE x \in S1
      <4>1. 1 \in 1 .. (i + 1)
        BY <1>4
      <4> QED
        BY <1>2, <3>1, <4>1 DEF ScopeAfter
    <3>2. CASE \E j \in 1 .. i : x = T[j].var
      <4>1. PICK j \in 1 .. i : x = T[j].var
        BY <3>2
      <4>2. j \in DOMAIN T /\ j + 1 \in 1 .. (i + 1)
        BY <1>2, <1>3, <1>4, <4>1
      <4>3. x = b[j + 1].var
        BY <1>2, <4>1, <4>2
      <4> QED
        BY <4>2, <4>3 DEF ScopeAfter
    <3> QED
      BY <2>1, <3>1, <3>2 DEF ScopeAfter
  <2>2. ASSUME NEW x \in ScopeAfter(b, S, i + 1) PROVE x \in ScopeAfter(T, S1, i)
    <3>1. CASE x \in S
      BY <3>1 DEF ScopeAfter
    <3>2. CASE \E j \in 1 .. (i + 1) : x = b[j].var
      <4>1. PICK j \in 1 .. (i + 1) : x = b[j].var
        BY <3>2
      <4>2. CASE j = 1
        BY <1>2, <4>1, <4>2 DEF ScopeAfter
      <4>3. CASE j # 1
        <5>1. j - 1 \in 1 .. i /\ j - 1 \in DOMAIN T /\ (j - 1) + 1 = j
          BY <1>2, <1>3, <1>4, <4>1, <4>3
        <5>2. x = T[j - 1].var
          BY <1>2, <4>1, <5>1
        <5> QED
          BY <5>1, <5>2 DEF ScopeAfter
      <4> QED
        BY <4>2, <4>3
    <3> QED
      BY <2>2, <3>1, <3>2 DEF ScopeAfter
  <2> QED
    BY <2>1, <2>2
<1>5. <<Head(b).e, S, fs>> \in Accepted
  <2>1. 1 \in DOMAIN b /\ 1 .. (1 - 1) = {}
    BY <1>2
  <2>2. ScopeAfter(b, S, 1 - 1) = S
    BY <2>1 DEF ScopeAfter
  <2> QED
    BY <1>2, <2>1, <2>2 DEF LetAccepted
<1>6. ASSUME NEW i \in DOMAIN T
      PROVE  <<T[i].e, ScopeAfter(T, S1, i - 1), fs>> \in Accepted
  <2>1. i + 1 \in DOMAIN b /\ T[i] = b[i + 1] /\ i - 1 \in 0 .. Len(b) - 1
    BY <1>2, <1>3, <1>6
  <2>2. ScopeAfter(T, S1, i - 1) = ScopeAfter(b, S, (i + 1) - 1)
    <3>1. (i - 1) + 1 = (i + 1) - 1
      BY <1>2, <1>3, <1>6
    <3> QED
      BY <1>4, <2>1, <3>1
  <2>3. <<b[i + 1].e, ScopeAfter(b, S, (i + 1) - 1), fs>> \in Accepted
    BY <2>1 DEF LetAccepted
  <2> QED
    BY <2>1, <2>2, <2>3
<1>7. <<body, ScopeAfter(T, S1, Len(T)), fs>> \in Accepted
  <2>1. Len(T) \in 0 .. Len(b) - 1 /\ Len(T) + 1 = Len(b)
    BY <1>2
  <2>2. ScopeAfter(T, S1, Len(T)) = ScopeAfter(b, S, Len(b))
    BY <1>4, <2>1
  <2> QED
    BY <2>2 DEF LetAccepted
<1>8. LetAccepted(T, body, S1, fs)
  BY <1>2, <1>6, <1>7 DEF LetAccepted
<1> QED
  BY <1>5, <1>8 DEF T

-----------------------------------------------------------------------------
(* Lemmas about calls.                                                      *)

\* A function that a program gives an arity is found, and takes that many.
LEMMA DeclFound ==
    ASSUME prog \in Programs, NEW f, NEW n, <<f, n>> \in Arities(prog)
    PROVE  /\ Declared(f)
           /\ Len(Decl(f).params) = n
           /\ \E i \in DOMAIN prog.funs : Decl(f) = prog.funs[i]
<1> DEFINE named == {i \in DOMAIN prog.funs : prog.funs[i].name = f}
<1>1. PICK i \in DOMAIN prog.funs : <<f, n>> = <<prog.funs[i].name, Len(prog.funs[i].params)>>
  BY DEF Arities
<1>2. /\ IsSeq(prog.funs)
      /\ \A k, j \in DOMAIN prog.funs : prog.funs[k].name = prog.funs[j].name => k = j
  BY ProgramsAssumption
<1>3. named = {i}
  BY <1>1, <1>2
<1>4. i \in Nat
  <2>1. DOMAIN prog.funs = 1 .. Len(prog.funs) /\ Len(prog.funs) \in Nat
    BY <1>2, IsSeqDomain
  <2>2. i \in 1 .. Len(prog.funs)
    BY <2>1
  <2> QED
    BY <2>1, <2>2
<1>5. (CHOOSE k \in named : \A j \in named : j <= k) = i
  BY <1>3, <1>4
<1>6. Decl(f) = prog.funs[i]
  BY <1>5 DEF Decl
<1> QED
  BY <1>1, <1>6 DEF Declared

\* A parameter is at one position.
LEMMA ParamFound ==
    ASSUME NEW params, IsSeq(params), NEW x \in {params[i] : i \in DOMAIN params},
           \A m, n \in DOMAIN params : params[m] = params[n] => m = n
    PROVE  ParamIndex(params, x) \in DOMAIN params
<1>1. PICK i \in DOMAIN params : params[i] = x
  OBVIOUS
<1>2. i \in Nat /\ \A j \in DOMAIN params : params[j] = x => j = i
  BY <1>1, IsSeqDomain
<1>3. params[i] = x /\ \A j \in DOMAIN params : params[j] = x => j <= i
  BY <1>1, <1>2
<1> QED
  BY <1>3, Zenon DEF ParamIndex

\* call() with as many arguments as the function takes does not panic, and
\* starts on its body in the scope of its parameters.
LEMMA EnterScoped ==
    ASSUME prog \in Programs, NEW f, NEW args \in Seq(Values),
           <<f, Len(args)>> \in Arities(prog)
    PROVE  CtlScoped(prog, Enter(f, args))
<1>1. PICK k \in DOMAIN prog.funs : Decl(f) = prog.funs[k]
  BY DeclFound
<1> DEFINE d == prog.funs[k]
           env == ParamEnv(d.params, args)
<1>2. Declared(f) /\ Len(d.params) = Len(args)
  BY <1>1, DeclFound
<1>3. Enter(f, args) = Descending(d.body, env)
  BY <1>1, <1>2 DEF Enter
<1>4. /\ IsSeq(d.params)
      /\ \A m, n \in DOMAIN d.params : d.params[m] = d.params[n] => m = n
      /\ <<d.body, ParamSet(d), Arities(prog)>> \in Accepted
  BY ProgramsAssumption
<1>5. DOMAIN env = ParamSet(d)
  BY DEF ParamEnv, ParamSet
<1>6. EnvOK(env)
  <2>1. ASSUME NEW x \in DOMAIN env PROVE env[x] \in Values
    <3>1. x \in {d.params[i] : i \in DOMAIN d.params}
      BY DEF ParamEnv
    <3>2. ParamIndex(d.params, x) \in DOMAIN d.params
      BY <1>4, <3>1, ParamFound
    <3>3. DOMAIN d.params = 1 .. Len(args)
      BY <1>2, <1>4, IsSeqDomain
    <3>4. args[ParamIndex(d.params, x)] \in Values
      BY <3>2, <3>3, ElementOfSeq
    <3> QED
      BY <3>1, <3>4 DEF ParamEnv
  <2> HIDE DEF env
  <2> QED
    BY <2>1 DEF EnvOK
<1> HIDE DEF env, d
<1>7. AcceptedIn(prog, d.body, env)
  BY <1>4, <1>5, <1>6 DEF AcceptedIn
<1> QED
  BY <1>3, <1>7 DEF CtlScoped, Descending

-----------------------------------------------------------------------------
(* The inductive invariant.                                                 *)

\* Every run starts with the body of an accepted program and no variable.
LEMMA InitScoped ==
    ASSUME Init
    PROVE  IInv
<1>1. prog \in Programs /\ DOMAIN EmptyEnv = {} /\ EnvOK(EmptyEnv)
  BY DEF Init, EmptyEnv, EnvOK
<1>2. <<prog.main, {}, Arities(prog)>> \in Accepted
  BY <1>1, ProgramsAssumption
<1>3. CtlScoped(prog, ctl)
  BY <1>1, <1>2 DEF Init, CtlScoped, Descending, AcceptedIn
<1>4. StackScoped(prog, <<>>)
  <2>1. IsSeq(<<>>)
    BY EmptySeq, SeqIsSeq
  <2>2. DOMAIN <<>> = {}
    BY <2>1, IsSeqDomain, EmptySeq
  <2> QED
    BY <2>1, <2>2 DEF StackScoped
<1>5. <<>> \in Seq(Values)
  BY EmptySeq
<1> QED
  BY <1>1, <1>3, <1>4, <1>5 DEF Init, IInv

\* What a frame of a let or of a call is waiting for.
LEMMA LetFrame ==
    ASSUME NEW p, NEW f, FrameScoped(p, f), f.fr = "Let"
    PROVE  /\ EnvOK(f.env)
           /\ LetAccepted(f.bindings, f.body, DOMAIN f.env \cup {f.var}, Arities(p))
BY DEF FrameScoped

\* The same of the frame of a call, whose arguments are partly evaluated.
LEMMA CallFrame ==
    ASSUME NEW p, NEW f, FrameScoped(p, f), f.fr = "Call"
    PROVE  /\ EnvOK(f.env)
           /\ f.evaled \in Seq(Values) /\ IsSeq(f.remaining)
           /\ \A i \in DOMAIN f.remaining : AcceptedIn(p, f.remaining[i], f.env)
           /\ <<f.f, Len(f.evaled) + 1 + Len(f.remaining)>> \in Arities(p)
BY DEF FrameScoped

\* Descending keeps the invariant: the parts of an accepted expression were
\* accepted in the same scope.
LEMMA DescendKeeps ==
    ASSUME IInv, Descend
    PROVE  IInv'
<1> DEFINE e == ctl.e
           env == ctl.env
<1>1. ctl.mode = "Descending"
  BY DEF Descend, At, DescendLiteral, DescendVar, DescendPrim1, DescendPrim2,
         DescendLet, DescendIf, DescendCall
<1>2. /\ prog \in Programs /\ prog' = prog
      /\ out \in Seq(Values) /\ out' = out
      /\ StackScoped(prog, stk)
  BY DEF IInv, Descend, DescendLiteral, DescendVar, DescendPrim1, DescendPrim2,
         DescendLet, DescendIf, DescendCall
<1>3. EnvOK(env) /\ AcceptedIn(prog, e, env)
  BY <1>1 DEF IInv, CtlScoped, AcceptedIn
<1>4. AcceptedShape(e, DOMAIN env, Arities(prog))
  BY <1>3, ShapeOf
<1> HIDE DEF e, env
<1>5. ASSUME NEW x, <<x, DOMAIN env, Arities(prog)>> \in Accepted
      PROVE  CtlScoped(prog, Descending(x, env))
  BY <1>3, <1>5 DEF CtlScoped, Descending, AcceptedIn
<1>6. ASSUME NEW v \in Values PROVE CtlScoped(prog, Returning(v))
  BY DEF CtlScoped, Returning
<1>7. CtlScoped(prog, ctl') /\ StackScoped(prog, stk')
  <2>1. CASE DescendLiteral
    <3>1. ctl' = Returning(IF e.exp = "Num" THEN NumV(e.n) ELSE BoolV(e.b)) /\ stk' = stk
      BY <2>1 DEF DescendLiteral, e
    <3>2. CASE e.exp = "Num"
      <4>1. NumV(e.n) \in Values
        BY <1>4, <3>2 DEF AcceptedShape, NumV, Values
      <4> QED
        BY <1>2, <1>6, <3>1, <3>2, <4>1
    <3>3. CASE e.exp = "Bool"
      <4>1. e.b \in BOOLEAN
        BY <1>4, <3>3 DEF AcceptedShape
      <4>2. BoolV(e.b) \in Values
        BY <4>1, BoolIsValue
      <4>3. ctl' = Returning(BoolV(e.b))
        BY <3>1, <3>3
      <4> QED
        BY <1>2, <1>6, <3>1, <4>2, <4>3
    <3> QED
      BY <2>1, <3>2, <3>3 DEF DescendLiteral, At, e
  <2>2. CASE DescendVar
    <3>1. e.exp = "Var" /\ stk' = stk
      BY <2>2 DEF DescendVar, At, e
    <3>2. e.x \in DOMAIN env
      BY <1>4, <3>1 DEF AcceptedShape
    <3>3. ctl' = Returning(env[e.x])
      BY <2>2, <3>2 DEF DescendVar, e, env
    <3>4. env[e.x] \in Values
      BY <1>3, <3>2 DEF EnvOK
    <3> QED
      BY <1>2, <1>6, <3>1, <3>3, <3>4
  <2>3. CASE DescendPrim1
    <3>1. /\ e.exp = "Prim1" /\ ctl' = Descending(e.e, env)
          /\ stk' = Append(stk, FPrim1(e.op))
      BY <2>3 DEF DescendPrim1, At, Push, e, env
    <3>2. e.op \in Prim1Ops /\ <<e.e, DOMAIN env, Arities(prog)>> \in Accepted
      BY <1>4, <3>1 DEF AcceptedShape
    <3>3. FrameScoped(prog, FPrim1(e.op))
      BY <3>2 DEF FrameScoped, FPrim1
    <3> QED
      BY <1>2, <1>5, <3>1, <3>2, <3>3, PushScoped
  <2>4. CASE DescendPrim2
    <3>1. /\ e.exp = "Prim2" /\ ctl' = Descending(e.e1, env)
          /\ stk' = Append(stk, FPrim2L(e.op, e.e2, env))
      BY <2>4 DEF DescendPrim2, At, Push, e, env
    <3>2. /\ e.op \in Prim2Ops
          /\ <<e.e1, DOMAIN env, Arities(prog)>> \in Accepted
          /\ <<e.e2, DOMAIN env, Arities(prog)>> \in Accepted
      BY <1>4, <3>1 DEF AcceptedShape
    <3>3. FrameScoped(prog, FPrim2L(e.op, e.e2, env))
      BY <1>3, <3>2 DEF FrameScoped, FPrim2L, AcceptedIn
    <3> QED
      BY <1>2, <1>5, <3>1, <3>2, <3>3, PushScoped
  <2>5. CASE DescendLet
    <3>1. e.exp = "Let"
      BY <2>5 DEF DescendLet, At, e
    <3>2. LetAccepted(e.bindings, e.body, DOMAIN env, Arities(prog))
      BY <1>4, <3>1 DEF AcceptedShape
    <3>3. CASE e.bindings = <<>>
      <4>1. ctl' = Descending(e.body, env) /\ stk' = stk
        BY <2>5, <3>3 DEF DescendLet, e, env
      <4>2. <<e.body, DOMAIN env, Arities(prog)>> \in Accepted
        BY <3>2, <3>3, LetWithout
      <4> QED
        BY <1>2, <1>5, <4>1, <4>2
    <3>4. CASE e.bindings # <<>>
      <4> DEFINE f == FLet(Head(e.bindings).var, env, Tail(e.bindings), e.body)
      <4>1. ctl' = Descending(Head(e.bindings).e, env) /\ stk' = Append(stk, f)
        BY <2>5, <3>4 DEF DescendLet, Push, e, env
      <4>2. /\ <<Head(e.bindings).e, DOMAIN env, Arities(prog)>> \in Accepted
            /\ LetAccepted(Tail(e.bindings), e.body,
                           DOMAIN env \cup {Head(e.bindings).var}, Arities(prog))
        BY <3>2, <3>4, LetFirst
      <4>3. FrameScoped(prog, f)
        BY <1>3, <4>2 DEF FrameScoped, FLet
      <4> HIDE DEF f
      <4> QED
        BY <1>2, <1>5, <4>1, <4>2, <4>3, PushScoped
    <3> QED
      BY <3>3, <3>4
  <2>6. CASE DescendIf
    <3>1. /\ e.exp = "If" /\ ctl' = Descending(e.cond, env)
          /\ stk' = Append(stk, FIf(e.thn, e.els, env))
      BY <2>6 DEF DescendIf, At, Push, e, env
    <3>2. /\ <<e.cond, DOMAIN env, Arities(prog)>> \in Accepted
          /\ <<e.thn, DOMAIN env, Arities(prog)>> \in Accepted
          /\ <<e.els, DOMAIN env, Arities(prog)>> \in Accepted
      BY <1>4, <3>1 DEF AcceptedShape
    <3>3. FrameScoped(prog, FIf(e.thn, e.els, env))
      BY <1>3, <3>2 DEF FrameScoped, FIf, AcceptedIn
    <3> QED
      BY <1>2, <1>5, <3>1, <3>2, <3>3, PushScoped
  <2>7. CASE DescendCall
    <3>1. e.exp = "Call"
      BY <2>7 DEF DescendCall, At, e
    <3>2. /\ IsSeq(e.args) /\ <<e.f, Len(e.args)>> \in Arities(prog)
          /\ \A i \in DOMAIN e.args : <<e.args[i], DOMAIN env, Arities(prog)>> \in Accepted
      BY <1>4, <3>1 DEF AcceptedShape
    <3>3. CASE e.args = <<>>
      <4>1. ctl' = Enter(e.f, <<>>) /\ stk' = stk
        BY <2>7, <3>3 DEF DescendCall, e, env
      <4>2. <<>> \in Seq(Values) /\ <<e.f, Len(<<>>)>> \in Arities(prog)
        BY <3>2, <3>3, EmptySeq
      <4> QED
        BY <1>2, <4>1, <4>2, EnterScoped
    <3>4. CASE e.args # <<>>
      <4> DEFINE f == FCall(e.f, <<>>, env, Tail(e.args))
      <4>1. ctl' = Descending(Head(e.args), env) /\ stk' = Append(stk, f)
        BY <2>7, <3>4 DEF DescendCall, Push, e, env
      <4>2. /\ IsSeq(Tail(e.args)) /\ Len(e.args) \in Nat /\ Len(e.args) >= 1
            /\ Len(Tail(e.args)) = Len(e.args) - 1 /\ Head(e.args) = e.args[1]
            /\ \A i \in DOMAIN Tail(e.args) :
                  i + 1 \in DOMAIN e.args /\ Tail(e.args)[i] = e.args[i + 1]
            /\ 1 \in DOMAIN e.args
        BY <3>2, <3>4, TailOfVector, IsSeqDomain
      <4>3. \A i \in DOMAIN Tail(e.args) : AcceptedIn(prog, Tail(e.args)[i], env)
        BY <1>3, <3>2, <4>2 DEF AcceptedIn
      <4>4. <<>> \in Seq(Values) /\ Len(<<>>) + 1 + Len(Tail(e.args)) = Len(e.args)
        BY <4>2, EmptySeq
      <4>5. FrameScoped(prog, f)
        BY <1>3, <3>2, <4>2, <4>3, <4>4 DEF FrameScoped, FCall
      <4>6. <<Head(e.args), DOMAIN env, Arities(prog)>> \in Accepted
        BY <3>2, <4>2
      <4> HIDE DEF f
      <4> QED
        BY <1>2, <1>5, <4>1, <4>5, <4>6, PushScoped
    <3> QED
      BY <3>3, <3>4
  <2> QED
    BY <2>1, <2>2, <2>3, <2>4, <2>5, <2>6, <2>7 DEF Descend
<1> QED
  BY <1>2, <1>7 DEF IInv

\* Returning keeps the invariant: a frame that is popped or replaced kept an
\* environment in which what it goes on with was accepted.
LEMMA ReturnKeeps ==
    ASSUME IInv, Return
    PROVE  IInv'
<1> DEFINE v == ctl.v
<1>1. ctl.mode = "Returning"
  BY DEF Return, To, ReturnDone, ReturnPrim1, ReturnPrim2L, ReturnPrim2R,
         ReturnLet, ReturnIf, ReturnCall
<1>2. /\ prog \in Programs /\ prog' = prog
      /\ out \in Seq(Values)
      /\ StackScoped(prog, stk)
      /\ v \in Values
  BY <1>1 DEF IInv, CtlScoped, Return, ReturnDone, ReturnPrim1, ReturnPrim2L,
              ReturnPrim2R, ReturnLet, ReturnIf, ReturnCall
<1>3. ASSUME NEW kind, To(kind)
      PROVE  Top.fr = kind /\ FrameScoped(prog, Top) /\ StackScoped(prog, Below)
  BY <1>2, <1>3, PopScoped DEF To, Top, Below
<1> HIDE DEF v
<1>4. ASSUME NEW x, NEW env, EnvOK(env), <<x, DOMAIN env, Arities(prog)>> \in Accepted
      PROVE  CtlScoped(prog, Descending(x, env))
  BY <1>4 DEF CtlScoped, Descending, AcceptedIn
<1>5. ASSUME NEW r, r \in Values \/ IsErr(r)
      PROVE  CtlScoped(prog, Finished(r)) /\ CtlScoped(prog, Outcome(r))
  BY <1>5 DEF CtlScoped, Finished, Returning, Outcome
<1>6. CtlScoped(prog, ctl') /\ StackScoped(prog, stk') /\ out' \in Seq(Values)
  <2>1. CASE ReturnDone
    <3>1. ctl' = Finished(v) /\ stk' = stk /\ out' = out
      BY <2>1 DEF ReturnDone, v
    <3> QED
      BY <1>2, <1>5, <3>1
  <2>2. CASE ReturnPrim1
    <3>1. To("Prim1") /\ stk' = Below
      BY <2>2 DEF ReturnPrim1, Pop
    <3>2. Top.op \in Prim1Ops /\ StackScoped(prog, Below)
      BY <1>3, <3>1 DEF FrameScoped
    <3>3. CASE /\ ctl' = Outcome(InterpretPrim1(Top.op, v))
               /\ out' = IF Top.op \in Print1 THEN Append(out, v) ELSE out
      <4>1. CtlScoped(prog, ctl')
        BY <1>2, <1>5, <3>2, <3>3, Prim1Fits
      <4>2. out' \in Seq(Values)
        BY <1>2, <3>3, AppendProperties
      <4> QED
        BY <3>1, <3>2, <4>1, <4>2
    <3>4. CASE ctl' = Finished(WriteErr) /\ out' = out
      <4>1. IsErr(WriteErr)
        BY DEF IsErr, WriteErr
      <4> QED
        BY <1>2, <1>5, <3>1, <3>2, <3>4, <4>1
    <3> QED
      BY <2>2, <3>3, <3>4 DEF ReturnPrim1, v
  <2>3. CASE ReturnPrim2L
    <3>1. /\ To("Prim2L") /\ ctl' = Descending(Top.e, Top.env)
          /\ stk' = Append(Below, FPrim2R(Top.op, v)) /\ out' = out
      BY <2>3 DEF ReturnPrim2L, Replace, v
    <3>2. /\ Top.op \in Prim2Ops /\ AcceptedIn(prog, Top.e, Top.env)
          /\ StackScoped(prog, Below)
      BY <1>3, <3>1 DEF FrameScoped
    <3>3. FrameScoped(prog, FPrim2R(Top.op, v))
      BY <1>2, <3>2 DEF FrameScoped, FPrim2R
    <3>4. CtlScoped(prog, ctl')
      BY <1>4, <3>1, <3>2 DEF AcceptedIn
    <3> QED
      BY <1>2, <3>1, <3>2, <3>3, <3>4, PushScoped
  <2>4. CASE ReturnPrim2R
    <3>1. /\ To("Prim2R") /\ ctl' = Outcome(InterpretPrim2(Top.op, Top.v, v))
          /\ stk' = Below /\ out' = out
      BY <2>4 DEF ReturnPrim2R, Pop, v
    <3>2. Top.op \in Prim2Ops /\ Top.v \in Values /\ StackScoped(prog, Below)
      BY <1>3, <3>1 DEF FrameScoped
    <3>3. CtlScoped(prog, ctl')
      BY <1>2, <1>5, <3>1, <3>2, Prim2Fits
    <3> QED
      BY <1>2, <3>1, <3>2, <3>3
  <2>5. CASE ReturnLet
    <3> DEFINE env == Extend(Top.env, Top.var, v)
    <3>1. To("Let") /\ out' = out
      BY <2>5 DEF ReturnLet
    <3>2. /\ EnvOK(Top.env) /\ StackScoped(prog, Below)
          /\ LetAccepted(Top.bindings, Top.body, DOMAIN Top.env \cup {Top.var}, Arities(prog))
      BY <1>3, <3>1, LetFrame
    <3>3. EnvOK(env) /\ DOMAIN env = DOMAIN Top.env \cup {Top.var}
      BY <1>2, <3>2, ExtendOK
    <3>4. CASE Top.bindings = <<>>
      <4>1. ctl' = Descending(Top.body, env) /\ stk' = Below
        BY <2>5, <3>4 DEF ReturnLet, Pop, v
      <4>2. <<Top.body, DOMAIN env, Arities(prog)>> \in Accepted
        BY <3>2, <3>3, <3>4, LetWithout
      <4> HIDE DEF env
      <4> QED
        BY <1>2, <1>4, <3>1, <3>2, <3>3, <4>1, <4>2
    <3>5. CASE Top.bindings # <<>>
      <4> DEFINE f == FLet(Head(Top.bindings).var, env, Tail(Top.bindings), Top.body)
      <4>1. ctl' = Descending(Head(Top.bindings).e, env) /\ stk' = Append(Below, f)
        BY <2>5, <3>5 DEF ReturnLet, Replace, v
      <4> HIDE DEF env
      <4>2. /\ <<Head(Top.bindings).e, DOMAIN env, Arities(prog)>> \in Accepted
            /\ LetAccepted(Tail(Top.bindings), Top.body,
                           DOMAIN env \cup {Head(Top.bindings).var}, Arities(prog))
        BY <3>2, <3>3, <3>5, LetFirst
      <4>3. FrameScoped(prog, f)
        BY <3>3, <4>2 DEF FrameScoped, FLet
      <4> HIDE DEF f
      <4> QED
        BY <1>2, <1>4, <3>1, <3>2, <3>3, <4>1, <4>2, <4>3, PushScoped
    <3> QED
      BY <3>4, <3>5
  <2>6. CASE ReturnIf
    <3>1. To("If") /\ stk' = Below /\ out' = out
      BY <2>6 DEF ReturnIf, Pop
    <3>2. /\ AcceptedIn(prog, Top.thn, Top.env) /\ AcceptedIn(prog, Top.els, Top.env)
          /\ StackScoped(prog, Below)
      BY <1>3, <3>1 DEF FrameScoped
    <3>3. CASE v.t = "Bool"
      <4>1. ctl' = Descending(Top.thn, Top.env) \/ ctl' = Descending(Top.els, Top.env)
        BY <2>6, <3>3 DEF ReturnIf, v
      <4> QED
        BY <1>2, <1>4, <3>1, <3>2, <4>1 DEF AcceptedIn
    <3>4. CASE v.t # "Bool"
      <4>1. ctl' = Finished(ExpectedBool("if", v))
        BY <2>6, <3>4 DEF ReturnIf, v
      <4>2. IsErr(ExpectedBool("if", v))
        BY DEF IsErr, ExpectedBool
      <4> QED
        BY <1>2, <1>5, <3>1, <3>2, <4>1, <4>2
    <3> QED
      BY <3>3, <3>4
  <2>7. CASE ReturnCall
    <3> DEFINE evaled == Append(Top.evaled, v)
    <3>1. To("Call") /\ out' = out
      BY <2>7 DEF ReturnCall
    <3>2. /\ EnvOK(Top.env) /\ StackScoped(prog, Below)
          /\ Top.evaled \in Seq(Values) /\ IsSeq(Top.remaining)
          /\ \A i \in DOMAIN Top.remaining : AcceptedIn(prog, Top.remaining[i], Top.env)
          /\ <<Top.f, Len(Top.evaled) + 1 + Len(Top.remaining)>> \in Arities(prog)
      BY <1>3, <3>1, CallFrame
    <3>3. /\ evaled \in Seq(Values) /\ Len(evaled) = Len(Top.evaled) + 1
          /\ Len(evaled) \in Nat /\ Len(Top.remaining) \in Nat
      BY <1>2, <3>2, AppendProperties, LenProperties, IsSeqDomain
    <3>4. CASE Top.remaining = <<>>
      <4>1. ctl' = Enter(Top.f, evaled) /\ stk' = Below
        BY <2>7, <3>4 DEF ReturnCall, Pop, v
      <4> HIDE DEF evaled
      <4>2. <<Top.f, Len(evaled)>> \in Arities(prog)
        <5>1. Len(Top.remaining) = 0
          BY <3>4, EmptySeq
        <5>2. Len(Top.evaled) + 1 + Len(Top.remaining) = Len(evaled)
          BY <3>3, <5>1
        <5> QED
          BY <3>2, <5>2
      <4>3. CtlScoped(prog, Enter(Top.f, evaled))
        BY <1>2, <3>3, <4>2, EnterScoped
      <4> QED
        BY <1>2, <3>1, <3>2, <4>1, <4>3
    <3>5. CASE Top.remaining # <<>>
      <4> DEFINE f == FCall(Top.f, evaled, Top.env, Tail(Top.remaining))
      <4>1. ctl' = Descending(Head(Top.remaining), Top.env) /\ stk' = Append(Below, f)
        BY <2>7, <3>5 DEF ReturnCall, Replace, v
      <4> HIDE DEF evaled
      <4>2. /\ IsSeq(Tail(Top.remaining)) /\ Len(Top.remaining) >= 1
            /\ Len(Tail(Top.remaining)) = Len(Top.remaining) - 1
            /\ Head(Top.remaining) = Top.remaining[1]
            /\ \A i \in DOMAIN Tail(Top.remaining) :
                  i + 1 \in DOMAIN Top.remaining
                  /\ Tail(Top.remaining)[i] = Top.remaining[i + 1]
            /\ 1 \in DOMAIN Top.remaining
        BY <3>2, <3>5, TailOfVector, IsSeqDomain
      <4>3. \A i \in DOMAIN Tail(Top.remaining) :
               AcceptedIn(prog, Tail(Top.remaining)[i], Top.env)
        BY <3>2, <4>2
      <4>4. Len(evaled) + 1 + Len(Tail(Top.remaining))
               = Len(Top.evaled) + 1 + Len(Top.remaining)
        <5> DEFINE a == Len(Top.evaled)
                   m == Len(Top.remaining)
        <5>1. a \in Nat /\ m \in Nat
          BY <3>2, <3>3, LenProperties
        <5>2. Len(evaled) = a + 1 /\ Len(Tail(Top.remaining)) = m - 1
          BY <3>3, <4>2
        <5> HIDE DEF a, m
        <5>3. (a + 1) + 1 + (m - 1) = a + 1 + m
          BY <5>1
        <5>4. Len(evaled) + 1 + Len(Tail(Top.remaining)) = a + 1 + m
          BY <5>2, <5>3
        <5> QED
          BY <5>4 DEF a, m
      <4>5. FrameScoped(prog, f)
        BY <3>2, <3>3, <4>2, <4>3, <4>4 DEF FrameScoped, FCall
      <4>6. AcceptedIn(prog, Head(Top.remaining), Top.env)
        BY <3>2, <4>2
      <4> HIDE DEF f
      <4> QED
        BY <1>2, <1>4, <3>1, <3>2, <4>1, <4>5, <4>6, PushScoped DEF AcceptedIn
    <3> QED
      BY <3>4, <3>5
  <2> QED
    BY <2>1, <2>2, <2>3, <2>4, <2>5, <2>6, <2>7 DEF Return
<1> QED
  BY <1>2, <1>6 DEF IInv

\* The invariant holds of every run, of every accepted program.
THEOREM Invariance ==
    Spec => []IInv
<1>1. Init => IInv
  BY InitScoped
<1>2. IInv /\ [Next]_vars => IInv'
  <2>1. SUFFICES ASSUME IInv, [Next]_vars PROVE IInv'
    OBVIOUS
  <2>2. CASE Descend
    BY <2>1, <2>2, DescendKeeps
  <2>3. CASE Return
    BY <2>1, <2>3, ReturnKeeps
  <2>4. CASE UNCHANGED vars
    BY <2>1, <2>4 DEF vars, IInv
  <2> QED
    BY <2>1, <2>2, <2>3, <2>4 DEF Next, Ended
<1> QED
  BY <1>1, <1>2, PTL DEF Spec

\* "You should catch this in the check function!" (interp.rs:324): the machine
\* panics on no program that check_prog accepts, whatever its functions and
\* literals: no unbound variable, no unknown function, no wrong arity.
THEOREM CheckedProgramsDoNotPanic ==
    Spec => []NoPanic
<1>1. IInv => NoPanic
  BY DEF IInv, CtlScoped, NoPanic
<1> QED
  BY <1>1, Invariance, PTL

\* Every value that the machine holds, in an environment, in a frame or in the
\* output, fits into 63 bits (interp.rs:8), whatever MaxInt is.
THEOREM ValuesAlwaysFit ==
    Spec => []ValuesFit
<1>1. IInv => ValuesFit
  <2>1. SUFFICES ASSUME IInv PROVE ValuesFit
    OBVIOUS
  <2>2. /\ ctl.mode = "Descending" => EnvOK(ctl.env)
        /\ ctl.mode = "Returning" => ctl.v \in Values
        /\ ctl.mode = "Finished" => ctl.r \in Values \/ IsErr(ctl.r)
    BY <2>1 DEF IInv, CtlScoped, AcceptedIn
  <2>3. ASSUME NEW i \in DOMAIN stk PROVE FrameOK(stk[i])
    <3>1. FrameScoped(prog, stk[i])
      BY <2>1 DEF IInv, StackScoped
    <3>2. ASSUME NEW s \in Seq(Values) PROVE \A k \in DOMAIN s : s[k] \in Values
      BY LenProperties
    <3> QED
      BY <3>1, <3>2 DEF FrameScoped, FrameOK, FrameKinds, AcceptedIn
  <2>4. \A i \in DOMAIN out : out[i] \in Values
    BY <2>1, LenProperties DEF IInv
  <2> QED
    BY <2>2, <2>3, <2>4 DEF ValuesFit
<1> QED
  BY <1>1, Invariance, PTL

-----------------------------------------------------------------------------
(* Expressions and frames in their place.                                   *)

\* The parts of an expression have room over a frame of it, or in its place.
LEMMA PlacedParts ==
    ASSUME NEW e, NEW scope, NEW fs, <<e, scope, fs>> \in Accepted,
           NEW k \in Nat, NEW n \in Nat, Placed(e, k, n)
    PROVE  /\ \A x \in Held(e) : Placed(x, k + 1, n) /\ k + 1 <= n
           /\ \A x \in InTail(e) : Placed(x, k, n)
           /\ e.exp = "Call" => k = 0
<1>1. /\ Depth(e) \in Nat
      /\ \A x \in Held(e) : Depth(x) \in Nat /\ 1 + Depth(x) <= Depth(e)
      /\ \A x \in InTail(e) : Depth(x) \in Nat /\ Depth(x) <= Depth(e)
      /\ NoCalls(e) => e.exp # "Call" /\ \A x \in Held(e) \cup InTail(e) : NoCalls(x)
      /\ TailOnly(e) => /\ \A x \in Held(e) : NoCalls(x)
                        /\ \A x \in InTail(e) : TailOnly(x)
  <2> DEFINE j == <<e, scope, fs>>
  <2>1. j \in Accepted /\ j[1] = e
    OBVIOUS
  <2> HIDE DEF j
  <2> QED
    BY <2>1, TailCallsAssumption, Zenon
<1>2. k + Depth(e) <= n /\ (IF k = 0 THEN TailOnly(e) ELSE NoCalls(e))
  BY DEF Placed
<1>3. ASSUME NEW x \in Held(e) PROVE Placed(x, k + 1, n) /\ k + 1 <= n
  <2>1. Depth(x) \in Nat /\ 1 + Depth(x) <= Depth(e) /\ NoCalls(x)
    BY <1>1, <1>2
  <2>2. k + 1 + Depth(x) <= n /\ k + 1 # 0 /\ k + 1 <= n
    BY <1>1, <1>2, <2>1
  <2> QED
    BY <2>1, <2>2 DEF Placed
<1>4. ASSUME NEW x \in InTail(e) PROVE Placed(x, k, n)
  <2>1. Depth(x) \in Nat /\ Depth(x) <= Depth(e)
    BY <1>1
  <2>2. k + Depth(x) <= n
    BY <1>1, <1>2, <2>1
  <2>3. IF k = 0 THEN TailOnly(x) ELSE NoCalls(x)
    BY <1>1, <1>2
  <2> QED
    BY <2>1, <2>2, <2>3 DEF Placed
<1> QED
  BY <1>1, <1>2, <1>3, <1>4

\* A frame that is pushed has its place.
LEMMA PushPlaced ==
    ASSUME NEW s, IsSeq(s), NEW n \in Nat, StackPlaced(s, n),
           NEW f, FramePlaced(f, Len(s) + 1, n), Len(s) + 1 <= n
    PROVE  StackPlaced(Append(s, f), n) /\ Len(Append(s, f)) = Len(s) + 1
<1>1. /\ Len(Append(s, f)) = Len(s) + 1
      /\ DOMAIN Append(s, f) = 1 .. Len(s) + 1
      /\ \A i \in 1 .. Len(s) : Append(s, f)[i] = s[i]
      /\ Append(s, f)[Len(s) + 1] = f
      /\ Len(s) \in Nat /\ DOMAIN s = 1 .. Len(s)
  BY PushedVector, IsSeqDomain
<1>2. ASSUME NEW i \in 1 .. Len(s) + 1 PROVE FramePlaced(Append(s, f)[i], i, n)
  <2>1. i \in 1 .. Len(s) \/ i = Len(s) + 1
    BY <1>1
  <2> QED
    BY <1>1, <2>1 DEF StackPlaced
<1> QED
  BY <1>1, <1>2 DEF StackPlaced

\* So do those below the one that is popped.
LEMMA PopPlaced ==
    ASSUME NEW s, IsSeq(s), s # <<>>, NEW n \in Nat, StackPlaced(s, n)
    PROVE  LET b == SubSeq(s, 1, Len(s) - 1)
           IN  /\ FramePlaced(s[Len(s)], Len(s), n)
               /\ StackPlaced(b, n) /\ IsSeq(b) /\ Len(b) = Len(s) - 1
               /\ Len(s) \in Nat \ {0} /\ Len(s) <= n
<1> DEFINE m == Len(s) - 1
           b == SubSeq(s, 1, m)
<1>1. Len(s) \in Nat /\ DOMAIN s = 1 .. Len(s) /\ Len(s) >= 1
  BY IsSeqDomain, VectorNotEmpty
<1>2. m \in 0 .. Len(s) /\ Len(s) \in DOMAIN s /\ \A i \in 1 .. m : i \in DOMAIN s
  BY <1>1
<1>3. m <= n /\ Len(s) <= n
  BY <1>1 DEF StackPlaced
<1> HIDE DEF m
<1>4. IsSeq(b) /\ Len(b) = m /\ DOMAIN b = 1 .. m /\ \A i \in 1 .. m : b[i] = s[i]
  BY <1>2, PrefixOfVector
<1>5. FramePlaced(s[Len(s)], Len(s), n)
  BY <1>2 DEF StackPlaced
<1> HIDE DEF b
<1>6. StackPlaced(b, n)
  BY <1>2, <1>3, <1>4 DEF StackPlaced
<1> QED
  BY <1>1, <1>3, <1>4, <1>5, <1>6 DEF b, m

\* The body of a function needs the frames it needs, and no more.
LEMMA BodyPlaced ==
    ASSUME prog \in Programs, OnlyTailCalls, NEW e \in Bodies(prog)
    PROVE  /\ Depth(e) \in Nat /\ Placed(e, 0, Depth(e))
           /\ StackPlaced(<<>>, Depth(e))
<1>1. \E scope, fs : <<e, scope, fs>> \in Accepted
  <2>1. CASE e = prog.main
    BY <2>1, ProgramsAssumption
  <2>2. CASE \E i \in DOMAIN prog.funs : e = prog.funs[i].body
    BY <2>2, ProgramsAssumption
  <2> QED
    BY <2>1, <2>2 DEF Bodies
<1>2. PICK scope, fs : <<e, scope, fs>> \in Accepted
  BY <1>1
<1>3. Depth(e) \in Nat
  <2> DEFINE j == <<e, scope, fs>>
  <2>1. j \in Accepted /\ j[1] = e
    BY <1>2
  <2> HIDE DEF j
  <2> QED
    BY <2>1, TailCallsAssumption, Zenon
<1>4. TailOnly(e)
  BY DEF OnlyTailCalls
<1>5. Placed(e, 0, Depth(e))
  BY <1>3, <1>4 DEF Placed
<1>6. Len(<<>>) = 0 /\ DOMAIN <<>> = {}
  OBVIOUS
<1> QED
  BY <1>3, <1>5, <1>6 DEF StackPlaced

\* A call over no frame at all starts on the body of a function.
LEMMA EnterPlaced ==
    ASSUME prog \in Programs, OnlyTailCalls, NEW f, NEW args
    PROVE  \E e \in Bodies(prog) : /\ StackPlaced(<<>>, Depth(e))
                                   /\ CtlPlaced(Enter(f, args), 0, Depth(e))
<1>1. CASE Declared(f) /\ Len(Decl(f).params) = Len(args)
  <2>1. PICK i \in DOMAIN prog.funs : prog.funs[i].name = f
    BY <1>1 DEF Declared
  <2>2. <<f, Len(prog.funs[i].params)>> \in Arities(prog)
    BY <2>1 DEF Arities
  <2>3. PICK k \in DOMAIN prog.funs : Decl(f) = prog.funs[k]
    BY <2>2, DeclFound
  <2>4. Decl(f).body \in Bodies(prog)
    BY <2>3 DEF Bodies
  <2>5. Enter(f, args).e = Decl(f).body
    BY <1>1 DEF Enter, Descending
  <2> QED
    BY <2>4, <2>5, BodyPlaced DEF CtlPlaced
<1>2. CASE ~(Declared(f) /\ Len(Decl(f).params) = Len(args))
  <2>1. Enter(f, args) = Panicked
    BY <1>2 DEF Enter
  <2>2. prog.main \in Bodies(prog)
    BY DEF Bodies
  <2> QED
    BY <2>1, <2>2, BodyPlaced DEF CtlPlaced, Panicked
<1> QED
  BY <1>1, <1>2

\* The first of some parts, and the others.
LEMMA HeadAndTail ==
    ASSUME NEW s, IsSeq(s), s # <<>>
    PROVE  /\ 1 \in DOMAIN s /\ Head(s) = s[1]
           /\ \A i \in DOMAIN Tail(s) : i + 1 \in DOMAIN s /\ Tail(s)[i] = s[i + 1]
<1>1. DOMAIN s = 1 .. Len(s) /\ Len(s) \in Nat /\ Len(s) >= 1
  BY IsSeqDomain, VectorNotEmpty
<1>2. 1 \in DOMAIN s
  BY <1>1
<1> QED
  BY <1>2, TailOfVector

-----------------------------------------------------------------------------
(* The inductive invariant.                                                 *)

\* At first the machine is in the main expression, with no frame.
LEMMA InitTail == Init => TailIInv
<1> SUFFICES ASSUME Init, OnlyTailCalls
             PROVE  \E e \in Bodies(prog) :
                       StackPlaced(stk, Depth(e)) /\ CtlPlaced(ctl, Len(stk), Depth(e))
  BY DEF TailIInv
<1>1. prog \in Programs /\ stk = <<>> /\ Len(stk) = 0 /\ ctl.e = prog.main
  BY DEF Init, Descending
<1>2. prog.main \in Bodies(prog)
  BY DEF Bodies
<1> QED
  BY <1>1, <1>2, BodyPlaced DEF CtlPlaced

\* Descending pushes a frame under each part that is held, and none under the
\* others.
LEMMA DescendTail ==
    ASSUME IInv, OnlyTailCalls, TailIInv, Descend
    PROVE  \E e \in Bodies(prog) :
              StackPlaced(stk', Depth(e)) /\ CtlPlaced(ctl', Len(stk'), Depth(e))
<1>1. PICK b \in Bodies(prog) :
         StackPlaced(stk, Depth(b)) /\ CtlPlaced(ctl, Len(stk), Depth(b))
  BY DEF TailIInv
<1> DEFINE e == ctl.e
           env == ctl.env
           k == Len(stk)
           n == Depth(b)
           Kept == StackPlaced(stk', n) /\ CtlPlaced(ctl', Len(stk'), n)
<1>2. ctl.mode = "Descending"
  BY DEF Descend, At, DescendLiteral, DescendVar, DescendPrim1, DescendPrim2,
         DescendLet, DescendIf, DescendCall
<1>3. prog \in Programs /\ IsSeq(stk) /\ k \in Nat /\ n \in Nat
  BY BodyPlaced, IsSeqDomain DEF IInv, StackScoped
<1>4. AcceptedIn(prog, e, env)
  BY <1>2 DEF IInv, CtlScoped
<1>5. AcceptedShape(e, DOMAIN env, Arities(prog)) /\ <<e, DOMAIN env, Arities(prog)>> \in Accepted
  BY <1>4, ShapeOf DEF AcceptedIn
<1>6. StackPlaced(stk, n) /\ Placed(e, k, n)
  BY <1>1, <1>2 DEF CtlPlaced
<1> HIDE DEF e, env, k, n
<1>7. /\ \A x \in Held(e) : Placed(x, k + 1, n) /\ k + 1 <= n
      /\ \A x \in InTail(e) : Placed(x, k, n)
      /\ e.exp = "Call" => k = 0
  BY <1>3, <1>5, <1>6, PlacedParts
<1>8. ASSUME NEW x \in Held(e), NEW f, FramePlaced(f, k + 1, n),
             ctl' = Descending(x, env), stk' = Append(stk, f)
      PROVE  Kept
  <2>1. StackPlaced(stk', n) /\ Len(stk') = k + 1
    BY <1>3, <1>6, <1>7, <1>8, PushPlaced DEF k
  <2> QED
    BY <1>7, <1>8, <2>1 DEF CtlPlaced, Descending
<1>9. CASE DescendLiteral \/ DescendVar
  <2>1. stk' = stk /\ (ctl' = Panicked \/ \E v : ctl' = Returning(v))
    BY <1>9 DEF DescendLiteral, DescendVar
  <2> QED
    BY <1>1, <2>1 DEF n, CtlPlaced, Panicked, Returning
<1>10. CASE DescendPrim1
  <2>1. e.exp = "Prim1" /\ ctl' = Descending(e.e, env) /\ stk' = Append(stk, FPrim1(e.op))
    BY <1>10 DEF DescendPrim1, At, Push, e, env
  <2>2. e.e \in Held(e)
    BY <2>1 DEF Held
  <2>3. FramePlaced(FPrim1(e.op), k + 1, n)
    BY DEF FramePlaced, FPrim1
  <2> QED
    BY <1>8, <2>1, <2>2, <2>3 DEF n
<1>11. CASE DescendPrim2
  <2>1. /\ e.exp = "Prim2" /\ ctl' = Descending(e.e1, env)
        /\ stk' = Append(stk, FPrim2L(e.op, e.e2, env))
    BY <1>11 DEF DescendPrim2, At, Push, e, env
  <2>2. e.e1 \in Held(e) /\ e.e2 \in Held(e)
    BY <2>1 DEF Held
  <2>3. FramePlaced(FPrim2L(e.op, e.e2, env), k + 1, n)
    BY <1>7, <2>2 DEF FramePlaced, FPrim2L
  <2> QED
    BY <1>8, <2>1, <2>2, <2>3 DEF n
<1>12. CASE DescendIf
  <2>1. /\ e.exp = "If" /\ ctl' = Descending(e.cond, env)
        /\ stk' = Append(stk, FIf(e.thn, e.els, env))
    BY <1>12 DEF DescendIf, At, Push, e, env
  <2>2. e.cond \in Held(e) /\ e.thn \in InTail(e) /\ e.els \in InTail(e)
    BY <2>1 DEF Held, InTail
  <2>3. Placed(e.thn, (k + 1) - 1, n) /\ Placed(e.els, (k + 1) - 1, n)
    <3>1. (k + 1) - 1 = k
      BY <1>3
    <3> QED
      BY <1>7, <2>2, <3>1
  <2>4. FramePlaced(FIf(e.thn, e.els, env), k + 1, n)
    BY <2>3 DEF FramePlaced, FIf
  <2> QED
    BY <1>8, <2>1, <2>2, <2>4 DEF n
<1>13. CASE DescendLet
  <2>1. e.exp = "Let"
    BY <1>13 DEF DescendLet, At, e
  <2>2. IsSeq(e.bindings)
    BY <1>5, <2>1 DEF AcceptedShape, LetAccepted
  <2>3. e.body \in InTail(e) /\ \A i \in DOMAIN e.bindings : e.bindings[i].e \in Held(e)
    BY <2>1 DEF Held, InTail
  <2>4. CASE e.bindings = <<>>
    <3>1. ctl' = Descending(e.body, env) /\ stk' = stk
      BY <1>13, <2>4 DEF DescendLet, e, env
    <3> QED
      BY <1>1, <1>7, <2>3, <3>1 DEF n, k, CtlPlaced, Descending
  <2>5. CASE e.bindings # <<>>
    <3> DEFINE f == FLet(Head(e.bindings).var, env, Tail(e.bindings), e.body)
    <3>1. ctl' = Descending(Head(e.bindings).e, env) /\ stk' = Append(stk, f)
      BY <1>13, <2>5 DEF DescendLet, Push, e, env
    <3>2. /\ Head(e.bindings).e \in Held(e)
          /\ \A i \in DOMAIN Tail(e.bindings) : Tail(e.bindings)[i].e \in Held(e)
      BY <2>2, <2>3, <2>5, HeadAndTail
    <3>3. Placed(e.body, (k + 1) - 1, n)
      <4>1. (k + 1) - 1 = k
        BY <1>3
      <4> QED
        BY <1>7, <2>3, <4>1
    <3>4. FramePlaced(f, k + 1, n)
      <4>1. f.fr = "Let" /\ f.bindings = Tail(e.bindings) /\ f.body = e.body
        BY DEF FLet
      <4>2. \A i \in DOMAIN f.bindings : Placed(f.bindings[i].e, k + 1, n)
        BY <1>7, <3>2, <4>1
      <4>3. Placed(f.body, (k + 1) - 1, n)
        BY <3>3, <4>1
      <4> HIDE DEF f
      <4> QED
        BY <4>1, <4>2, <4>3 DEF FramePlaced
    <3> HIDE DEF f
    <3> QED
      BY <1>8, <3>1, <3>2, <3>4 DEF n
  <2> QED
    BY <2>4, <2>5
<1>14. CASE DescendCall
  <2>1. e.exp = "Call" /\ k = 0 /\ stk = <<>>
    <3>1. e.exp = "Call"
      BY <1>14 DEF DescendCall, At, e
    <3> QED
      BY <1>3, <1>7, <3>1, VectorNotEmpty DEF k
  <2>2. IsSeq(e.args) /\ \A i \in DOMAIN e.args : e.args[i] \in Held(e)
    BY <1>5, <2>1 DEF AcceptedShape, Held
  <2>3. CASE e.args = <<>>
    <3>1. ctl' = Enter(e.f, <<>>) /\ stk' = <<>> /\ Len(stk') = 0
      BY <1>14, <2>1, <2>3 DEF DescendCall, e
    <3> QED
      BY <1>3, <3>1, EnterPlaced
  <2>4. CASE e.args # <<>>
    <3> DEFINE f == FCall(e.f, <<>>, env, Tail(e.args))
    <3>1. ctl' = Descending(Head(e.args), env) /\ stk' = Append(stk, f)
      BY <1>14, <2>4 DEF DescendCall, Push, e, env
    <3>2. Head(e.args) \in Held(e) /\ \A i \in DOMAIN Tail(e.args) : Tail(e.args)[i] \in Held(e)
      BY <2>2, <2>4, HeadAndTail
    <3>3. FramePlaced(f, k + 1, n)
      BY <1>7, <2>1, <3>2 DEF FramePlaced, FCall
    <3> HIDE DEF f
    <3> QED
      BY <1>8, <3>1, <3>2, <3>3 DEF n
  <2> QED
    BY <2>3, <2>4
<1> QED
  BY <1>9, <1>10, <1>11, <1>12, <1>13, <1>14 DEF Descend

\* Returning pops a frame, and goes on in the place it kept.
LEMMA ReturnTail ==
    ASSUME IInv, OnlyTailCalls, TailIInv, Return
    PROVE  \E e \in Bodies(prog) :
              StackPlaced(stk', Depth(e)) /\ CtlPlaced(ctl', Len(stk'), Depth(e))
<1>1. PICK b \in Bodies(prog) :
         StackPlaced(stk, Depth(b)) /\ CtlPlaced(ctl, Len(stk), Depth(b))
  BY DEF TailIInv
<1> DEFINE k == Len(stk)
           n == Depth(b)
           Kept == StackPlaced(stk', n) /\ CtlPlaced(ctl', Len(stk'), n)
<1>2. prog \in Programs /\ IsSeq(stk) /\ StackScoped(prog, stk) /\ k \in Nat /\ n \in Nat
  BY BodyPlaced, IsSeqDomain DEF IInv, StackScoped
<1>3. StackPlaced(stk, n)
  BY <1>1
<1> HIDE DEF n
<1>4. ASSUME NEW kind, To(kind)
      PROVE  /\ Top.fr = kind /\ FrameScoped(prog, Top) /\ FramePlaced(Top, k, n)
             /\ StackPlaced(Below, n) /\ IsSeq(Below) /\ Len(Below) = k - 1
             /\ k \in Nat \ {0} /\ k <= n
  BY <1>2, <1>3, <1>4, PopScoped, PopPlaced DEF To, Top, Below
<1> HIDE DEF k
<1>5. ASSUME NEW kind, To(kind), NEW x, Placed(x, k, n), NEW env, NEW f, FramePlaced(f, k, n),
             ctl' = Descending(x, env), stk' = Append(Below, f)
      PROVE  Kept
  <2>1. k - 1 + 1 = k /\ k <= n
    BY <1>4, <1>5
  <2>2. StackPlaced(stk', n) /\ Len(stk') = k
    BY <1>2, <1>4, <1>5, <2>1, PushPlaced
  <2> QED
    BY <1>5, <2>2 DEF CtlPlaced, Descending
<1>6. ASSUME NEW kind, To(kind), stk' = Below, NEW x, Placed(x, k - 1, n), NEW env,
             ctl' = Descending(x, env)
      PROVE  Kept
  BY <1>4, <1>6 DEF CtlPlaced, Descending
<1>7. ASSUME NEW kind, To(kind), stk' = Below, ctl'.mode # "Descending" PROVE Kept
  BY <1>4, <1>7 DEF CtlPlaced
<1>8. \A r : Outcome(r).mode # "Descending" /\ Finished(r).mode # "Descending"
  BY DEF Outcome, Finished, Returning
<1>9. CASE ReturnDone
  <2>1. stk' = stk /\ ctl' = Finished(ctl.v)
    BY <1>9 DEF ReturnDone
  <2> QED
    BY <1>3, <1>8, <2>1 DEF CtlPlaced, n
<1>10. CASE ReturnPrim1
  <2>1. To("Prim1") /\ stk' = Below /\ \E r : ctl' = Outcome(r) \/ ctl' = Finished(r)
    BY <1>10 DEF ReturnPrim1, Pop
  <2> QED
    BY <1>7, <1>8, <2>1 DEF n
<1>11. CASE ReturnPrim2L
  <2>1. /\ To("Prim2L") /\ ctl' = Descending(Top.e, Top.env)
        /\ stk' = Append(Below, FPrim2R(Top.op, ctl.v))
    BY <1>11 DEF ReturnPrim2L, Replace
  <2>2. Placed(Top.e, k, n)
    BY <1>4, <2>1 DEF FramePlaced
  <2>3. FramePlaced(FPrim2R(Top.op, ctl.v), k, n)
    BY DEF FramePlaced, FPrim2R
  <2> QED
    BY <1>5, <2>1, <2>2, <2>3 DEF n
<1>12. CASE ReturnPrim2R
  <2>1. To("Prim2R") /\ stk' = Below /\ \E r : ctl' = Outcome(r)
    BY <1>12 DEF ReturnPrim2R, Pop
  <2> QED
    BY <1>7, <1>8, <2>1 DEF n
<1>13. CASE ReturnLet
  <2> DEFINE env == Extend(Top.env, Top.var, ctl.v)
  <2>1. To("Let")
    BY <1>13 DEF ReturnLet
  <2>2. /\ \A i \in DOMAIN Top.bindings : Placed(Top.bindings[i].e, k, n)
        /\ Placed(Top.body, k - 1, n) /\ IsSeq(Top.bindings)
    BY <1>4, <2>1, LetFrame DEF FramePlaced, LetAccepted
  <2>3. CASE Top.bindings = <<>>
    <3>1. ctl' = Descending(Top.body, env) /\ stk' = Below
      BY <1>13, <2>3 DEF ReturnLet, Pop
    <3> HIDE DEF env
    <3> QED
      BY <1>6, <2>1, <2>2, <3>1 DEF n
  <2>4. CASE Top.bindings # <<>>
    <3> DEFINE f == FLet(Head(Top.bindings).var, env, Tail(Top.bindings), Top.body)
    <3>1. ctl' = Descending(Head(Top.bindings).e, env) /\ stk' = Append(Below, f)
      BY <1>13, <2>4 DEF ReturnLet, Replace
    <3> HIDE DEF env
    <3>2. /\ Placed(Head(Top.bindings).e, k, n)
          /\ \A i \in DOMAIN Tail(Top.bindings) : Placed(Tail(Top.bindings)[i].e, k, n)
      BY <2>2, <2>4, HeadAndTail
    <3>3. FramePlaced(f, k, n)
      BY <2>2, <3>2 DEF FramePlaced, FLet
    <3> HIDE DEF f
    <3> QED
      BY <1>5, <2>1, <3>1, <3>2, <3>3 DEF n
  <2> QED
    BY <2>3, <2>4
<1>14. CASE ReturnIf
  <2>1. To("If") /\ stk' = Below
    BY <1>14 DEF ReturnIf, Pop
  <2>2. Placed(Top.thn, k - 1, n) /\ Placed(Top.els, k - 1, n)
    BY <1>4, <2>1 DEF FramePlaced
  <2>3. \/ ctl' = Descending(Top.thn, Top.env) \/ ctl' = Descending(Top.els, Top.env)
        \/ \E r : ctl' = Finished(r)
    BY <1>14 DEF ReturnIf
  <2> QED
    BY <1>6, <1>7, <1>8, <2>1, <2>2, <2>3 DEF n
<1>15. CASE ReturnCall
  <2>1. To("Call")
    BY <1>15 DEF ReturnCall
  <2>2. /\ k = 1 /\ \A i \in DOMAIN Top.remaining : Placed(Top.remaining[i], k, n)
        /\ IsSeq(Top.remaining)
    BY <1>4, <2>1, CallFrame DEF FramePlaced
  <2>3. CASE Top.remaining = <<>>
    <3>1. ctl' = Enter(Top.f, Append(Top.evaled, ctl.v)) /\ stk' = Below
      BY <1>15, <2>3 DEF ReturnCall, Pop
    <3>2. Below = <<>> /\ Len(Below) = 0
      BY <1>4, <2>1, <2>2, VectorNotEmpty
    <3> QED
      BY <1>2, <3>1, <3>2, EnterPlaced
  <2>4. CASE Top.remaining # <<>>
    <3> DEFINE f == FCall(Top.f, Append(Top.evaled, ctl.v), Top.env, Tail(Top.remaining))
    <3>1. ctl' = Descending(Head(Top.remaining), Top.env) /\ stk' = Append(Below, f)
      BY <1>15, <2>4 DEF ReturnCall, Replace
    <3>2. /\ Placed(Head(Top.remaining), k, n)
          /\ \A i \in DOMAIN Tail(Top.remaining) : Placed(Tail(Top.remaining)[i], k, n)
      BY <2>2, <2>4, HeadAndTail
    <3>3. FramePlaced(f, k, n)
      BY <2>2, <3>2 DEF FramePlaced, FCall
    <3> HIDE DEF f
    <3> QED
      BY <1>5, <2>1, <3>1, <3>2, <3>3 DEF n
  <2> QED
    BY <2>3, <2>4
<1> QED
  BY <1>9, <1>10, <1>11, <1>12, <1>13, <1>14, <1>15 DEF Return

\* Every step keeps the invariant, of which OnlyTailCalls is about the text alone.
LEMMA NextTail == IInv /\ TailIInv /\ [Next]_vars => TailIInv'
<1> SUFFICES ASSUME IInv, TailIInv, [Next]_vars, OnlyTailCalls'
             PROVE  \E e \in Bodies(prog') :
                       StackPlaced(stk', Depth(e)) /\ CtlPlaced(ctl', Len(stk'), Depth(e))
  BY DEF TailIInv
<1>1. prog' = prog
  BY DEF Next, Descend, Return, Ended, vars, DescendLiteral, DescendVar, DescendPrim1,
         DescendPrim2, DescendLet, DescendIf, DescendCall, ReturnDone, ReturnPrim1,
         ReturnPrim2L, ReturnPrim2R, ReturnLet, ReturnIf, ReturnCall
<1>2. OnlyTailCalls
  BY <1>1 DEF OnlyTailCalls, Bodies
<1>3. CASE Descend
  BY <1>1, <1>2, <1>3, DescendTail
<1>4. CASE Return
  BY <1>1, <1>2, <1>4, ReturnTail
<1>5. CASE UNCHANGED vars
  BY <1>2, <1>5 DEF vars, TailIInv
<1> QED
  BY <1>3, <1>4, <1>5 DEF Next, Ended

\* A program that only makes tail calls runs in a stack whose size its text
\* bounds, whatever program check_prog accepts and however long it loops
\* (interp.rs:423-441, 454-458).
THEOREM TailCallsAlwaysKeepStack == Spec => []TailCallsKeepStack
<1>1. Init => TailIInv
  BY InitTail
<1>2. IInv /\ TailIInv /\ [Next]_vars => TailIInv'
  BY NextTail
<1>3. TailIInv => TailCallsKeepStack
  BY DEF TailIInv, TailCallsKeepStack, StackPlaced
<1>4. Spec => []IInv
  BY Invariance
<1> QED
  BY <1>1, <1>2, <1>3, <1>4, PTL DEF Spec

-----------------------------------------------------------------------------
(* What is printed, and what is right.                                      *)

\* Printing nothing, and printing in two parts.
LEMMA PrintedParts ==
    ASSUME NEW o \in Seq(Values)
    PROVE  /\ o \o <<>> = o /\ <<>> \o o = o /\ <<>> \in Seq(Values)
           /\ \A o1, o2 \in Seq(Values) : o \o (o1 \o o2) = (o \o o1) \o o2
           /\ \A o1 \in Seq(Values) : o \o o1 \in Seq(Values)
           /\ \A v \in Values : <<v>> \in Seq(Values) /\ o \o <<v>> = Append(o, v)
<1>1. o \o <<>> = o /\ <<>> \o o = o /\ <<>> \in Seq(Values)
  BY ConcatEmptySeq, EmptySeq
<1>2. \A o1, o2 \in Seq(Values) : o \o (o1 \o o2) = (o \o o1) \o o2
  <2> TAKE o1, o2 \in Seq(Values)
  <2> QED
    BY ConcatAssociative, SMTT(60)
<1>3. \A o1 \in Seq(Values) : o \o o1 \in Seq(Values)
  BY ConcatProperties
<1>4. \A v \in Values : <<v>> \in Seq(Values) /\ o \o <<v>> = Append(o, v)
  BY AppendIsConcat
<1> QED
  BY <1>1, <1>2, <1>3, <1>4

\* The results of x, after o was printed.
Following(D, p, x, env, o) ==
    {<<t[4], o \o t[5]>> :
        t \in {u \in D : u = <<p, x, env, u[4], u[5]>> /\ u[5] \in Seq(Values)}}

\* They are those that its evaluations give.
LEMMA WhatFollows ==
    ASSUME NEW D, NEW p, NEW x, NEW env, NEW o, NEW r, NEW q
    PROVE  <<r, q>> \in Following(D, p, x, env, o)
               <=> \E o2 : Gives(D, p, x, env, r, o2) /\ q = o \o o2
<1>1. ASSUME <<r, q>> \in Following(D, p, x, env, o)
      PROVE  \E o2 : Gives(D, p, x, env, r, o2) /\ q = o \o o2
  <2>1. PICK u \in D : /\ u = <<p, x, env, u[4], u[5]>> /\ u[5] \in Seq(Values)
                       /\ <<r, q>> = <<u[4], o \o u[5]>>
    BY <1>1 DEF Following
  <2>2. r = u[4] /\ q = o \o u[5]
    BY <2>1
  <2> QED
    BY <2>1, <2>2 DEF Gives
<1>2. ASSUME NEW o2, Gives(D, p, x, env, r, o2), q = o \o o2
      PROVE  <<r, q>> \in Following(D, p, x, env, o)
  <2> DEFINE u == <<p, x, env, r, o2>>
  <2>1. u \in D /\ o2 \in Seq(Values) /\ u[4] = r /\ u[5] = o2
    BY <1>2 DEF Gives
  <2>2. u \in {t \in D : t = <<p, x, env, t[4], t[5]>> /\ t[5] \in Seq(Values)}
    BY <2>1
  <2>3. <<u[4], o \o u[5]>> \in Following(D, p, x, env, o)
    BY <2>2 DEF Following
  <2> QED
    BY <1>2, <2>1, <2>3
<1> QED
  BY <1>1, <1>2

\* Going on as another expression, which owes what is left.
LEMMA OwesOn ==
    ASSUME NEW D, NEW p, NEW e, NEW env, NEW o \in Seq(Values), NEW R, NEW o1 \in Seq(Values),
           NEW e2, NEW env2,
           Owes(D, p, e, env, o, R), GoesOn(D, p, e, env, o1, e2, env2)
    PROVE  Owes(D, p, e2, env2, o \o o1, R)
<1>1. Begins(D, p, e2, env2)
  BY DEF GoesOn
<1>2. ASSUME NEW r, NEW o2, Gives(D, p, e2, env2, r, o2)
      PROVE  <<r, (o \o o1) \o o2>> \in R
  <2>1. Gives(D, p, e, env, r, o1 \o o2)
    BY <1>2 DEF GoesOn
  <2>2. <<r, o \o (o1 \o o2)>> \in R
    BY <2>1 DEF Owes
  <2>3. o2 \in Seq(Values)
    BY <1>2 DEF Gives
  <2>4. o \o (o1 \o o2) = (o \o o1) \o o2
    BY <2>3, PrintedParts
  <2> QED
    BY <2>2, <2>4
<1> QED
  BY <1>1, <1>2 DEF Owes

\* The same when nothing was printed before.
LEMMA OwesOnSilently ==
    ASSUME NEW D, NEW p, NEW e, NEW env, NEW o \in Seq(Values), NEW R, NEW e2, NEW env2,
           Owes(D, p, e, env, o, R), GoesOn(D, p, e, env, <<>>, e2, env2)
    PROVE  Owes(D, p, e2, env2, o, R)
<1>1. <<>> \in Seq(Values) /\ o \o <<>> = o
  BY PrintedParts
<1> QED
  BY <1>1, OwesOn

-----------------------------------------------------------------------------
(* The stack.                                                               *)

\* With no frame, what is right is what the program comes to.
LEMMA NoFrameServes ==
    ASSUME NEW D, NEW p, Begins(D, p, p.main, EmptyEnv)
    PROVE  \E G : StackServes(D, p, <<>>, G) /\ Owes(D, p, p.main, EmptyEnv, <<>>, G[0])
<1> DEFINE F == Following(D, p, p.main, EmptyEnv, <<>>)
           G == [k \in {0} |-> F]
<1>1. ASSUME NEW r, NEW q
      PROVE  <<r, q>> \in F <=> Gives(D, p, p.main, EmptyEnv, r, q)
  <2> DEFINE x == p.main
             env == EmptyEnv
             none == <<>>
  <2>1. \A o2 : Gives(D, p, x, env, r, o2) => none \o o2 = o2
    BY PrintedParts DEF Gives
  <2> HIDE DEF x, env, none
  <2>2. \A y, z : <<y, z>> \in Following(D, p, x, env, none)
            => \E o2 : Gives(D, p, x, env, y, o2) /\ z = none \o o2
    BY WhatFollows
  <2>3. Gives(D, p, x, env, r, q) => <<r, q>> \in Following(D, p, x, env, none)
    BY <2>1, WhatFollows
  <2>4. ASSUME <<r, q>> \in Following(D, p, x, env, none) PROVE Gives(D, p, x, env, r, q)
    <3>1. PICK o2 : Gives(D, p, x, env, r, o2) /\ q = none \o o2
      BY <2>2, <2>4
    <3>2. q = o2
      BY <2>1, <3>1
    <3> QED
      BY <3>1, <3>2
  <2> QED
    BY <2>3, <2>4 DEF x, env, none
<1>2. G[0] = F /\ Len(<<>>) = 0
  BY EmptySeq
<1> HIDE DEF F, G
<1>3. StackServes(D, p, <<>>, G)
  <2>1. \A k \in 0 .. 0 : k = 0
    OBVIOUS
  <2>2. 1 .. 0 = {}
    OBVIOUS
  <2> QED
    BY <1>1, <1>2, <2>1, <2>2 DEF StackServes
<1>4. Owes(D, p, p.main, EmptyEnv, <<>>, G[0])
  <2>1. ASSUME NEW r, NEW o2, Gives(D, p, p.main, EmptyEnv, r, o2) PROVE <<r, <<>> \o o2>> \in F
    BY <2>1, WhatFollows DEF F
  <2> QED
    BY <1>2, <2>1 DEF Owes
<1> QED
  BY <1>3, <1>4

\* The frame that is pushed waits for x.
LEMMA PushServes ==
    ASSUME NEW D, NEW p, NEW s, IsSeq(s), NEW G, StackServes(D, p, s, G), NEW o,
           NEW x, NEW env, NEW f, Begins(D, p, x, env),
           \A r, o1 : Gives(D, p, x, env, r, o1) /\ IsErr(r) => <<r, o \o o1>> \in G[Len(s)],
           \A v \in Values : \A o1 :
              Gives(D, p, x, env, v, o1) => Serves(D, p, f, v, o \o o1, G[Len(s)])
    PROVE  \E H : /\ StackServes(D, p, Append(s, f), H) /\ H[0] = G[0]
                  /\ Owes(D, p, x, env, o, H[Len(Append(s, f))])
<1> DEFINE n == Len(s)
           F == Following(D, p, x, env, o)
           H == [k \in 0 .. n + 1 |-> IF k = n + 1 THEN F ELSE G[k]]
           t == Append(s, f)
<1>1. /\ n \in Nat /\ Len(t) = n + 1 /\ t[n + 1] = f
      /\ \A i \in 1 .. n : t[i] = s[i]
  BY PushedVector, IsSeqDomain
<1> HIDE DEF F, t
<1>2. H[n + 1] = F /\ H[0] = G[0] /\ \A k \in 0 .. n : H[k] = G[k]
  BY <1>1
<1> HIDE DEF H, n
<1>3. \A r, q : <<r, q>> \in F => \E o2 : Gives(D, p, x, env, r, o2) /\ q = o \o o2
  <2>1. \A y, z : <<y, z>> \in Following(D, p, x, env, o)
            => \E o2 : Gives(D, p, x, env, y, o2) /\ z = o \o o2
    BY ONLY WhatFollows, SMTT(30)
  <2> QED
    BY ONLY <2>1 DEF F
<1>4. ASSUME NEW r, NEW q, <<r, q>> \in H[0] PROVE Gives(D, p, p.main, EmptyEnv, r, q)
  <2>1. \A r1, q1 : <<r1, q1>> \in G[0] => Gives(D, p, p.main, EmptyEnv, r1, q1)
    BY ZenonT(60) DEF StackServes
  <2>2. <<r, q>> \in G[0]
    BY <1>2, <1>4
  <2> QED
    BY <2>1, <2>2, ZenonT(60)
<1>5. ASSUME NEW k \in 0 .. n + 1, NEW r, NEW q, <<r, q>> \in H[k], IsErr(r)
      PROVE  <<r, q>> \in H[0]
  <2>1. CASE k = n + 1
    <3>1. <<r, q>> \in G[n]
      BY <1>2, <1>3, <1>5, <2>1 DEF n
    <3>2. n \in 0 .. n
      BY <1>1
    <3> QED
      BY <1>2, <1>5, <3>1, <3>2 DEF StackServes, n
  <2>2. CASE k # n + 1
    <3>1. k \in 0 .. n
      BY <1>1, <2>2
    <3> QED
      BY <1>2, <1>5, <3>1 DEF StackServes, n
  <2> QED
    BY <2>1, <2>2
<1>6. ASSUME NEW k \in 1 .. n + 1, NEW v \in Values, NEW q, <<v, q>> \in H[k]
      PROVE  Serves(D, p, t[k], v, q, H[k - 1])
  <2>1. CASE k = n + 1
    <3>1. Serves(D, p, f, v, q, G[n])
      <4>1. PICK o1 : Gives(D, p, x, env, v, o1) /\ q = o \o o1
        BY <1>2, <1>3, <1>6, <2>1
      <4>2. Serves(D, p, f, v, o \o o1, G[Len(s)])
        BY <4>1
      <4> QED
        BY <4>1, <4>2 DEF n
    <3>2. k - 1 = n /\ n \in 0 .. n
      BY <1>1, <2>1
    <3> QED
      BY <1>1, <1>2, <2>1, <3>1, <3>2
  <2>2. CASE k # n + 1
    <3>1. k \in 1 .. n /\ k \in 0 .. n /\ k - 1 \in 0 .. n
      BY <1>1, <2>2
    <3>2. Serves(D, p, s[k], v, q, G[k - 1])
      BY <1>2, <1>6, <3>1 DEF StackServes, n
    <3> QED
      BY <1>1, <1>2, <3>1, <3>2
  <2> QED
    BY <2>1, <2>2
<1>7. StackServes(D, p, t, H)
  BY <1>1, <1>4, <1>5, <1>6 DEF StackServes
<1>8. Owes(D, p, x, env, o, F)
  <2>1. ASSUME NEW r, NEW o2, Gives(D, p, x, env, r, o2) PROVE <<r, o \o o2>> \in F
    BY <2>1, WhatFollows DEF F
  <2> QED
    BY <2>1 DEF Owes
<1>9. StackServes(D, p, t, H) /\ H[0] = G[0] /\ Owes(D, p, x, env, o, H[Len(t)])
  BY <1>1, <1>2, <1>7, <1>8
<1> QED
  BY <1>9 DEF t

\* The top frame serves what is right for it, and so do those below when it is
\* popped.
LEMMA PopServes ==
    ASSUME NEW D, NEW p, NEW s, IsSeq(s), s # <<>>, NEW G, StackServes(D, p, s, G)
    PROVE  LET b == SubSeq(s, 1, Len(s) - 1)
           IN  /\ IsSeq(b) /\ StackServes(D, p, b, G)
               /\ \A v \in Values : \A o : <<v, o>> \in G[Len(s)] =>
                     Serves(D, p, s[Len(s)], v, o, G[Len(b)])
               /\ \A r, o : IsErr(r) /\ <<r, o>> \in G[Len(b)] => <<r, o>> \in G[0]
<1> DEFINE m == Len(s) - 1
           b == SubSeq(s, 1, m)
<1>1. Len(s) \in Nat /\ Len(s) >= 1
  BY IsSeqDomain, VectorNotEmpty
<1>2. m \in 0 .. Len(s) /\ m \in Nat /\ Len(s) \in 1 .. Len(s) /\ Len(s) - 1 = m
  BY <1>1
<1>3. \A k \in 0 .. m : k \in 0 .. Len(s)
  BY <1>1
<1>4. \A k \in 1 .. m : k \in 1 .. Len(s)
  BY <1>1
<1> HIDE DEF m
<1>5. IsSeq(b) /\ Len(b) = m /\ \A i \in 1 .. m : b[i] = s[i]
  BY <1>2, PrefixOfVector
<1> HIDE DEF b
<1>6. StackServes(D, p, b, G)
  BY <1>3, <1>4, <1>5 DEF StackServes
<1>7. \A v \in Values : \A o : <<v, o>> \in G[Len(s)] => Serves(D, p, s[Len(s)], v, o, G[m])
  BY <1>2 DEF StackServes
<1>8. \A r, o : IsErr(r) /\ <<r, o>> \in G[m] => <<r, o>> \in G[0]
  BY <1>2 DEF StackServes
<1> QED
  BY <1>5, <1>6, <1>7, <1>8 DEF b, m

-----------------------------------------------------------------------------
(* Where the machine goes on.                                               *)

\* Everything the machine holds is right.
Explained(D, c, s, o) ==
    \E G : StackServes(D, prog, s, G) /\ CtlServes(D, prog, c, o, G[Len(s)], G[0])

\* What the rules say of an expression that owes something.
LEMMA RuleOf ==
    ASSUME NEW D, Rules(D), prog \in Programs, NEW e, NEW env, NEW o, NEW R,
           Owes(D, prog, e, env, o, R)
    PROVE  EvalRule(D, prog, e, env)
BY DEF Owes, Rules

\* Descending into an expression over the same stack.
LEMMA DescendsTo ==
    ASSUME NEW D, NEW s, NEW G, StackServes(D, prog, s, G), IsSeq(s), NEW o \in Seq(Values),
           NEW e, NEW env, Owes(D, prog, e, env, o, G[Len(s)])
    PROVE  Explained(D, Descending(e, env), s, o)
<1>1. <<Interrupted, o \o <<>> >> \in G[Len(s)]
  BY DEF Owes, Begins
<1>2. o \o <<>> = o
  BY PrintedParts
<1>3. IsErr(Interrupted)
  BY DEF IsErr, Interrupted
<1>4. Len(s) \in Nat
  BY IsSeqDomain
<1>5. Len(s) \in 0 .. Len(s)
  BY <1>4
<1>6. <<Interrupted, o>> \in G[0]
  BY <1>1, <1>2, <1>3, <1>5 DEF StackServes
<1>7. CtlServes(D, prog, Descending(e, env), o, G[Len(s)], G[0])
  BY <1>6 DEF CtlServes, Descending
<1> QED
  BY <1>7 DEF Explained

\* Descending into x, which the evaluation of e starts with, over a frame that
\* goes on with the evaluation of e.
LEMMA StartsWith ==
    ASSUME NEW D, NEW s, NEW G, StackServes(D, prog, s, G), IsSeq(s), NEW o \in Seq(Values),
           NEW e, NEW env, Owes(D, prog, e, env, o, G[Len(s)]),
           NEW x, NEW f, First(D, prog, e, x, env),
           \A v \in Values : \A o1 :
              Gives(D, prog, x, env, v, o1) => Serves(D, prog, f, v, o \o o1, G[Len(s)])
    PROVE  Explained(D, Descending(x, env), Append(s, f), o)
<1>1. \A r, o1 : Gives(D, prog, x, env, r, o1) /\ IsErr(r) => <<r, o \o o1>> \in G[Len(s)]
  BY DEF First, Owes
<1>2. Begins(D, prog, x, env)
  BY DEF First
<1>3. PICK H : /\ StackServes(D, prog, Append(s, f), H)
               /\ Owes(D, prog, x, env, o, H[Len(Append(s, f))])
  BY <1>1, <1>2, PushServes
<1>4. IsSeq(Append(s, f))
  BY PushedVector
<1> QED
  BY <1>3, <1>4, DescendsTo

\* A let with no binding left is its body, and any other starts with its first
\* binding and goes on with the others.
LEMMA LetStarts ==
    ASSUME NEW D, Rules(D), prog \in Programs,
           NEW s, NEW G, StackServes(D, prog, s, G), IsSeq(s), NEW o \in Seq(Values),
           NEW e, NEW env, Owes(D, prog, e, env, o, G[Len(s)]), e.exp = "Let"
    PROVE  /\ e.bindings = <<>> => Explained(D, Descending(e.body, env), s, o)
           /\ e.bindings # <<>> =>
                 Explained(D, Descending(Head(e.bindings).e, env),
                           Append(s, FLet(Head(e.bindings).var, env, Tail(e.bindings), e.body)), o)
<1>1. EvalLet(D, prog, e, env)
  BY RuleOf DEF EvalRule
<1>2. ASSUME e.bindings = <<>> PROVE Explained(D, Descending(e.body, env), s, o)
  <2>1. GoesOn(D, prog, e, env, <<>>, e.body, env)
    BY <1>1, <1>2 DEF EvalLet
  <2>2. Owes(D, prog, e.body, env, o, G[Len(s)])
    BY <2>1, OwesOnSilently
  <2> QED
    BY <2>2, DescendsTo
<1>3. ASSUME e.bindings # <<>>
      PROVE  Explained(D, Descending(Head(e.bindings).e, env),
                       Append(s, FLet(Head(e.bindings).var, env, Tail(e.bindings), e.body)), o)
  <2> DEFINE b == Head(e.bindings)
             rest == Let(Tail(e.bindings), e.body)
             f == FLet(b.var, env, Tail(e.bindings), e.body)
  <2>1. /\ First(D, prog, e, b.e, env)
        /\ \A v \in Values : \A o1 : Gives(D, prog, b.e, env, v, o1) =>
              GoesOn(D, prog, e, env, o1, rest, Extend(env, b.var, v))
    BY <1>1, <1>3 DEF EvalLet
  <2>2. /\ f.fr = "Let" /\ Let(f.bindings, f.body) = rest
        /\ f.env = env /\ f.var = b.var
    BY DEF FLet, Let
  <2> HIDE DEF b, rest, f
  <2>3. ASSUME NEW v \in Values, NEW o1, Gives(D, prog, b.e, env, v, o1)
        PROVE  Serves(D, prog, f, v, o \o o1, G[Len(s)])
    <3>1. GoesOn(D, prog, e, env, o1, rest, Extend(env, b.var, v)) /\ o1 \in Seq(Values)
      BY <2>1, <2>3 DEF Gives
    <3>2. Owes(D, prog, rest, Extend(env, b.var, v), o \o o1, G[Len(s)])
      BY <3>1, OwesOn
    <3> QED
      BY <2>2, <3>2 DEF Serves
  <2>4. Explained(D, Descending(b.e, env), Append(s, f), o)
    BY <2>1, <2>3, StartsWith
  <2> QED
    BY <2>4 DEF b, f
<1> QED
  BY <1>2, <1>3

\* An operand is evaluated over a frame that performs the operation.
LEMMA Prim1Starts ==
    ASSUME NEW D, Rules(D), prog \in Programs,
           NEW s, NEW G, StackServes(D, prog, s, G), IsSeq(s), NEW o \in Seq(Values),
           NEW e, NEW env, Owes(D, prog, e, env, o, G[Len(s)]), e.exp = "Prim1"
    PROVE  Explained(D, Descending(e.e, env), Append(s, FPrim1(e.op)), o)
<1> DEFINE f == FPrim1(e.op)
<1>1. EvalPrim1(D, prog, e, env)
  BY RuleOf DEF EvalRule
<1>2. f.fr = "Prim1" /\ f.op = e.op
  BY DEF FPrim1
<1> HIDE DEF f
<1>3. ASSUME NEW v \in Values, NEW o1, Gives(D, prog, e.e, env, v, o1),
             NEW r, NEW o2, Performs(e.op, v, r, o2)
      PROVE  <<r, (o \o o1) \o o2>> \in G[Len(s)]
  <2>1. Gives(D, prog, e, env, r, o1 \o o2)
    BY <1>1, <1>3 DEF EvalPrim1
  <2>2. o1 \in Seq(Values) /\ o2 \in Seq(Values)
    <3>1. o2 = <<>> \/ o2 = <<v>>
      BY <1>3 DEF Performs
    <3> QED
      BY <1>3, <3>1, PrintedParts DEF Gives
  <2>3. o \o (o1 \o o2) = (o \o o1) \o o2
    BY <2>2, PrintedParts
  <2> QED
    BY <2>1, <2>3 DEF Owes
<1>4. ASSUME NEW v \in Values, NEW o1, Gives(D, prog, e.e, env, v, o1)
      PROVE  Serves(D, prog, f, v, o \o o1, G[Len(s)])
  BY <1>2, <1>3, <1>4 DEF Serves
<1>5. First(D, prog, e, e.e, env)
  BY <1>1 DEF EvalPrim1
<1>6. Explained(D, Descending(e.e, env), Append(s, f), o)
  BY <1>4, <1>5, StartsWith
<1> QED
  BY <1>6 DEF f

\* The left operand is evaluated over a frame that keeps the right one.
LEMMA Prim2Starts ==
    ASSUME NEW D, Rules(D), prog \in Programs,
           NEW s, NEW G, StackServes(D, prog, s, G), IsSeq(s), NEW o \in Seq(Values),
           NEW e, NEW env, Owes(D, prog, e, env, o, G[Len(s)]), e.exp = "Prim2"
    PROVE  Explained(D, Descending(e.e1, env), Append(s, FPrim2L(e.op, e.e2, env)), o)
<1> DEFINE f == FPrim2L(e.op, e.e2, env)
<1>1. EvalPrim2(D, prog, e, env)
  BY RuleOf DEF EvalRule
<1>2. f.fr = "Prim2L" /\ f.op = e.op /\ f.e = e.e2 /\ f.env = env
  BY DEF FPrim2L
<1> HIDE DEF f
<1>3. ASSUME NEW v \in Values, NEW o1, Gives(D, prog, e.e1, env, v, o1),
             NEW r, NEW o2, Gives(D, prog, e.e2, env, r, o2)
      PROVE  <<Combined(e.op, v, r), (o \o o1) \o o2>> \in G[Len(s)]
  <2>1. Gives(D, prog, e, env, Combined(e.op, v, r), o1 \o o2)
    BY <1>1, <1>3 DEF EvalPrim2
  <2>2. o \o (o1 \o o2) = (o \o o1) \o o2
    BY <1>3, PrintedParts, SMTT(60) DEF Gives
  <2> QED
    BY <2>1, <2>2 DEF Owes
<1>4. ASSUME NEW v \in Values, NEW o1, Gives(D, prog, e.e1, env, v, o1)
      PROVE  Serves(D, prog, f, v, o \o o1, G[Len(s)])
  <2>1. Begins(D, prog, e.e2, env)
    BY <1>1, <1>4 DEF EvalPrim2
  <2> QED
    BY <1>2, <1>3, <1>4, <2>1 DEF Serves
<1>5. First(D, prog, e, e.e1, env)
  BY <1>1 DEF EvalPrim2
<1>6. Explained(D, Descending(e.e1, env), Append(s, f), o)
  BY <1>4, <1>5, StartsWith
<1> QED
  BY <1>6 DEF f

\* The condition is evaluated over a frame that keeps both branches.
LEMMA IfStarts ==
    ASSUME NEW D, Rules(D), prog \in Programs,
           NEW s, NEW G, StackServes(D, prog, s, G), IsSeq(s), NEW o \in Seq(Values),
           NEW e, NEW env, Owes(D, prog, e, env, o, G[Len(s)]), e.exp = "If"
    PROVE  Explained(D, Descending(e.cond, env), Append(s, FIf(e.thn, e.els, env)), o)
<1> DEFINE f == FIf(e.thn, e.els, env)
<1>1. EvalIf(D, prog, e, env)
  BY RuleOf DEF EvalRule
<1>2. f.fr = "If" /\ f.thn = e.thn /\ f.els = e.els /\ f.env = env
  BY DEF FIf
<1> HIDE DEF f
<1>3. ASSUME NEW v \in Values, NEW o1, Gives(D, prog, e.cond, env, v, o1)
      PROVE  Serves(D, prog, f, v, o \o o1, G[Len(s)])
  <2>1. CASE v.t = "Bool"
    <3> DEFINE e2 == IF v.b THEN e.thn ELSE e.els
    <3>1. GoesOn(D, prog, e, env, o1, e2, env) /\ o1 \in Seq(Values)
      BY <1>1, <1>3, <2>1 DEF EvalIf, Gives
    <3> HIDE DEF e2
    <3>2. Owes(D, prog, e2, env, o \o o1, G[Len(s)])
      BY <3>1, OwesOn
    <3>3. Owes(D, prog, IF v.b THEN f.thn ELSE f.els, f.env, o \o o1, G[Len(s)])
      BY <1>2, <3>2, Zenon DEF e2
    <3> QED
      BY <1>2, <2>1, <3>3, Zenon DEF Serves
  <2>2. CASE v.t # "Bool"
    <3>1. Gives(D, prog, e, env, ExpectedBool("if", v), o1)
      BY <1>1, <1>3, <2>2 DEF EvalIf
    <3>2. <<ExpectedBool("if", v), o \o o1>> \in G[Len(s)]
      BY <3>1 DEF Owes
    <3> QED
      BY <1>2, <2>2, <3>2 DEF Serves
  <2> QED
    BY <2>1, <2>2
<1>4. First(D, prog, e, e.cond, env)
  BY <1>1 DEF EvalIf
<1>5. Explained(D, Descending(e.cond, env), Append(s, f), o)
  BY <1>3, <1>4, StartsWith
<1> QED
  BY <1>5 DEF f

\* The environment of a call binds the parameters to the arguments.
LEMMA ParamsBound ==
    ASSUME NEW params, IsSeq(params), NEW args \in Seq(Values), Len(params) = Len(args),
           \A m, n \in DOMAIN params : params[m] = params[n] => m = n
    PROVE  Binds(ParamEnv(params, args), params, args)
<1> DEFINE names == {params[i] : i \in DOMAIN params}
           env == ParamEnv(params, args)
<1>1. DOMAIN params = 1 .. Len(args)
  BY IsSeqDomain
<1>2. ASSUME NEW x \in names
      PROVE  ParamIndex(params, x) \in DOMAIN params /\ params[ParamIndex(params, x)] = x
  <2>1. PICK i \in DOMAIN params : params[i] = x
    OBVIOUS
  <2>2. i \in Nat /\ \A j \in DOMAIN params : params[j] = x => j = i
    BY <2>1, IsSeqDomain
  <2>3. params[i] = x /\ \A j \in DOMAIN params : params[j] = x => j <= i
    BY <2>1, <2>2
  <2> QED
    BY <2>3, Zenon DEF ParamIndex
<1>3. \A i \in DOMAIN params : params[i] \in names
  OBVIOUS
<1>4. env = [x \in names |-> args[ParamIndex(params, x)]]
  BY DEF ParamEnv
<1> HIDE DEF names, env
<1>5. env \in [names -> Values]
  <2>1. ASSUME NEW x \in names PROVE args[ParamIndex(params, x)] \in Values
    <3>1. ParamIndex(params, x) \in 1 .. Len(args)
      BY <1>1, <1>2
    <3> QED
      BY <3>1, ElementOfSeq
  <2> QED
    BY <1>4, <2>1
<1>6. ASSUME NEW i \in DOMAIN params PROVE env[params[i]] = args[i]
  <2>1. ParamIndex(params, params[i]) = i
    BY <1>2, <1>3
  <2> QED
    BY <1>3, <1>4, <2>1
<1> QED
  BY <1>5, <1>6 DEF Binds, names, env

\* A call whose arguments are evaluated enters the body of the function.
LEMMA EntersBody ==
    ASSUME NEW D, Rules(D), prog \in Programs,
           NEW s, NEW G, StackServes(D, prog, s, G), IsSeq(s), NEW o \in Seq(Values),
           NEW f, NEW args \in Seq(Values), <<f, Len(args)>> \in Arities(prog),
           NEW env, Owes(D, prog, Applied(f, args, <<>>), env, o, G[Len(s)])
    PROVE  Explained(D, Enter(f, args), s, o)
<1> DEFINE e == Applied(f, args, <<>>)
<1>1. /\ Declared(f) /\ Len(Decl(f).params) = Len(args)
      /\ \E i \in DOMAIN prog.funs : Decl(f) = prog.funs[i]
  BY DeclFound
<1>2. PICK i \in DOMAIN prog.funs : Decl(f) = prog.funs[i]
  BY <1>1
<1> DEFINE d == prog.funs[i]
           bound == ParamEnv(d.params, args)
<1>3. d.name = f
  <2>1. PICK j \in DOMAIN prog.funs : prog.funs[j].name = f
    BY <1>1 DEF Declared
  <2>2. {k \in DOMAIN prog.funs : prog.funs[k].name = f} = {j}
    BY <2>1, ProgramsAssumption
  <2>3. j \in Nat
    <3>1. IsSeq(prog.funs)
      BY ProgramsAssumption
    <3>2. DOMAIN prog.funs = 1 .. Len(prog.funs) /\ Len(prog.funs) \in Nat
      BY <3>1, IsSeqDomain
    <3> QED
      BY <3>2
  <2>4. Decl(f) = prog.funs[j]
    BY <2>2, <2>3 DEF Decl
  <2> QED
    BY <1>2, <2>1, <2>4
<1>4. /\ IsSeq(d.params)
      /\ \A m, n \in DOMAIN d.params : d.params[m] = d.params[n] => m = n
  BY ProgramsAssumption
<1>5. Binds(bound, d.params, args)
  BY <1>1, <1>2, <1>4, ParamsBound
<1>6. e.exp = "Applied" /\ e.f = f /\ e.vs = args /\ e.args = <<>>
  BY DEF Applied
<1> HIDE DEF e
<1>7. EvalApplied(D, prog, e, env)
  BY <1>6, RuleOf DEF EvalRule, e
<1> HIDE DEF bound
<1>8. GoesOn(D, prog, e, env, <<>>, d.body, bound)
  BY <1>3, <1>5, <1>6, <1>7 DEF EvalApplied
<1>9. Owes(D, prog, d.body, bound, o, G[Len(s)])
  BY <1>8, OwesOnSilently DEF e
<1>10. Enter(f, args) = Descending(d.body, bound)
  BY <1>1, <1>2 DEF Enter, bound
<1> QED
  BY <1>9, <1>10, DescendsTo

\* A call with arguments left starts with the next one.
LEMMA ArgumentStarts ==
    ASSUME NEW D, Rules(D), prog \in Programs,
           NEW s, NEW G, StackServes(D, prog, s, G), IsSeq(s), NEW o \in Seq(Values),
           NEW f, NEW vs, NEW args, args # <<>>,
           NEW env, Owes(D, prog, Applied(f, vs, args), env, o, G[Len(s)])
    PROVE  Explained(D, Descending(Head(args), env),
                     Append(s, FCall(f, vs, env, Tail(args))), o)
<1> DEFINE e == Applied(f, vs, args)
           x == Head(args)
           fr == FCall(f, vs, env, Tail(args))
<1>1. e.exp = "Applied" /\ e.f = f /\ e.vs = vs /\ e.args = args
  BY DEF Applied
<1>2. /\ fr.fr = "Call" /\ fr.f = f /\ fr.evaled = vs
      /\ fr.env = env /\ fr.remaining = Tail(args)
  BY DEF FCall
<1> HIDE DEF e, fr, x
<1>3. EvalApplied(D, prog, e, env)
  BY <1>1, RuleOf DEF EvalRule, e
<1>4. /\ First(D, prog, e, x, env)
      /\ \A v \in Values : \A o1 : Gives(D, prog, x, env, v, o1) =>
            GoesOn(D, prog, e, env, o1, Applied(f, Append(vs, v), Tail(args)), env)
  BY <1>1, <1>3 DEF EvalApplied, x
<1>5. ASSUME NEW v \in Values, NEW o1, Gives(D, prog, x, env, v, o1)
      PROVE  Serves(D, prog, fr, v, o \o o1, G[Len(s)])
  <2> DEFINE e2 == Applied(f, Append(vs, v), Tail(args))
  <2>1. GoesOn(D, prog, e, env, o1, e2, env) /\ o1 \in Seq(Values)
    BY <1>4, <1>5 DEF Gives
  <2> HIDE DEF e2
  <2>2. Owes(D, prog, e2, env, o \o o1, G[Len(s)])
    BY <2>1, OwesOn DEF e
  <2> QED
    BY <1>2, <2>2 DEF Serves, e2
<1>6. Explained(D, Descending(x, env), Append(s, fr), o)
  BY <1>4, <1>5, StartsWith DEF e
<1> QED
  BY <1>6 DEF x, fr

-----------------------------------------------------------------------------
(* The inductive invariant.                                                 *)

\* At first nothing is printed, and no frame waits.
LEMMA InitExplained ==
    ASSUME Init, NEW D, Rules(D)
    PROVE  Explained(D, ctl, stk, out)
<1>1. prog \in Programs /\ ctl = Descending(prog.main, EmptyEnv) /\ stk = <<>> /\ out = <<>>
  BY DEF Init
<1>2. Begins(D, prog, prog.main, EmptyEnv)
  BY <1>1 DEF Rules
<1>3. PICK G : StackServes(D, prog, <<>>, G) /\ Owes(D, prog, prog.main, EmptyEnv, <<>>, G[0])
  BY <1>2, NoFrameServes
<1>4. IsSeq(<<>>) /\ Len(<<>>) = 0 /\ <<>> \in Seq(Values)
  BY EmptySeq, SeqIsSeq
<1>5. Explained(D, Descending(prog.main, EmptyEnv), <<>>, <<>>)
  BY <1>3, <1>4, DescendsTo
<1> QED
  BY <1>1, <1>5

\* Descending keeps to the rules.
LEMMA DescendExplained ==
    ASSUME IInv, Descend, NEW D, Rules(D), Explained(D, ctl, stk, out)
    PROVE  Explained(D, ctl', stk', out')
<1> DEFINE e == ctl.e
           env == ctl.env
<1>1. ctl.mode = "Descending"
  BY DEF Descend, At, DescendLiteral, DescendVar, DescendPrim1, DescendPrim2,
         DescendLet, DescendIf, DescendCall
<1>2. /\ prog \in Programs /\ prog' = prog
      /\ out \in Seq(Values) /\ out' = out
      /\ IsSeq(stk)
  BY DEF IInv, StackScoped, Descend, DescendLiteral, DescendVar, DescendPrim1, DescendPrim2,
         DescendLet, DescendIf, DescendCall
<1>3. AcceptedShape(e, DOMAIN env, Arities(prog))
  BY <1>1, ShapeOf DEF IInv, CtlScoped
<1>4. PICK G : StackServes(D, prog, stk, G) /\ CtlServes(D, prog, ctl, out, G[Len(stk)], G[0])
  BY DEF Explained
<1>5. Owes(D, prog, e, env, out, G[Len(stk)]) /\ <<Interrupted, out>> \in G[0]
  BY <1>1, <1>4 DEF CtlServes
<1> HIDE DEF e, env
<1>6. EvalRule(D, prog, e, env)
  BY <1>2, <1>5, RuleOf
<1>7. ASSUME NEW v, Gives(D, prog, e, env, v, <<>>)
      PROVE  Explained(D, Returning(v), stk, out)
  <2>1. <<v, out \o <<>> >> \in G[Len(stk)]
    BY <1>5, <1>7 DEF Owes
  <2>2. out \o <<>> = out
    BY <1>2, PrintedParts
  <2>3. CtlServes(D, prog, Returning(v), out, G[Len(stk)], G[0])
    BY <1>5, <2>1, <2>2 DEF CtlServes, Returning
  <2> QED
    BY <1>4, <2>3 DEF Explained
<1>8. CASE DescendLiteral
  <2>1. ctl' = Returning(IF e.exp = "Num" THEN NumV(e.n) ELSE BoolV(e.b)) /\ stk' = stk
    BY <1>8 DEF DescendLiteral, e
  <2>2. e.exp = "Num" \/ e.exp = "Bool"
    BY <1>8 DEF DescendLiteral, At, e
  <2>3. CASE e.exp = "Num"
    BY <1>2, <1>6, <1>7, <2>1, <2>3 DEF EvalRule
  <2>4. CASE e.exp = "Bool"
    <3>1. Gives(D, prog, e, env, BoolV(e.b), <<>>)
      BY <1>6, <2>4 DEF EvalRule
    <3>2. ctl' = Returning(BoolV(e.b))
      BY <2>1, <2>4
    <3> QED
      BY <1>2, <1>7, <2>1, <3>1, <3>2
  <2> QED
    BY <2>2, <2>3, <2>4
<1>9. CASE DescendVar
  <2>1. e.exp = "Var" /\ stk' = stk
    BY <1>9 DEF DescendVar, At, e
  <2>2. e.x \in DOMAIN env
    BY <1>3, <2>1 DEF AcceptedShape
  <2>3. ctl' = Returning(env[e.x])
    BY <1>9, <2>2 DEF DescendVar, e, env
  <2> QED
    BY <1>2, <1>6, <1>7, <2>1, <2>2, <2>3 DEF EvalRule
<1>10. CASE DescendPrim1
  <2>1. e.exp = "Prim1" /\ ctl' = Descending(e.e, env) /\ stk' = Append(stk, FPrim1(e.op))
    BY <1>10 DEF DescendPrim1, At, Push, e, env
  <2> QED
    BY <1>2, <1>4, <1>5, <2>1, Prim1Starts
<1>11. CASE DescendPrim2
  <2>1. /\ e.exp = "Prim2" /\ ctl' = Descending(e.e1, env)
        /\ stk' = Append(stk, FPrim2L(e.op, e.e2, env))
    BY <1>11 DEF DescendPrim2, At, Push, e, env
  <2> QED
    BY <1>2, <1>4, <1>5, <2>1, Prim2Starts
<1>12. CASE DescendIf
  <2>1. /\ e.exp = "If" /\ ctl' = Descending(e.cond, env)
        /\ stk' = Append(stk, FIf(e.thn, e.els, env))
    BY <1>12 DEF DescendIf, At, Push, e, env
  <2> QED
    BY <1>2, <1>4, <1>5, <2>1, IfStarts
<1>13. CASE DescendLet
  <2>1. /\ e.exp = "Let"
        /\ \/ e.bindings = <<>> /\ ctl' = Descending(e.body, env) /\ stk' = stk
           \/ /\ e.bindings # <<>> /\ ctl' = Descending(Head(e.bindings).e, env)
              /\ stk' = Append(stk, FLet(Head(e.bindings).var, env, Tail(e.bindings), e.body))
    BY <1>13 DEF DescendLet, At, Push, e, env
  <2> QED
    BY <1>2, <1>4, <1>5, <2>1, LetStarts
<1>14. CASE DescendCall
  <2>1. /\ e.exp = "Call"
        /\ \/ e.args = <<>> /\ ctl' = Enter(e.f, <<>>) /\ stk' = stk
           \/ /\ e.args # <<>> /\ ctl' = Descending(Head(e.args), env)
              /\ stk' = Append(stk, FCall(e.f, <<>>, env, Tail(e.args)))
    BY <1>14 DEF DescendCall, At, Push, e, env
  <2>2. Owes(D, prog, Applied(e.f, <<>>, e.args), env, out, G[Len(stk)])
    BY <1>2, <1>5, <1>6, <2>1, OwesOnSilently DEF EvalRule
  <2>3. CASE e.args = <<>>
    <3>1. <<e.f, Len(e.args)>> \in Arities(prog)
      BY <1>3, <2>1 DEF AcceptedShape
    <3>2. <<>> \in Seq(Values)
      BY EmptySeq
    <3> QED
      BY <1>2, <1>4, <2>1, <2>2, <2>3, <3>1, <3>2, EntersBody
  <2>4. CASE e.args # <<>>
    BY <1>2, <1>4, <2>1, <2>2, <2>4, ArgumentStarts
  <2> QED
    BY <2>3, <2>4
<1> QED
  BY <1>8, <1>9, <1>10, <1>11, <1>12, <1>13, <1>14 DEF Descend

\* Returning keeps to the rules.
LEMMA ReturnExplained ==
    ASSUME IInv, Return, NEW D, Rules(D), Explained(D, ctl, stk, out)
    PROVE  Explained(D, ctl', stk', out')
<1> DEFINE v == ctl.v
<1>1. ctl.mode = "Returning"
  BY DEF Return, To, ReturnDone, ReturnPrim1, ReturnPrim2L, ReturnPrim2R,
         ReturnLet, ReturnIf, ReturnCall
<1>2. /\ prog \in Programs /\ prog' = prog
      /\ out \in Seq(Values) /\ IsSeq(stk) /\ v \in Values
      /\ StackScoped(prog, stk)
  BY <1>1 DEF IInv, CtlScoped, StackScoped, Return, ReturnDone, ReturnPrim1, ReturnPrim2L,
              ReturnPrim2R, ReturnLet, ReturnIf, ReturnCall
<1>3. PICK G : StackServes(D, prog, stk, G) /\ CtlServes(D, prog, ctl, out, G[Len(stk)], G[0])
  BY DEF Explained
<1>4. <<v, out>> \in G[Len(stk)] /\ <<Interrupted, out>> \in G[0]
  BY <1>1, <1>3 DEF CtlServes
<1> DEFINE R == G[Len(Below)]
<1>5. ASSUME NEW kind, To(kind)
      PROVE  /\ Top.fr = kind /\ FrameScoped(prog, Top)
             /\ IsSeq(Below) /\ StackServes(D, prog, Below, G)
             /\ Serves(D, prog, Top, v, out, R)
             /\ \A r, o : IsErr(r) /\ <<r, o>> \in R => <<r, o>> \in G[0]
  <2>1. stk # <<>> /\ Top.fr = kind
    BY <1>5 DEF To
  <2> HIDE DEF v
  <2> QED
    BY <1>2, <1>3, <1>4, <2>1, PopServes, PopScoped DEF Top, Below
<1> HIDE DEF v, R
<1>6. ASSUME NEW kind, To(kind), NEW r, NEW o, <<r, o>> \in R, <<Interrupted, o>> \in G[0]
      PROVE  Explained(D, Outcome(r), Below, o)
  <2>1. IsErr(r) => <<r, o>> \in G[0]
    BY <1>5, <1>6
  <2>2. CtlServes(D, prog, Outcome(r), o, R, G[0])
    BY <1>6, <2>1 DEF CtlServes, Outcome, Finished, Returning
  <2> QED
    BY <1>5, <1>6, <2>2 DEF Explained, R
<1>7. CASE ReturnDone
  <2>1. ctl' = Finished(v) /\ stk' = stk /\ out' = out /\ stk = <<>>
    BY <1>7 DEF ReturnDone, v
  <2>2. Len(stk) = 0
    BY <2>1, EmptySeq
  <2>3. CtlServes(D, prog, Finished(v), out, G[Len(stk)], G[0])
    BY <1>4, <2>2 DEF CtlServes, Finished
  <2> QED
    BY <1>2, <1>3, <2>1, <2>3 DEF Explained
<1>8. CASE ReturnPrim1
  <2>1. To("Prim1") /\ stk' = Below
    BY <1>8 DEF ReturnPrim1, Pop
  <2>2. \A r, o2 : Performs(Top.op, v, r, o2) => <<r, out \o o2>> \in R
    BY <1>5, <2>1 DEF Serves
  <2>3. CASE /\ ctl' = Outcome(InterpretPrim1(Top.op, v))
             /\ out' = IF Top.op \in Print1 THEN Append(out, v) ELSE out
    <3>1. CASE Top.op \in Print1
      <4>1. /\ Performs(Top.op, v, InterpretPrim1(Top.op, v), <<v>>)
            /\ Performs(Top.op, v, Interrupted, <<v>>)
        BY <3>1 DEF Performs
      <4>2. out \o <<v>> = out'
        BY <1>2, <2>3, <3>1, PrintedParts
      <4>3. IsErr(Interrupted)
        BY DEF IsErr, Interrupted
      <4>4. <<InterpretPrim1(Top.op, v), out'>> \in R /\ <<Interrupted, out'>> \in R
        BY <2>2, <4>1, <4>2
      <4>5. <<Interrupted, out'>> \in G[0]
        BY <1>5, <2>1, <4>3, <4>4
      <4> QED
        BY <1>6, <2>1, <2>3, <4>4, <4>5
    <3>2. CASE Top.op \notin Print1
      <4>1. Performs(Top.op, v, InterpretPrim1(Top.op, v), <<>>)
        BY <3>2 DEF Performs
      <4>2. out \o <<>> = out /\ out' = out
        BY <1>2, <2>3, <3>2, PrintedParts
      <4>3. <<InterpretPrim1(Top.op, v), out'>> \in R
        BY <2>2, <4>1, <4>2
      <4> QED
        BY <1>4, <1>6, <2>1, <2>3, <4>2, <4>3
    <3> QED
      BY <3>1, <3>2
  <2>4. CASE Top.op \in Print1 /\ ctl' = Finished(WriteErr) /\ out' = out
    <3>1. Performs(Top.op, v, WriteErr, <<>>)
      BY <2>4 DEF Performs
    <3>2. out \o <<>> = out
      BY <1>2, PrintedParts
    <3>3. <<WriteErr, out>> \in R
      BY <2>2, <3>1, <3>2
    <3>4. Outcome(WriteErr) = Finished(WriteErr)
      BY DEF Outcome, IsErr, WriteErr
    <3> QED
      BY <1>4, <1>6, <2>1, <2>4, <3>3, <3>4
  <2> QED
    BY <1>8, <2>3, <2>4 DEF ReturnPrim1, v
<1>9. CASE ReturnPrim2L
  <2> DEFINE f == FPrim2R(Top.op, v)
  <2>1. /\ To("Prim2L") /\ ctl' = Descending(Top.e, Top.env)
        /\ stk' = Append(Below, f) /\ out' = out
    BY <1>9 DEF ReturnPrim2L, Replace, v
  <2>2. /\ Begins(D, prog, Top.e, Top.env)
        /\ \A r, o2 : Gives(D, prog, Top.e, Top.env, r, o2) =>
              <<Combined(Top.op, v, r), out \o o2>> \in R
    BY <1>5, <2>1 DEF Serves
  <2>3. f.fr = "Prim2R" /\ f.op = Top.op /\ f.v = v
    BY DEF FPrim2R
  <2> HIDE DEF f
  <2>4. \A r, o1 : Gives(D, prog, Top.e, Top.env, r, o1) /\ IsErr(r) => <<r, out \o o1>> \in R
    BY <2>2 DEF Combined
  <2>5. ASSUME NEW w \in Values, NEW o1, Gives(D, prog, Top.e, Top.env, w, o1)
        PROVE  Serves(D, prog, f, w, out \o o1, R)
    <3>1. ~IsErr(w)
      BY ValueKinds DEF IsErr
    <3>2. <<InterpretPrim2(Top.op, v, w), out \o o1>> \in R
      BY <2>2, <2>5, <3>1 DEF Combined
    <3> QED
      BY <2>3, <3>2 DEF Serves
  <2>6. PICK H : /\ StackServes(D, prog, Append(Below, f), H)
                 /\ Owes(D, prog, Top.e, Top.env, out, H[Len(Append(Below, f))])
    BY <1>5, <2>1, <2>2, <2>4, <2>5, PushServes DEF R
  <2>7. IsSeq(Append(Below, f))
    BY <1>5, <2>1, PushedVector
  <2> QED
    BY <1>2, <2>1, <2>6, <2>7, DescendsTo
<1>10. CASE ReturnPrim2R
  <2>1. /\ To("Prim2R") /\ ctl' = Outcome(InterpretPrim2(Top.op, Top.v, v))
        /\ stk' = Below /\ out' = out
    BY <1>10 DEF ReturnPrim2R, Pop, v
  <2>2. <<InterpretPrim2(Top.op, Top.v, v), out>> \in R
    BY <1>5, <2>1 DEF Serves
  <2> QED
    BY <1>4, <1>6, <2>1, <2>2
<1>11. CASE ReturnIf
  <2>1. /\ To("If") /\ stk' = Below /\ out' = out
        /\ ctl' = IF v.t = "Bool"
                  THEN Descending(IF v.b THEN Top.thn ELSE Top.els, Top.env)
                  ELSE Finished(ExpectedBool("if", v))
    BY <1>11 DEF ReturnIf, Pop, v
  <2>2. IF v.t = "Bool" THEN Owes(D, prog, IF v.b THEN Top.thn ELSE Top.els, Top.env, out, R)
        ELSE <<ExpectedBool("if", v), out>> \in R
    BY <1>5, <2>1, Zenon DEF Serves
  <2>3. CASE v.t = "Bool"
    <3> DEFINE e2 == IF v.b THEN Top.thn ELSE Top.els
    <3>1. Owes(D, prog, e2, Top.env, out, R) /\ ctl' = Descending(e2, Top.env)
      BY <2>1, <2>2, <2>3
    <3> HIDE DEF e2
    <3> QED
      BY <1>2, <1>5, <2>1, <3>1, DescendsTo DEF R
  <2>4. CASE v.t # "Bool"
    <3>1. Outcome(ExpectedBool("if", v)) = Finished(ExpectedBool("if", v))
      BY DEF Outcome, IsErr, ExpectedBool
    <3> QED
      BY <1>4, <1>6, <2>1, <2>2, <2>4, <3>1
  <2> QED
    BY <2>3, <2>4
<1>12. CASE ReturnLet
  <2> DEFINE env == Extend(Top.env, Top.var, v)
             e == Let(Top.bindings, Top.body)
  <2>1. /\ To("Let") /\ out' = out
        /\ \/ Top.bindings = <<>> /\ ctl' = Descending(Top.body, env) /\ stk' = Below
           \/ /\ Top.bindings # <<>> /\ ctl' = Descending(Head(Top.bindings).e, env)
              /\ stk' = Append(Below, FLet(Head(Top.bindings).var, env,
                                           Tail(Top.bindings), Top.body))
    BY <1>12 DEF ReturnLet, Replace, Pop, v
  <2> HIDE DEF env
  <2>2. Owes(D, prog, e, env, out, R)
    BY <1>5, <2>1 DEF Serves, env
  <2>3. e.exp = "Let" /\ e.bindings = Top.bindings /\ e.body = Top.body
    BY DEF Let
  <2> HIDE DEF e
  <2>4. /\ e.bindings = <<>> => Explained(D, Descending(e.body, env), Below, out)
        /\ e.bindings # <<>> =>
              Explained(D, Descending(Head(e.bindings).e, env),
                        Append(Below, FLet(Head(e.bindings).var, env, Tail(e.bindings), e.body)),
                        out)
    BY <1>2, <1>5, <2>1, <2>2, <2>3, LetStarts DEF R
  <2> QED
    BY <2>1, <2>3, <2>4
<1>13. CASE ReturnCall
  <2> DEFINE evaled == Append(Top.evaled, v)
  <2>1. /\ To("Call") /\ out' = out
        /\ \/ Top.remaining = <<>> /\ ctl' = Enter(Top.f, evaled) /\ stk' = Below
           \/ /\ Top.remaining # <<>> /\ ctl' = Descending(Head(Top.remaining), Top.env)
              /\ stk' = Append(Below, FCall(Top.f, evaled, Top.env, Tail(Top.remaining)))
    BY <1>13 DEF ReturnCall, Replace, Pop, v
  <2>2. /\ Top.evaled \in Seq(Values) /\ IsSeq(Top.remaining)
        /\ <<Top.f, Len(Top.evaled) + 1 + Len(Top.remaining)>> \in Arities(prog)
    BY <1>5, <2>1, CallFrame
  <2>3. Owes(D, prog, Applied(Top.f, evaled, Top.remaining), Top.env, out, R)
    BY <1>5, <2>1 DEF Serves
  <2>4. evaled \in Seq(Values) /\ Len(evaled) = Len(Top.evaled) + 1 /\ Len(Top.evaled) \in Nat
    BY <1>2, <2>2, AppendProperties, LenProperties
  <2> HIDE DEF evaled
  <2>5. CASE Top.remaining = <<>>
    <3>1. <<Top.f, Len(evaled)>> \in Arities(prog)
      <4>1. Len(Top.remaining) = 0 /\ Len(Top.evaled) + 1 + 0 = Len(evaled)
        BY <2>4, <2>5, EmptySeq
      <4> QED
        BY <2>2, <4>1
    <3>2. Owes(D, prog, Applied(Top.f, evaled, <<>>), Top.env, out, R)
      BY <2>3, <2>5
    <3>3. Explained(D, Enter(Top.f, evaled), Below, out)
      BY <1>2, <1>5, <2>1, <2>4, <3>1, <3>2, EntersBody DEF R
    <3> QED
      BY <2>1, <2>5, <3>3
  <2>6. CASE Top.remaining # <<>>
    <3>1. Explained(D, Descending(Head(Top.remaining), Top.env),
                    Append(Below, FCall(Top.f, evaled, Top.env, Tail(Top.remaining))), out)
      BY <1>2, <1>5, <2>1, <2>3, <2>6, ArgumentStarts DEF R
    <3> QED
      BY <2>1, <2>6, <3>1
  <2> QED
    BY <2>5, <2>6
<1> QED
  BY <1>7, <1>8, <1>9, <1>10, <1>11, <1>12, <1>13 DEF Return

\* Every step keeps the invariant.
LEMMA NextExplained == IInv /\ BigStepIInv /\ [Next]_vars => BigStepIInv'
<1> SUFFICES ASSUME IInv, BigStepIInv, [Next]_vars, NEW D, Rules(D)
             PROVE  Explained(D, ctl, stk, out)'
  BY DEF BigStepIInv, Explained
<1>1. prog' = prog
  BY DEF Next, Descend, Return, Ended, vars, DescendLiteral, DescendVar, DescendPrim1,
         DescendPrim2, DescendLet, DescendIf, DescendCall, ReturnDone, ReturnPrim1,
         ReturnPrim2L, ReturnPrim2R, ReturnLet, ReturnIf, ReturnCall
<1>2. Explained(D, ctl, stk, out)
  BY DEF BigStepIInv, Explained
<1>3. CASE Descend
  <2>1. Explained(D, ctl', stk', out')
    BY <1>2, <1>3, DescendExplained
  <2> QED
    BY <1>1, <2>1 DEF Explained
<1>4. CASE Return
  <2>1. Explained(D, ctl', stk', out')
    BY <1>2, <1>4, ReturnExplained
  <2> QED
    BY <1>1, <2>1 DEF Explained
<1>5. CASE UNCHANGED vars
  BY <1>2, <1>5 DEF vars, Explained
<1> QED
  BY <1>3, <1>4, <1>5 DEF Next, Ended

\* The machine prints what the direct-style interpreter prints and comes to what
\* it comes to, whatever program check_prog accepts and whether or not it ends
\* (interp.rs:263-269).
THEOREM MachineEvaluates == Spec => []Evaluated
<1>1. Init => BigStepIInv
  BY InitExplained DEF BigStepIInv, Explained
<1>2. IInv /\ BigStepIInv /\ [Next]_vars => BigStepIInv'
  BY NextExplained
<1>3. BigStepIInv => Evaluated
  BY DEF BigStepIInv, StackServes, CtlServes, Evaluated, Evaluates
<1>4. Spec => []IInv
  BY Invariance
<1> QED
  BY <1>1, <1>2, <1>3, <1>4, PTL DEF Spec
=============================================================================
