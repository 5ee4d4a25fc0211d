----------------------------- MODULE CheckRules -----------------------------
(***************************************************************************)
(* check_prog, src/src/compile.rs:238-433: what every program passes       *)
(* before it is interpreted or compiled.  An answer is Ok or the first     *)
(* error, by its kind and the name or number it is about; spans are left   *)
(* out.  The environments are only asked whether a name is there, so the   *)
(* vectors env_arg and env_lcl are sets and env_fun is a function from     *)
(* names to arities.                                                       *)
(*                                                                         *)
(* The definitions stop at the parts of an expression: Check, or whoever   *)
(* knows the answers on the parts, passes them as Sub.                     *)
(***************************************************************************)
EXTENDS Snake, FiniteSets

Ok == [err |-> "None"]
CompileErr(kind, about) == [err |-> kind, about |-> about]

\* The ? operator: the first of the results that is an error
FirstError(results) ==
    LET bad == {i \in DOMAIN results : results[i] # Ok}
    IN  IF bad = {} THEN Ok ELSE results[CHOOSE i \in bad : \A j \in bad : i <= j]

\* The index of the first name that has occurred before, 0 if there is none
FirstDuplicate(names) ==
    LET dup == {i \in DOMAIN names : \E j \in 1 .. (i - 1) : names[j] = names[i]}
    IN  IF dup = {} THEN 0 ELSE CHOOSE i \in dup : \A j \in dup : i <= j

NoDuplicate(names, kind) ==
    LET i == FirstDuplicate(names)
    IN  IF i = 0 THEN Ok ELSE CompileErr(kind, names[i])

BindingNames(bindings) == [i \in DOMAIN bindings |-> bindings[i].var]

\* The variables bound before the i-th binding: let is sequential
BoundBefore(bindings, i) == {bindings[j].var : j \in 1 .. (i - 1)}

CheckNum(n) ==
    IF OutOfBounds(n) THEN CompileErr("Overflow", n) ELSE Ok

CheckVar(x, args, lcl, funs) ==
    CASE x \in args \cup lcl -> Ok
      [] x \notin args \cup lcl /\ x \in DOMAIN funs -> CompileErr("FunctionUsedAsValue", x)
      [] OTHER -> CompileErr("UnboundVariable", x)

\* Bug: the functions are asked first, as if no variable could hide one
CheckCalleeFunctionsFirst(f, n, args, lcl, funs) ==
    CASE f \notin DOMAIN funs -> CompileErr("UndefinedFunction", f)
      [] f \in DOMAIN funs /\ funs[f] # n -> CompileErr("FunctionCalledWrongArity", f)
      [] OTHER -> Ok

\* The arm of Call, before the arguments
CheckCallee(f, n, args, lcl, funs) ==
    CASE f \in args \cup lcl -> CompileErr("ValueUsedAsFunction", f)
      [] f \notin args \cup lcl /\ f \notin DOMAIN funs -> CompileErr("UndefinedFunction", f)
      [] f \notin args \cup lcl /\ f \in DOMAIN funs /\ funs[f] # n ->
            CompileErr("FunctionCalledWrongArity", f)
      [] OTHER -> Ok

\* The arm of Let: duplicates, the bindings in order, the body
CheckLet(Sub(_, _), bindings, body, lcl) ==
    FirstError(
        <<NoDuplicate(BindingNames(bindings), "DuplicateBinding")>>
        \o [i \in DOMAIN bindings |-> Sub(bindings[i].e, lcl \cup BoundBefore(bindings, i))]
        \o <<Sub(body, lcl \cup BoundBefore(bindings, Len(bindings) + 1))>>)

\* check_exp, where Sub(x, l) is what it answers on the part x with env_lcl l
CheckArm(Sub(_, _), e, args, lcl, funs) ==
    CASE e.exp = "Num" -> CheckNum(e.n)
      [] e.exp = "Bool" -> Ok
      [] e.exp = "Var" -> CheckVar(e.x, args, lcl, funs)
      [] e.exp = "Prim1" -> Sub(e.e, lcl)
      [] e.exp = "Prim2" -> FirstError(<<Sub(e.e1, lcl), Sub(e.e2, lcl)>>)
      [] e.exp = "If" -> FirstError(<<Sub(e.cond, lcl), Sub(e.thn, lcl), Sub(e.els, lcl)>>)
      [] e.exp = "Let" -> CheckLet(Sub, e.bindings, e.body, lcl)
      [] e.exp = "Call" ->
            FirstError(<<CheckCallee(e.f, Len(e.args), args, lcl, funs)>>
                       \o [i \in DOMAIN e.args |-> Sub(e.args[i], lcl)])

\* env_fun after the first loop of check_prog; names are distinct when it is used
EnvFun(p) ==
    [f \in {p.funs[i].name : i \in DOMAIN p.funs} |->
        Len(p.funs[CHOOSE i \in DOMAIN p.funs : p.funs[i].name = f].params)]

\* check_fun on the i-th declaration
CheckFun(p, i) ==
    IF \E j \in 1 .. (i - 1) : p.funs[j].name = p.funs[i].name
    THEN CompileErr("DuplicateFunName", p.funs[i].name)
    ELSE NoDuplicate(p.funs[i].params, "DuplicateArgName")

\* check_prog, where Answer(e, args, funs) is what check_exp answers on a body
CheckBodies(Answer(_, _, _), p) ==
    FirstError([i \in DOMAIN p.funs |-> CheckFun(p, i)]
               \o [i \in DOMAIN p.funs |->
                      Answer(p.funs[i].body, ParamSet(p.funs[i]), EnvFun(p))]
               \o <<Answer(p.main, {}, EnvFun(p))>>)

-----------------------------------------------------------------------------
(* The reference: what a well-formed program is, read bottom up.            *)

\* The free occurrences of names in an expression.  A let removes those of its
\* variable from what follows; a call whose name it removes is an occurrence
\* that can never be resolved, and stays, marked.
VarOcc(x) == [occ |-> "var", name |-> x, arity |-> 0]
CallOcc(f, n) == [occ |-> "call", name |-> f, arity |-> n]
Unresolved(f) == [occ |-> "unresolved", name |-> f, arity |-> 0]

Unbind(occs, x) ==
    {o \in occs : o.name # x \/ o.occ = "unresolved"}
    \cup {Unresolved(x) : o \in {q \in occs : q.name = x /\ q.occ = "call"}}

\* Occ(x) are the free occurrences in the part x
OccurrencesArm(Occ(_), e) ==
    CASE e.exp = "Var" -> {VarOcc(e.x)}
      [] e.exp = "Let" /\ e.bindings # <<>> ->
            LET b == Head(e.bindings)
            IN  Occ(b.e) \cup Unbind(Occ(Let(Tail(e.bindings), e.body)), b.var)
      [] OTHER ->
            (IF e.exp = "Call" THEN {CallOcc(e.f, Len(e.args))} ELSE {})
            \cup UNION {Occ(Children(e)[i]) : i \in DOMAIN Children(e)}

\* Every literal fits and no let binds a name twice
WellFormedArm(Fine(_), e) ==
    /\ e.exp = "Num" => e.n \in MinInt .. MaxInt
    /\ e.exp = "Let" =>
          Cardinality({e.bindings[i].var : i \in DOMAIN e.bindings}) = Len(e.bindings)
    /\ \A i \in DOMAIN Children(e) : Fine(Children(e)[i])

\* The occurrences, with the given parameters bound, are calls of functions of the
\* program with their arity
Resolved(occs, params, p) ==
    LET Bind[i \in 1 .. Len(params) + 1] ==
            IF i = 1 THEN occs ELSE Unbind(Bind[i - 1], params[i - 1])
    IN  \A o \in Bind[Len(params) + 1] :
           /\ o.occ = "call"
           /\ \E i \in DOMAIN p.funs : p.funs[i].name = o.name /\ Len(p.funs[i].params) = o.arity

WellFormedBodies(Occ(_), Fine(_), p) ==
    /\ \A i, j \in DOMAIN p.funs : p.funs[i].name = p.funs[j].name => i = j
    /\ \A i \in DOMAIN p.funs :
          /\ \A m, n \in DOMAIN p.funs[i].params :
                p.funs[i].params[m] = p.funs[i].params[n] => m = n
          /\ Fine(p.funs[i].body)
          /\ Resolved(Occ(p.funs[i].body), p.funs[i].params, p)
    /\ Fine(p.main) /\ Resolved(Occ(p.main), <<>>, p)

-----------------------------------------------------------------------------
(* What it takes for the definitions above, which stop at the parts, to     *)
(* speak of whole expressions: there are finitely many parts within parts.  *)

Shaped(e) ==
    \/ e.exp = "Num" /\ e.n \in Int
    \/ e.exp \in {"Bool", "Var", "Prim1", "Prim2", "If"}
    \/ e.exp = "Let" /\ IsSeq(e.bindings)
    \/ e.exp = "Call" /\ IsSeq(e.args)

\* A let after its first binding is evaluated
AfterFirst(e) == Let(Tail(e.bindings), e.body)

PartsOf(e) ==
    {Children(e)[i] : i \in DOMAIN Children(e)}
    \cup (IF e.exp = "Let" /\ e.bindings # <<>> THEN {AfterFirst(e)} ELSE {})

\* The definitions above, with functions that have what is known of the parts
AnswerFrom(answer, e, args, lcl, funs) ==
    CheckArm(LAMBDA x, l : answer[<<x, args, l, funs>>], e, args, lcl, funs)

OccurrencesFrom(occ, e) == OccurrencesArm(LAMBDA x : occ[x], e)

WellFormedFrom(fine, e) == WellFormedArm(LAMBDA x : fine[x], e)

\* Of every expression in T it is known what occurs free and whether its parts are
\* well formed, and its parts are in T and of a lower rank
Known(T, occ, fine, rank) ==
    \A e \in T :
        /\ Shaped(e) /\ rank[e] \in Nat
        /\ \A x \in PartsOf(e) : x \in T /\ rank[x] < rank[e]
        /\ occ[e] = OccurrencesFrom(occ, e)
        /\ fine[e] <=> WellFormedFrom(fine, e)

\* The parts of e, and env_lcl with which check_exp is asked about them
Questions(e, lcl) ==
    IF e.exp = "Let"
    THEN {<<e.bindings[i].e, lcl \cup BoundBefore(e.bindings, i)>> : i \in DOMAIN e.bindings}
         \cup {<<e.body, lcl \cup BoundBefore(e.bindings, Len(e.bindings) + 1)>>}
         \cup (IF e.bindings = <<>> THEN {}
               ELSE {<<AfterFirst(e), lcl \cup {e.bindings[1].var}>>})
    ELSE {<<Children(e)[i], lcl>> : i \in DOMAIN Children(e)}

\* answer has what check_exp says to every question in J
Answered(J, answer) ==
    \A j \in J :
        /\ answer[j] = AnswerFrom(answer, j[1], j[2], j[3], j[4])
        /\ \A q \in Questions(j[1], j[3]) : <<q[1], j[2], q[2], j[4]>> \in J

\* A program and what is known of it: of the expressions in it and of every question
\* that check_prog asks about them.
Examined(p, T, occ, fine, rank, J, answer) ==
    /\ IsSeq(p.funs) /\ \A i \in DOMAIN p.funs : IsSeq(p.funs[i].params)
    /\ Known(T, occ, fine, rank) /\ Answered(J, answer)
    /\ \A i \in DOMAIN p.funs : /\ p.funs[i].body \in T
                                /\ <<p.funs[i].body, ParamSet(p.funs[i]), {}, EnvFun(p)>> \in J
    /\ p.main \in T /\ <<p.main, {}, {}, EnvFun(p)>> \in J
=============================================================================
