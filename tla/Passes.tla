-------------------------------- MODULE Passes --------------------------------
(***************************************************************************)
(* What seq_prog and uniquify_names do at one node of a program            *)
(* (src/src/compile.rs:435-713, src/src/syntax.rs:334-447), and when a     *)
(* table holds what they make of a whole program.  Lowering goes down the  *)
(* tree with these definitions, or whoever knows what becomes of the parts *)
(* passes it as Sub.                                                       *)
(***************************************************************************)
EXTENDS Analysis

-----------------------------------------------------------------------------
(* sequentialize.  A temporary is named after the construct and its tag.    *)

\* What an expression evaluates before it does anything
Operands(e) == IF e.exp = "If" THEN <<e.cond>> ELSE Children(e)

\* Bug: both operands get the same temporary
SecondTempSameName(e1, ann) == <<"#prim2", 1, ann>>

SecondTemp(e1, ann) == <<"#prim2", IF Immediate(e1) THEN 1 ELSE 2, ann>>

\* The temporary of the i-th operand
Temp(e, ann, i) ==
    CASE e.exp = "Prim1" -> <<"#prim1", ann>>
      [] e.exp = "Prim2" /\ i = 1 -> <<"#prim2", 1, ann>>
      [] e.exp = "Prim2" /\ i # 1 -> SecondTemp(e.e1, ann)
      [] e.exp = "If" -> <<"#if", ann>>
      [] e.exp = "Call" -> <<"#call", ann, i - 1>>

\* An immediate operand stays where it is, but for a condition
Stays(e, i) == e.exp # "If" /\ Immediate(Operands(e)[i])
AsOperand(e, ann, i) == IF Stays(e, i) THEN Operands(e)[i] ELSE Var(Temp(e, ann, i))

\* The construct with its operands; Sub(i) is its i-th child, lowered
OnOperands(Sub(_), e, ann) ==
    CASE e.exp = "Prim1" -> Prim1(e.op, AsOperand(e, ann, 1))
      [] e.exp = "Prim2" -> Prim2(e.op, AsOperand(e, ann, 1), AsOperand(e, ann, 2))
      [] e.exp = "If" -> If(AsOperand(e, ann, 1), Sub(2), Sub(3))
      [] e.exp = "Call" -> Call(e.f, [i \in DOMAIN e.args |-> AsOperand(e, ann, i)])

\* The other operands are bound before what comes then, rest, in their order; a let
\* binds its variables
Steps(e) == IF e.exp = "Let" THEN Len(e.bindings) ELSE Len(Operands(e))
StepArm(Sub(_), e, ann, i, rest) ==
    CASE e.exp = "Let" -> LetIn(e.bindings[i].var, Sub(i), rest)
      [] e.exp # "Let" /\ Stays(e, i) -> rest
      [] e.exp # "Let" /\ ~Stays(e, i) -> LetIn(Temp(e, ann, i), Sub(i), rest)
LastArm(Sub(_), e, ann) ==
    IF e.exp = "Let" THEN Sub(Len(e.bindings) + 1) ELSE OnOperands(Sub, e, ann)

-----------------------------------------------------------------------------
(* uniquify_names: a bound variable gets the tag of its let in its name.    *)

NameIn(env, x) == IF x \in DOMAIN env THEN env[x] ELSE x
RenamedImm(imm, env) == IF imm.exp = "Var" THEN Var(NameIn(env, imm.x)) ELSE imm

\* List::cons
Renaming(env, x, y) == [z \in DOMAIN env \cup {x} |-> IF z = x THEN y ELSE env[z]]

NoRenaming == [x \in {} |-> x]

\* Bug: tag_sprog is forgotten, and every node has the same tag
NewNameUntagged(x, ann) == Append(x, 0)

NewName(x, ann) == Append(x, ann)

\* The nodes of a SeqExp that carry an annotation; Size(x) are those of the part x
SeqSizeArm(Size(_), e) ==
    CASE e.exp = "Let" -> Size(e.bindings[1].e) + Size(e.body) + 1
      [] e.exp = "If" -> Size(e.thn) + Size(e.els) + 1
      [] OTHER -> 1

UniquifyLet(Sub(_, _, _), Size(_), x, bound, body, env, base) ==
    LET y == NewName(x, base + Size(bound) + Size(body))
    IN  LetIn(y, Sub(bound, env, base), Sub(body, Renaming(env, x, y), base + Size(bound)))

\* Sub(x, ren, tag) renames the part x, whose first tag is tag
UniquifyArm(Sub(_, _, _), Size(_), e, env, base) ==
    CASE Immediate(e) -> RenamedImm(e, env)
      [] e.exp = "Prim1" -> Prim1(e.op, RenamedImm(e.e, env))
      [] e.exp = "Prim2" -> Prim2(e.op, RenamedImm(e.e1, env), RenamedImm(e.e2, env))
      [] e.exp = "Call" -> Call(e.f, [i \in DOMAIN e.args |-> RenamedImm(e.args[i], env)])
      [] e.exp = "If" ->
            If(RenamedImm(e.cond, env), Sub(e.thn, env, base), Sub(e.els, env, base + Size(e.thn)))
      [] e.exp = "Let" ->
            UniquifyLet(Sub, Size, e.bindings[1].var, e.bindings[1].e, e.body, env, base)

-----------------------------------------------------------------------------
(* What it takes for these definitions, which stop at the parts, to speak   *)
(* of whole programs; not code.                                             *)

\* A pass over a program leaves its declarations alone
SameDecls(p, q) ==
    /\ DOMAIN p.funs = DOMAIN q.funs
    /\ \A i \in DOMAIN p.funs : /\ p.funs[i].name = q.funs[i].name
                                /\ p.funs[i].params = q.funs[i].params

\* A tuple of parts
IsName(x) == Len(x) \in Nat /\ x = [k \in 1 .. Len(x) |-> x[k]]

\* A name that the lexer can read: no temporary is called like that
Written(x) == x[1] \notin {"#prim1", "#prim2", "#if", "#call"}

\* A table of sequentialize has
\*   asked     the expressions, each with its place, that it is called with,
\*   tag, made their tags, and what becomes of them,
\*   parts     their children with their places, in order,
\*   rest      what comes from the i-th operand or binding on.
LoweredPart(w, j, k) == w.made[w.parts[j][k]]

RestFrom(w, j, i) ==
    IF i = Steps(j[1]) + 1 THEN LastArm(LAMBDA k : LoweredPart(w, j, k), j[1], w.tag[j])
    ELSE StepArm(LAMBDA k : LoweredPart(w, j, k), j[1], w.tag[j], i, w.rest[<<j, i + 1>>])

LoweringKnown(w) ==
    \A j \in w.asked :
        /\ j[1].exp # "Applied"
        /\ \A k \in DOMAIN Children(j[1]) :
              w.parts[j][k] \in w.asked /\ w.parts[j][k][1] = Children(j[1])[k]
        /\ j[1].exp = "Let" => j[1].bindings # <<>>
                               /\ \A i \in DOMAIN j[1].bindings : Written(j[1].bindings[i].var)
        /\ IF Immediate(j[1]) THEN w.made[j] = j[1]
           ELSE /\ w.made[j] = w.rest[<<j, 1>>]
                /\ \A i \in 1 .. Steps(j[1]) + 1 : w.rest[<<j, i>>] = RestFrom(w, j, i)

\* s is what seq_prog makes of q; the bodies of q are w.bodies
LoweredBy(w, q, s) ==
    /\ LoweringKnown(w) /\ SameDecls(s, q)
    /\ \A i \in BodyNumbers(q) :
          /\ w.bodies[i] \in w.asked /\ w.bodies[i][1] = BodyOf(q, i)
          /\ BodyOf(s, i) = w.made[w.bodies[i]]
          /\ \A x \in ParamsOf(q, i) : Written(x)

\* A table of uniquify_names has in asked the expressions with the renaming and the
\* first tag that it is called with, made what becomes of them, size their sizes, and
\* binders the variables bound in that
RenamedFrom(w, e, env, base) ==
    UniquifyArm(LAMBDA x, ren, tag : w.made[<<x, ren, tag>>], LAMBDA x : w.size[x], e, env, base)

RenamingAsks(w, e, env, base) ==
    CASE e.exp = "If" -> {<<e.thn, env, base>>, <<e.els, env, base + w.size[e.thn]>>}
      [] e.exp = "Let" ->
            LET bound == e.bindings[1].e
                y == NewName(e.bindings[1].var, base + w.size[bound] + w.size[e.body])
            IN  {<<bound, env, base>>,
                 <<e.body, Renaming(env, e.bindings[1].var, y), base + w.size[bound]>>}
      [] OTHER -> {}

RenamingKnown(w) ==
    \A j \in w.asked :
        LET e == j[1]
        IN  /\ Sequential(e) /\ j[3] \in Nat /\ w.size[e] \in Nat
            /\ w.size[e] = SeqSizeArm(LAMBDA x : w.size[x], e)
            /\ e.exp = "Let" => e = LetIn(e.bindings[1].var, e.bindings[1].e, e.body)
                                /\ IsName(e.bindings[1].var)
            /\ w.made[j] = RenamedFrom(w, e, j[2], j[3])
            /\ w.binders[w.made[j]] = BindersFrom(w, w.made[j])
            /\ RenamingAsks(w, e, j[2], j[3]) \subseteq w.asked

\* x is not y with a tag
Untagged(x, y) == x # NewName(y, x[Len(x)])

\* u is what uniquify_names makes of s, with a table of each body, where no parameter
\* is called like a bound variable with a tag
RenamedBy(w, s, u) ==
    /\ SameDecls(u, s)
    /\ \A i \in BodyNumbers(s) :
          /\ RenamingKnown(w[i])
          /\ <<BodyOf(s, i), NoRenaming, w[i].base>> \in w[i].asked
          /\ BodyOf(u, i) = w[i].made[<<BodyOf(s, i), NoRenaming, w[i].base>>]
          /\ \A j \in w[i].asked : j[1].exp = "Let" =>
                \A x \in ParamsOf(s, i) : Untagged(x, j[1].bindings[1].var)

\* No two lets in what becomes of a body bind the same name, and none a parameter's
DistinctBinders(w, e) ==
    LET Names(x) == w.binders[x]
    IN  CASE e.exp = "Let" -> /\ e.bindings[1].var \notin Names(e.bindings[1].e) \cup Names(e.body)
                              /\ Names(e.bindings[1].e) \cap Names(e.body) = {}
          [] e.exp = "If" -> Names(e.thn) \cap Names(e.els) = {}
          [] OTHER -> TRUE
=============================================================================
