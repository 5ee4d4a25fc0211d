-------------------------------- MODULE Snake --------------------------------
(***************************************************************************)
(* The language: its expressions (src/src/syntax.rs) and its values and    *)
(* primitive operations (src/src/interp.rs:6-183).                         *)
(*                                                                         *)
(* A name is a tuple of parts, the pieces that format! joins with "_": the *)
(* identifier x is <<"x">>, the identifier x_5 is <<"x", 5>>, and so is    *)
(* the name the compiler makes from the variable x and the tag 5.          *)
(***************************************************************************)
EXTENDS Integers, Sequences

CONSTANT MaxInt              \* MAX_INT of interp.rs:124, 2^62 - 1 in the code

ASSUME MaxIntAssumption == MaxInt \in Nat

\* A Vec, as a sequence of its own elements, whatever they are
IsSeq(s) == s \in Seq({s[i] : i \in DOMAIN s})

-----------------------------------------------------------------------------
(* Exp and SeqExp.  The annotation of a node is not kept: the tags the      *)
(* passes need are its position, which they compute.                        *)

Num(n) == [exp |-> "Num", n |-> n]
Bool(b) == [exp |-> "Bool", b |-> b]
Var(x) == [exp |-> "Var", x |-> x]
Prim1(op, e) == [exp |-> "Prim1", op |-> op, e |-> e]
Prim2(op, e1, e2) == [exp |-> "Prim2", op |-> op, e1 |-> e1, e2 |-> e2]
Let(bindings, body) == [exp |-> "Let", bindings |-> bindings, body |-> body]
If(cond, thn, els) == [exp |-> "If", cond |-> cond, thn |-> thn, els |-> els]
Call(f, args) == [exp |-> "Call", f |-> f, args |-> args]

\* One of the bindings of a Let
Binding(x, e) == [var |-> x, e |-> e]

\* FunDecl and Prog
FunDecl(name, params, body) == [name |-> name, params |-> params, body |-> body]
Prog(funs, main) == [funs |-> funs, main |-> main]

ParamSet(d) == {d.params[i] : i \in DOMAIN d.params}

Arith1 == {"Add1", "Sub1"}
Print1 == {"Print", "PrintStack"}
Prim1Ops == Arith1 \cup Print1 \cup {"Not", "IsBool", "IsNum"}

Arith2 == {"Add", "Sub", "Mul"}
Log2 == {"And", "Or"}
Cmp2 == {"Lt", "Le", "Gt", "Ge"}
Eq2 == {"Eq", "Neq"}
Prim2Ops == Arith2 \cup Log2 \cup Cmp2 \cup Eq2

\* The expressions the passes treat as immediate
Immediate(e) == e.exp \in {"Num", "Bool", "Var"}

\* The expressions an expression is made of, in the order of their tags
Children(e) ==
    CASE e.exp \in {"Num", "Bool", "Var"} -> <<>>
      [] e.exp = "Prim1" -> <<e.e>>
      [] e.exp = "Prim2" -> <<e.e1, e.e2>>
      [] e.exp = "If" -> <<e.cond, e.thn, e.els>>
      [] e.exp = "Let" -> [i \in DOMAIN e.bindings |-> e.bindings[i].e] \o <<e.body>>
      [] e.exp = "Call" -> e.args

-----------------------------------------------------------------------------
(* Values.                                                                  *)

NumV(n) == [t |-> "Num", n |-> n]
BoolV(b) == [t |-> "Bool", b |-> b]

MinInt == -MaxInt - 1
OutOfBounds(n) == n > MaxInt \/ n < MinInt

\* "should fit into 63 bits though" (interp.rs:8)
Values == [t : {"Num"}, n : MinInt .. MaxInt] \cup [t : {"Bool"}, b : BOOLEAN]

\* i64 arithmetic: one bit wider than the numbers of the language
TwoTo63 == 2 * MaxInt + 2
Wrap(n) == ((n + TwoTo63) % (2 * TwoTo63)) - TwoTo63

\* InterpErr; the wording (msg) is left out
ExpectedNum(who, v) == [t |-> "Err", err |-> "ExpectedNum", who |-> who, got |-> v]
ExpectedBool(who, v) == [t |-> "Err", err |-> "ExpectedBool", who |-> who, got |-> v]
Overflow == [t |-> "Err", err |-> "Overflow"]
WriteErr == [t |-> "Err", err |-> "Write"]

IsErr(r) == r.t = "Err"

-----------------------------------------------------------------------------
(* Primitive operations: a value or an error.                               *)

\* snake_arith applied to the exact result of the operation: the i64 operation
\* wraps and reports it
BoundedWrapOnly(exact) ==
    LET n3 == Wrap(exact) IN IF n3 # exact THEN Overflow ELSE NumV(n3)
Bounded(exact) ==
    LET n3 == Wrap(exact)
    IN  IF n3 # exact \/ OutOfBounds(n3) THEN Overflow ELSE NumV(n3)

Exact(op, n1, n2) ==
    CASE op \in {"Add", "Add1"} -> n1 + n2
      [] op \in {"Sub", "Sub1"} -> n1 - n2
      [] op = "Mul" -> n1 * n2

Compare(op, n1, n2) ==
    CASE op = "Lt" -> n1 < n2
      [] op = "Le" -> n1 <= n2
      [] op = "Gt" -> n1 > n2
      [] op = "Ge" -> n1 >= n2

Logic(op, b1, b2) == IF op = "And" THEN b1 /\ b2 ELSE b1 \/ b2

\* Both operands are numbers, or the first that is not is the error
Numbers(who, v1, v2, result) ==
    CASE v1.t # "Num" -> ExpectedNum(who, v1)
      [] v1.t = "Num" /\ v2.t # "Num" -> ExpectedNum(who, v2)
      [] OTHER -> result

Booleans(who, v1, v2, result) ==
    CASE v1.t # "Bool" -> ExpectedBool(who, v1)
      [] v1.t = "Bool" /\ v2.t # "Bool" -> ExpectedBool(who, v2)
      [] OTHER -> result

\* interpret_prim1, less the printing
InterpretPrim1(op, v) ==
    CASE op \in Arith1 -> IF v.t = "Num" THEN Bounded(Exact(op, v.n, 1))
                                         ELSE ExpectedNum("arithmetic", v)
      [] op = "Not" -> IF v.t = "Bool" THEN BoolV(~v.b) ELSE ExpectedBool("logic", v)
      [] op = "IsBool" -> BoolV(v.t = "Bool")
      [] op = "IsNum" -> BoolV(v.t = "Num")
      [] op \in Print1 -> v

\* interpret_prim2
InterpretPrim2(op, v1, v2) ==
    CASE op \in Arith2 -> Numbers("arithmetic", v1, v2, Bounded(Exact(op, v1.n, v2.n)))
      [] op \in Cmp2 -> Numbers("comparison", v1, v2, BoolV(Compare(op, v1.n, v2.n)))
      [] op \in Log2 -> Booleans("logic", v1, v2, BoolV(Logic(op, v1.b, v2.b)))
      [] op = "Eq" -> BoolV(v1 = v2)
      [] op = "Neq" -> BoolV(v1 # v2)
=============================================================================
