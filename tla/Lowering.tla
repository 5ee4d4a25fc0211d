------------------------------- MODULE Lowering -------------------------------
(***************************************************************************)
(* The passes of the compiler between check_prog and register allocation:  *)
(* seq_prog, uniquify_names and liveness_p, and the conflict graphs        *)
(* (src/src/compile.rs:435-989, src/src/syntax.rs:334-447).                *)
(*                                                                         *)
(* A SeqExp is an expression whose lets bind one variable and whose other  *)
(* operands are immediate.  The tags that tag_prog and tag_sprog leave on  *)
(* the nodes are their positions in post-order, so a pass computes the tag *)
(* of a node from the first tag, base, of the tree it is in.               *)
(***************************************************************************)
EXTENDS Check, Passes

LOCAL INSTANCE SequencesExt

RECURSIVE Size(_), SeqSize(_)

\* The nodes of an Exp, and of a SeqExp, that carry an annotation
Size(e) == FoldLeft(LAMBDA n, c : n + Size(c), 1, Children(e))
SeqSize(e) == SeqSizeArm(SeqSize, e)

\* The first tag of the i-th of the trees that are tagged one after the other
BaseOf(es, base, i) == FoldLeft(LAMBDA n, c : n + Size(c), base, SubSeq(es, 1, i - 1))

-----------------------------------------------------------------------------
(* sequentialize and uniquify_names, down the tree.                         *)

RECURSIVE Sequentialize(_, _), UniquifyExp(_, _, _)

\* From the i-th operand or binding on
SequentialFrom(e, base, i) ==
    LET Sub(k) == Sequentialize(Children(e)[k], BaseOf(Children(e), base, k))
        ann == base + Size(e) - 1
    IN  FoldRight(LAMBDA k, rest : StepArm(Sub, e, ann, k, rest),
                  [k \in 1 .. (Steps(e) + 1 - i) |-> i + k - 1], LastArm(Sub, e, ann))

Sequentialize(e, base) == IF Immediate(e) THEN e ELSE SequentialFrom(e, base, 1)

UniquifyExp(e, env, base) == UniquifyArm(UniquifyExp, SeqSize, e, env, base)

\* A pass over the bodies of a program, tagged functions first; a declaration has
\* a tag of its own
OverBodies(p, Pass(_, _), TreeSize(_)) ==
    LET base(i) == FoldLeft(LAMBDA n, d : n + TreeSize(d.body) + 1, 0, SubSeq(p.funs, 1, i - 1))
    IN  Prog([i \in DOMAIN p.funs |->
                 FunDecl(p.funs[i].name, p.funs[i].params, Pass(p.funs[i].body, base(i)))],
             Pass(p.main, base(Len(p.funs) + 1)))

\* seq_prog(tag_prog(p))
SeqProg(p) == OverBodies(p, Sequentialize, Size)

\* uniquify_names(tag_sprog(p)): parameters keep their names
UniquifyNames(p) == OverBodies(p, LAMBDA e, base : UniquifyExp(e, NoRenaming, base), SeqSize)

-----------------------------------------------------------------------------
(* liveness and conflicts, down the tree.                                   *)

RECURSIVE GetChildAnn(_), Liveness(_, _, _), ConflictsHelper(_, _)

GetChildAnn(s) == ChildAnnArm(GetChildAnn, s)

Liveness(e, params, out) ==
    LivenessArm(LAMBDA x, after : Liveness(x, params, after), GetChildAnn, e, params, out)

\* liveness_p
LivenessP(p) ==
    Prog([i \in DOMAIN p.funs |->
             FunDecl(p.funs[i].name, p.funs[i].params,
                     Liveness(p.funs[i].body, ParamSet(p.funs[i]), {}))],
         Liveness(p.main, {}, {}))

ConflictsHelper(s, equivs) == ConflictsArm(ConflictsHelper, s, equivs)

\* conflicts(): the graph, or a failed assertion
Conflicts(e) ==
    LET found == ConflictsHelper(e, {})
    IN  [asserted |-> found.asserted, graph |-> GraphOf(found.verts, found.edges)]
=============================================================================
